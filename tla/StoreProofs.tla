------------------------------ MODULE StoreProofs ------------------------------
(***************************************************************************)
(* Theorems about Store, for any number of processes and hosts, any limit  *)
(* on the history and any number of runs, failures and crashes.            *)
(***************************************************************************)
EXTENDS Store, FiniteSetTheorems, WellFoundedInduction, TLAPS

Lines == [place : Nat \ {0}, host : Hosts \cup {Unreadable}]
OneLinePerPlace(S) == \A l, m \in S : l.place = m.place => l = m

-------------------------------------------------------------------------------
(* Finite sets of lines: what Prune's choice of excess lines leaves behind. *)

\* A non-empty set of natural numbers has a least element.
LEMMA LeastNumber ==
  ASSUME NEW D \in SUBSET Nat, D # {}
  PROVE  \E d \in D : \A e \in D : d <= e
<1>1. PICK d \in D : \A e \in D : ~(<<e, d>> \in OpToRel(<, Nat))
  BY NatLessThanWellFounded, WFMin
<1>2. \A e \in D : ~(e < d)
  BY <1>1 DEF OpToRel
<1> QED
  BY <1>2

\* A non-empty set of lines below a bound has an oldest line.
LEMMA OldestLine ==
  ASSUME NEW S \in SUBSET Lines, S # {}
  PROVE  \E o \in S : \A l \in S : o.place <= l.place
<1> DEFINE D == {l.place : l \in S}
<1>1. D \in SUBSET Nat /\ D # {}
  BY DEF Lines
<1> HIDE DEF D
<1>2. PICK d \in D : \A e \in D : d <= e
  BY <1>1, LeastNumber
<1> QED
  BY <1>2 DEF D

\* And a newest one.
LEMMA NewestLine ==
  ASSUME NEW S \in SUBSET Lines, S # {}, NEW bound \in Nat,
         \A l \in S : l.place < bound
  PROVE  \E n \in S : \A l \in S : l.place <= n.place
<1> DEFINE D == {bound - l.place : l \in S}
<1>1. D \in SUBSET Nat /\ D # {}
  BY DEF Lines
<1> HIDE DEF D
<1>2. PICK d \in D : \A e \in D : d <= e
  BY <1>1, LeastNumber
<1>3. PICK n \in S : d = bound - n.place
  BY DEF D
<1>4. \A l \in S : bound - n.place <= bound - l.place
  BY <1>2, <1>3 DEF D
<1>5. \A l \in S : l.place <= n.place
  BY <1>4 DEF Lines
<1> QED
  BY <1>5

\* Subsets of a finite set of lines are finite; larger ones count more.
LEMMA CountingLines ==
  ASSUME NEW S, IsFiniteSet(S), NEW T \in SUBSET S
  PROVE  /\ IsFiniteSet(T)
         /\ Cardinality(S) \in Nat /\ Cardinality(T) \in Nat
         /\ Cardinality(T) <= Cardinality(S)
BY FS_Subset, FS_CardinalityType

\* Dropping the excess of a host leaves at most MaxEntries of its entries.
LEMMA ExcessLeavesAtMostLimit ==
  ASSUME NEW S \in SUBSET Lines, IsFiniteSet(S), OneLinePerPlace(S), NEW h
  PROVE  Cardinality(EntriesOf(S \ Excess(S, h), h)) <= MaxEntries
<1> DEFINE T == EntriesOf(S \ Excess(S, h), h)
<1>1. /\ T \in SUBSET S /\ T \in SUBSET Lines
      /\ \A l \in T : l.host = h /\ l \notin Excess(S, h)
  BY DEF EntriesOf
<1>2. IsFiniteSet(T) /\ Cardinality(T) \in Nat
  BY <1>1, CountingLines
<1>3. SUFFICES ASSUME Cardinality(T) > MaxEntries PROVE FALSE
  BY <1>2, MaxEntriesAssumption
<1>4. T # {}
  BY <1>3, FS_EmptySet, MaxEntriesAssumption
<1> HIDE DEF T
<1>5. PICK o \in T : \A l \in T : o.place <= l.place
  BY <1>1, <1>4, OldestLine
<1>6. \A l \in T \ {o} : l.place > o.place
  BY <1>1, <1>5 DEF OneLinePerPlace, Lines
<1>7. T \ {o} \in SUBSET Newer(S, o)
  BY <1>1, <1>6 DEF Newer
<1>8. Newer(S, o) \in SUBSET S
  BY DEF Newer
<1>9. Cardinality(T \ {o}) = Cardinality(T) - 1
  BY <1>2, FS_RemoveElement
<1>10. /\ IsFiniteSet(Newer(S, o))
       /\ Cardinality(Newer(S, o)) \in Nat
       /\ Cardinality(T \ {o}) <= Cardinality(Newer(S, o))
  BY <1>7, <1>8, CountingLines
<1>11. Cardinality(Newer(S, o)) >= MaxEntries
  BY <1>2, <1>3, <1>9, <1>10, MaxEntriesAssumption
<1> QED
  BY <1>1, <1>11 DEF Excess, EntriesOf

\* Dropping the excess of a host leaves every line that had MaxEntries newer
\* ones with MaxEntries newer ones.
LEMMA ExcessKeepsNewest ==
  ASSUME NEW S \in SUBSET Lines, IsFiniteSet(S), NEW h,
         NEW bound \in Nat, \A l \in S : l.place < bound,
         NEW l \in Lines, Cardinality(Newer(S, l)) >= MaxEntries
  PROVE  Cardinality(Newer(S \ Excess(S, h), l)) >= MaxEntries
<1> DEFINE X == Excess(S, h)
<1>1. X \in SUBSET S /\ X \in SUBSET Lines /\ \A x \in X : x.host = h
  BY DEF Excess, EntriesOf
<1>2. CASE Newer(S, l) \cap X = {}
  <2>1. Newer(S \ X, l) = Newer(S, l)
    BY <1>2 DEF Newer
  <2> QED
    BY <2>1
<1>3. CASE Newer(S, l) \cap X # {}
  <2>1. PICK x \in Newer(S, l) : x \in X
    BY <1>3
  <2>2. X # {} /\ \A y \in X : y.place < bound
    BY <1>1, <2>1
  <2> HIDE DEF X
  <2>3. PICK n \in X : \A y \in X : y.place <= n.place
    BY <1>1, <2>2, NewestLine
  <2>4. /\ Cardinality(Newer(S, n)) >= MaxEntries
        /\ n.host = h /\ n \in Lines
    BY <1>1, <2>3 DEF X, Excess
  <2>5. /\ l.host = h
        /\ l.place < n.place
    BY <1>1, <2>1, <2>3 DEF Newer, Lines
  <2>6. Newer(S, n) \in SUBSET Newer(S \ X, l)
    BY <1>1, <2>3, <2>4, <2>5 DEF Newer, Lines
  <2>7. Newer(S \ X, l) \in SUBSET S
    BY DEF Newer
  <2>8. /\ Cardinality(Newer(S, n)) \in Nat
        /\ Cardinality(Newer(S \ X, l)) \in Nat
        /\ Cardinality(Newer(S, n)) <= Cardinality(Newer(S \ X, l))
    BY <2>6, <2>7, CountingLines
  <2> QED
    BY <2>4, <2>8, MaxEntriesAssumption DEF X
<1> QED
  BY <1>2, <1>3

-------------------------------------------------------------------------------
(* The inductive invariant. *)

\* Who is in PersistAndPrune holds the lock, and nobody else is there.
Mutex == \A p \in Procs : pc[p] \in Critical <=> holder = p

\* While a process is past its Open the file at path is the one it opened; once
\* it has appended, the last line is whole; what it read to prune is the file.
Undisturbed ==
  \A p \in Procs :
    /\ pc[p] = "opened" => fd[p] = gen
    /\ pc[p] \in {"appended", "pruning"} => torn = 0
    /\ pc[p] = "pruning" => snap[p] = file

\* What AckedEntryKept asks of an acknowledged entry.
Kept(l) == l \in file \/ OutOfWindow(l) \/ l.place \in merged

\* An entry is kept from the moment it is written, before it is acknowledged.
OwnEntryKept ==
  \A p \in Procs : pc[p] \in {"appended", "pruning", "pruned"} =>
    /\ mine[p] \in Nat \ {0} /\ mine[p] < next
    /\ Kept(Line(mine[p], HostOf[p]))

IInv ==
  /\ TypeOK
  /\ IsFiniteSet(file)
  /\ Mutex
  /\ Undisturbed
  /\ OwnEntryKept
  /\ AckedEntryKept
  /\ WithinLimit

\* The process in the critical section is alone in it.
LEMMA Alone ==
  ASSUME Mutex, NEW p \in Procs, pc[p] \in Critical,
         NEW q \in Procs, q # p
  PROVE  pc[q] \notin Critical
BY DEF Mutex

\* More whole lines put no line back into the window.
LEMMA GrowingFile ==
  ASSUME IsFiniteSet(file'), Whole \in SUBSET Whole'
  PROVE  \A l \in Lines : OutOfWindow(l) => OutOfWindow(l)'
<1> TAKE l \in Lines
<1>1. Newer(Whole, l) \in SUBSET Newer(Whole', l)
  BY DEF Newer
<1>2. Newer(Whole', l) \in SUBSET file'
  BY DEF Newer, Whole
<1>3. /\ Cardinality(Newer(Whole, l)) \in Nat
      /\ Cardinality(Newer(Whole', l)) \in Nat
      /\ Cardinality(Newer(Whole, l)) <= Cardinality(Newer(Whole', l))
  BY <1>1, <1>2, CountingLines
<1> QED
  BY <1>3, MaxEntriesAssumption DEF OutOfWindow

\* A write keeps the file well formed and loses no entry, whatever the last
\* line looked like and whether or not it completes its own.
LEMMA WriteEffect ==
  ASSUME TypeOK, IsFiniteSet(file),
         NEW w \in Lines, w.place = next,
         file' = AfterWrite(file, w),
         next' = next + 1,
         torn' \in {0, IF torn = 0 THEN next ELSE torn},
         merged' = IF torn = 0 THEN merged ELSE merged \cup {torn, next}
  PROVE  /\ file' \in SUBSET Lines
         /\ IsFiniteSet(file')
         /\ OneLinePerPlace(file')
         /\ \A l \in file' : l.place < next'
         /\ merged' \subseteq Nat /\ torn' \in Nat /\ torn' < next'
         /\ \A l \in Lines : Kept(l) => Kept(l)'
         /\ Kept(w)'
<1> DEFINE old == {l \in file : l.place # torn}
<1>1. /\ file \in SUBSET Lines /\ OneLinePerPlace(file)
      /\ \A l \in file : l.place < next
      /\ torn \in Nat /\ next \in Nat \ {0} /\ torn < next /\ merged \subseteq Nat
  BY DEF TypeOK, Lines, OneLinePerPlace
<1>2. /\ Unparsable(file) \in SUBSET {Line(torn, Unreadable)}
      /\ Unparsable(file) \in SUBSET Lines
  BY <1>1 DEF Unparsable, Line, Lines
<1>3. CASE torn = 0
  <2>1. file' = file \cup {w}
    BY <1>3 DEF AfterWrite
  <2>2. IsFiniteSet(file')
    BY <2>1, FS_AddElement
  <2>3. /\ file' \in SUBSET Lines /\ OneLinePerPlace(file')
        /\ \A l \in file' : l.place < next'
    BY <1>1, <2>1 DEF OneLinePerPlace, Lines
  <2>4. Whole \in SUBSET Whole'
    BY <1>1, <1>3, <2>1 DEF Whole, Lines
  <2>5. merged' \subseteq Nat /\ torn' \in Nat /\ torn' < next'
    BY <1>1, <1>3
  <2>6. \A l \in Lines : OutOfWindow(l) => OutOfWindow(l)'
    BY <2>2, <2>4, GrowingFile
  <2>7. \A l \in Lines : Kept(l) => Kept(l)'
    BY <1>3, <2>1, <2>6 DEF Kept
  <2>8. Kept(w)'
    BY <2>1 DEF Kept
  <2> QED
    BY <2>2, <2>3, <2>5, <2>7, <2>8
<1>4. CASE torn # 0
  <2>1. file' = old \cup Unparsable(file)
    BY <1>4 DEF AfterWrite
  <2>2. IsFiniteSet(file')
    <3>1. IsFiniteSet(old)
      BY CountingLines
    <3>2. IsFiniteSet(old \cup {Line(torn, Unreadable)})
      BY <3>1, FS_AddElement
    <3> QED
      BY <1>2, <2>1, <3>2, CountingLines
  <2>3. /\ file' \in SUBSET Lines /\ OneLinePerPlace(file')
        /\ \A l \in file' : l.place < next'
    BY <1>1, <1>2, <2>1 DEF OneLinePerPlace, Lines, Line
  <2>4. Whole \in SUBSET Whole'
    BY <1>1, <2>1 DEF Whole, Lines
  <2>5. merged' \subseteq Nat /\ torn' \in Nat /\ torn' < next'
    BY <1>1, <1>4
  <2>6. \A l \in Lines : OutOfWindow(l) => OutOfWindow(l)'
    BY <2>2, <2>4, GrowingFile
  <2>7. \A l \in Lines : Kept(l) => Kept(l)'
    <3> SUFFICES ASSUME NEW l \in Lines, l \in file PROVE Kept(l)'
      BY <1>4, <2>6 DEF Kept
    <3>1. CASE l.place = torn
      BY <1>4, <3>1 DEF Kept
    <3>2. CASE l.place # torn
      BY <2>1, <3>2 DEF Kept
    <3> QED
      BY <3>1, <3>2
  <2>8. Kept(w)'
    BY <1>4 DEF Kept
  <2> QED
    BY <2>2, <2>3, <2>5, <2>7, <2>8
<1> QED
  BY <1>3, <1>4

\* Prune's rename keeps the file well formed, loses no entry that is not out of
\* the window, and leaves the host within its limit.
LEMMA PruneEffect ==
  ASSUME TypeOK, IsFiniteSet(file), Undisturbed,
         NEW p \in Procs, PruneRenames(p)
  PROVE  /\ file' \in SUBSET file
         /\ \A l \in Lines : Kept(l) => Kept(l)'
         /\ Cardinality(EntriesOf(file', HostOf[p])) <= MaxEntries
<1> DEFINE h == HostOf[p]
<1>1. /\ torn = 0 /\ torn' = 0 /\ merged' = merged
      /\ file' = file \ Excess(file, h)
  BY DEF PruneRenames, Undisturbed
<1>2. /\ file \in SUBSET Lines /\ OneLinePerPlace(file) /\ next \in Nat
      /\ \A l \in file : l.place < next
  BY DEF TypeOK, Lines, OneLinePerPlace
<1>3. Whole = file /\ Whole' = file'
  BY <1>1, <1>2 DEF Whole, Lines
<1>4. \A l \in Lines : Cardinality(Newer(file, l)) >= MaxEntries =>
                         Cardinality(Newer(file \ Excess(file, h), l)) >= MaxEntries
  BY <1>2, ExcessKeepsNewest
<1>5. \A l \in Lines : OutOfWindow(l) => OutOfWindow(l)'
  BY <1>1, <1>3, <1>4 DEF OutOfWindow
<1>6. \A l \in Excess(file, h) : OutOfWindow(l)
  BY <1>3 DEF Excess, OutOfWindow
<1>7. \A l \in Lines : Kept(l) => Kept(l)'
  BY <1>1, <1>5, <1>6 DEF Kept
<1> QED
  BY <1>1, <1>2, <1>7, ExcessLeavesAtMostLimit

-------------------------------------------------------------------------------
(* Every step preserves the invariant. *)

\* The types of the variables a step of one process changes beside the file.
ProcTypes ==
  /\ pc \in [Procs -> Steps]
  /\ holder \in Procs \cup {NoProc}
  /\ gen \in Nat
  /\ fd \in [Procs -> Nat]
  /\ mine \in [Procs -> Nat]
  /\ snap \in [Procs -> SUBSET Lines]
  /\ runs \in Nat
  /\ acked \subseteq [place : Nat \ {0}, host : Hosts]

\* The types of the file and its invariants.
FileTypes ==
  /\ file \in SUBSET Lines
  /\ OneLinePerPlace(file)
  /\ \A l \in file : l.place < next
  /\ torn \in Nat /\ torn < next
  /\ next \in Nat \ {0}
  /\ merged \subseteq Nat

LEMMA TypeOKSplit == TypeOK <=> ProcTypes /\ FileTypes
BY DEF TypeOK, ProcTypes, FileTypes, Lines, OneLinePerPlace

LEMMA ProcTypesStep ==
  ASSUME TypeOK, OwnEntryKept, [Next]_vars
  PROVE  ProcTypes'
<1> USE DEF ProcTypes, Goto, Release, Steps, fileVars, procVars
<1>1. ProcTypes /\ FileTypes
  BY TypeOKSplit
<1>2. ASSUME NEW p \in Procs, Begin(p) PROVE ProcTypes'
  BY <1>1, <1>2 DEF Begin
<1>3. ASSUME NEW p \in Procs, Lock(p) PROVE ProcTypes'
  BY <1>1, <1>3 DEF Lock
<1>4. ASSUME NEW p \in Procs, OpenStore(p) PROVE ProcTypes'
  BY <1>1, <1>4 DEF OpenStore
<1>5. ASSUME NEW p \in Procs, AppendLine(p) PROVE ProcTypes'
  BY <1>1, <1>5 DEF AppendLine, FileTypes
<1>6. ASSUME NEW p \in Procs, AppendFails(p) PROVE ProcTypes'
  BY <1>1, <1>6 DEF AppendFails
<1>7. ASSUME NEW p \in Procs, PruneReads(p) PROVE ProcTypes'
  BY <1>1, <1>7 DEF PruneReads, FileTypes
<1>8. ASSUME NEW p \in Procs, PruneRenames(p) PROVE ProcTypes'
  BY <1>1, <1>8 DEF PruneRenames
<1>9. ASSUME NEW p \in Procs, Return(p) PROVE ProcTypes'
  <2>1. mine[p] \in Nat \ {0} /\ HostOf[p] \in Hosts
    BY <1>1, <1>9, HostOfAssumption DEF Return, OwnEntryKept, FileTypes
  <2>2. Line(mine[p], HostOf[p]) \in [place : Nat \ {0}, host : Hosts]
    BY <2>1 DEF Line
  <2> QED
    BY <1>1, <1>9, <2>2 DEF Return
<1>10. ASSUME NEW p \in Procs, StepFails(p) \/ Crash(p) PROVE ProcTypes'
  BY <1>1, <1>10 DEF StepFails, Crash
<1>11. CASE UNCHANGED vars
  BY <1>1, <1>11 DEF vars
<1> QED
  BY <1>2, <1>3, <1>4, <1>5, <1>6, <1>7, <1>8, <1>9, <1>10, <1>11 DEF Next, Done

\* Entering, leaving and holding the lock.
LEMMA MutexStep ==
  ASSUME TypeOK, Mutex, [Next]_vars
  PROVE  Mutex'
<1> USE DEF Mutex, Goto, Release, Critical
<1>1. /\ pc \in [Procs -> Steps]
      /\ holder \in Procs \cup {NoProc}
      /\ NoProc \notin Procs
  BY NoProcAssumption DEF TypeOK
<1>2. ASSUME NEW p \in Procs, Begin(p) PROVE Mutex'
  BY <1>1, <1>2 DEF Begin
<1>3. ASSUME NEW p \in Procs, Lock(p) PROVE Mutex'
  BY <1>1, <1>3 DEF Lock
<1>4. ASSUME NEW p \in Procs,
             OpenStore(p) \/ AppendLine(p) \/ PruneReads(p) \/ PruneRenames(p)
      PROVE  Mutex'
  BY <1>1, <1>4 DEF OpenStore, AppendLine, PruneReads, PruneRenames
<1>5. ASSUME NEW p \in Procs,
             AppendFails(p) \/ Return(p) \/ StepFails(p) \/ Crash(p)
      PROVE  Mutex'
  <2>1. pc[p] # "idle" /\ pc' = [pc EXCEPT ![p] = "idle"]
    BY <1>5 DEF AppendFails, Return, StepFails, Crash
  <2>2. holder' = IF holder = p THEN NoProc ELSE holder
    BY <1>5 DEF AppendFails, Return, StepFails, Crash
  <2> QED
    BY <1>1, <2>1, <2>2
<1>6. CASE UNCHANGED vars
  BY <1>6 DEF vars
<1> QED
  BY <1>2, <1>3, <1>4, <1>5, <1>6 DEF Next, Done

\* A step that leaves the file alone loses no entry.
LEMMA FileUnchanged ==
  ASSUME UNCHANGED <<file, torn, merged>>
  PROVE  \A l \in Lines : Kept(l) => Kept(l)'
BY DEF Kept, OutOfWindow, Whole

\* When every entry that was kept is kept, so are those of the processes whose
\* place and line do not change.
LEMMA EntriesCarriedOver ==
  ASSUME TypeOK, OwnEntryKept, AckedEntryKept,
         next' \in Nat, next <= next',
         \A l \in Lines : Kept(l) => Kept(l)'
  PROVE  /\ \A p \in Procs :
              pc[p] \in {"appended", "pruning", "pruned"} /\ mine'[p] = mine[p] =>
                /\ mine'[p] \in Nat \ {0} /\ mine'[p] < next'
                /\ Kept(Line(mine[p], HostOf[p]))'
         /\ acked' = acked => AckedEntryKept'
<1>1. ASSUME NEW p \in Procs, pc[p] \in {"appended", "pruning", "pruned"},
             mine'[p] = mine[p]
      PROVE  /\ mine'[p] \in Nat \ {0} /\ mine'[p] < next'
             /\ Kept(Line(mine[p], HostOf[p]))'
  <2>1. /\ mine[p] \in Nat \ {0} /\ mine[p] < next /\ next \in Nat
        /\ HostOf[p] \in Hosts
    BY <1>1, HostOfAssumption DEF OwnEntryKept, TypeOK
  <2>2. PICK l \in Lines : l = Line(mine[p], HostOf[p])
    BY <2>1 DEF Line, Lines
  <2>3. Kept(l)
    BY <1>1, <2>2 DEF OwnEntryKept
  <2>4. Kept(l)' /\ l = Line(mine'[p], HostOf[p])
    BY <1>1, <2>2, <2>3
  <2>5. Kept(Line(mine[p], HostOf[p]))'
    BY <2>4
  <2> QED
    BY <1>1, <2>1, <2>5
<1>2. ASSUME acked' = acked PROVE AckedEntryKept'
  <2>1. acked \in SUBSET Lines /\ \A l \in acked : Kept(l)
    BY DEF TypeOK, Lines, AckedEntryKept, Kept
  <2>2. \A l \in acked' : Kept(l)'
    BY <1>2, <2>1
  <2> QED
    BY <2>2 DEF AckedEntryKept, Kept
<1> QED
  BY <1>1, <1>2

\* The rest of the invariant, beside ProcTypes and Mutex.
FileInv ==
  /\ FileTypes
  /\ IsFiniteSet(file)
  /\ Undisturbed
  /\ OwnEntryKept
  /\ AckedEntryKept
  /\ WithinLimit

\* Steps that touch neither the file nor what a process knows of it.
LEMMA QuietStep ==
  ASSUME IInv,
         UNCHANGED <<file, torn, next, merged, gen, fd, mine, snap, acked>>,
         \A q \in Procs : pc'[q] = pc[q] \/ pc'[q] \in {"idle", "started", "locked"}
  PROVE  FileInv'
<1>1. FileTypes' /\ IsFiniteSet(file')
  BY TypeOKSplit DEF IInv, FileTypes
<1>2. Undisturbed'
  BY DEF IInv, Undisturbed
<1>3. /\ \A l \in Lines : Kept(l) => Kept(l)'
      /\ next' \in Nat /\ next <= next'
  BY FileUnchanged DEF IInv, TypeOK
<1>4. OwnEntryKept' /\ AckedEntryKept'
  BY <1>3, EntriesCarriedOver DEF IInv, OwnEntryKept
<1>5. WithinLimit'
  BY DEF IInv, WithinLimit
<1> QED
  BY <1>1, <1>2, <1>4, <1>5 DEF FileInv

\* A process that has just opened the file at path.
LEMMA OpenStep ==
  ASSUME IInv, NEW p \in Procs, OpenStore(p)
  PROVE  FileInv'
<1>1. /\ UNCHANGED <<file, torn, next, merged, gen, mine, snap, acked>>
      /\ pc' = [pc EXCEPT ![p] = "opened"]
      /\ fd' = [fd EXCEPT ![p] = gen]
  BY DEF OpenStore, Goto, fileVars
<1>2. pc \in [Procs -> Steps] /\ fd \in [Procs -> Nat]
  BY DEF IInv, TypeOK
<1>3. FileTypes' /\ IsFiniteSet(file')
  BY <1>1, TypeOKSplit DEF IInv, FileTypes
<1>4. Undisturbed'
  BY <1>1, <1>2 DEF IInv, Undisturbed
<1>5. /\ \A l \in Lines : Kept(l) => Kept(l)'
      /\ next' \in Nat /\ next <= next'
  BY <1>1, FileUnchanged DEF IInv, TypeOK
<1>6. OwnEntryKept' /\ AckedEntryKept'
  BY <1>1, <1>2, <1>5, EntriesCarriedOver DEF IInv, OwnEntryKept
<1>7. WithinLimit'
  BY <1>1, <1>2 DEF IInv, WithinLimit
<1> QED
  BY <1>3, <1>4, <1>6, <1>7 DEF FileInv

\* Nobody else is past the lock while p appends or prunes.
LEMMA OthersOutside ==
  ASSUME IInv, NEW p \in Procs, pc[p] \in Critical, NEW step,
         pc' = [pc EXCEPT ![p] = step]
  PROVE  /\ pc'[p] = step
         /\ \A q \in Procs : q # p =>
              pc'[q] \notin {"opened", "appended", "pruning", "pruned"}
BY Alone DEF IInv, TypeOK, Critical

LEMMA AppendStep ==
  ASSUME IInv, NEW p \in Procs, AppendLine(p)
  PROVE  FileInv'
<1>1. /\ fd[p] = gen /\ pc[p] \in Critical
      /\ mine \in [Procs -> Nat] /\ next \in Nat \ {0}
      /\ HostOf[p] \in Hosts
  BY HostOfAssumption DEF IInv, AppendLine, Undisturbed, TypeOK, Critical
<1>2. PICK w \in Lines : w = Line(next, HostOf[p])
  BY <1>1 DEF Line, Lines
<1>3. /\ file' = AfterWrite(file, w) /\ torn' = 0 /\ next' = next + 1
      /\ merged' = IF torn = 0 THEN merged ELSE merged \cup {torn, next}
      /\ w.place = next
      /\ mine' = [mine EXCEPT ![p] = next] /\ acked' = acked
      /\ pc' = [pc EXCEPT ![p] = "appended"]
  BY <1>1, <1>2 DEF AppendLine, Goto, Line
<1>4. /\ FileTypes' /\ IsFiniteSet(file')
      /\ \A l \in Lines : Kept(l) => Kept(l)'
      /\ Kept(w)'
  BY <1>1, <1>3, WriteEffect DEF IInv, FileTypes
<1>5. /\ pc'[p] = "appended"
      /\ \A q \in Procs : q # p =>
           pc'[q] \notin {"opened", "appended", "pruning", "pruned"}
  BY <1>1, <1>3, OthersOutside
<1>6. Undisturbed'
  BY <1>3, <1>5 DEF Undisturbed
<1>7. /\ mine'[p] \in Nat \ {0} /\ mine'[p] < next'
      /\ w = Line(mine'[p], HostOf[p])
  BY <1>1, <1>2, <1>3
<1>8. Kept(Line(mine[p], HostOf[p]))'
  BY <1>4, <1>7
<1>9. OwnEntryKept'
  BY <1>5, <1>7, <1>8 DEF OwnEntryKept
<1>10. AckedEntryKept'
  BY <1>1, <1>3, <1>4, EntriesCarriedOver DEF IInv
<1>11. WithinLimit'
  BY <1>5 DEF WithinLimit
<1> QED
  BY <1>4, <1>6, <1>9, <1>10, <1>11 DEF FileInv

\* A write that stopped half way: its process is done, by an error or a crash.
LEMMA TornStep ==
  ASSUME IInv, NEW p \in Procs, pc[p] = "opened", TornWrite(p),
         pc' = [pc EXCEPT ![p] = "idle"], acked' = acked
  PROVE  FileInv'
<1>1. next \in Nat \ {0} /\ HostOf[p] \in Hosts /\ pc[p] \in Critical
  BY HostOfAssumption DEF IInv, TypeOK, Critical
<1>2. PICK h \in {HostOf[p], Unreadable} : file' = AfterWrite(file, Line(next, h))
  BY DEF TornWrite
<1>3. PICK w \in Lines : w = Line(next, h)
  BY <1>1, <1>2 DEF Line, Lines
<1>4. /\ file' = AfterWrite(file, w) /\ w.place = next
      /\ torn' \in {0, IF torn = 0 THEN next ELSE torn} /\ next' = next + 1
      /\ merged' = IF torn = 0 THEN merged ELSE merged \cup {torn, next}
  BY <1>2, <1>3 DEF TornWrite, Line
<1>5. /\ FileTypes' /\ IsFiniteSet(file')
      /\ \A l \in Lines : Kept(l) => Kept(l)'
  BY <1>1, <1>4, WriteEffect DEF IInv, FileTypes
<1>6. \A q \in Procs : pc'[q] \notin {"opened", "appended", "pruning", "pruned"}
  BY <1>1, OthersOutside
<1>7. AckedEntryKept'
  BY <1>1, <1>4, <1>5, EntriesCarriedOver DEF IInv
<1> QED
  BY <1>5, <1>6, <1>7 DEF FileInv, Undisturbed, OwnEntryKept, WithinLimit

\* Prune finds nothing to drop only when the host is within its limit.
LEMMA PruneReadsStep ==
  ASSUME IInv, NEW p \in Procs, PruneReads(p)
  PROVE  FileInv'
<1> DEFINE step == IF Excess(file, HostOf[p]) = {} THEN "pruned" ELSE "pruning"
<1>1. /\ UNCHANGED <<file, torn, next, merged, gen, fd, mine, acked>>
      /\ pc[p] = "appended" /\ pc' = [pc EXCEPT ![p] = step]
      /\ snap' = [snap EXCEPT ![p] = file]
  BY DEF PruneReads, Goto, fileVars
<1>2. /\ pc \in [Procs -> Steps] /\ snap \in [Procs -> SUBSET Lines]
      /\ pc[p] \in Critical
  BY <1>1, TypeOKSplit DEF IInv, ProcTypes, Critical
<1>3. /\ pc'[p] = step
      /\ \A q \in Procs : q # p =>
           pc'[q] \notin {"opened", "appended", "pruning", "pruned"}
  BY <1>1, <1>2, OthersOutside
<1>4. FileTypes' /\ IsFiniteSet(file')
  BY <1>1, TypeOKSplit DEF IInv, FileTypes
<1>5. Undisturbed'
  BY <1>1, <1>2, <1>3 DEF IInv, Undisturbed
<1>6. /\ \A l \in Lines : Kept(l) => Kept(l)'
      /\ next' \in Nat /\ next <= next'
  BY <1>1, FileUnchanged DEF IInv, TypeOK
<1>7. OwnEntryKept' /\ AckedEntryKept'
  BY <1>1, <1>3, <1>6, EntriesCarriedOver DEF IInv, OwnEntryKept
<1>8. WithinLimit'
  <2>1. SUFFICES ASSUME pc'[p] = "pruned"
                 PROVE  Cardinality(EntriesOf(file', HostOf[p])) <= MaxEntries
    BY <1>3 DEF WithinLimit
  <2>2. Excess(file, HostOf[p]) = {} /\ file' = file
    BY <1>1, <1>3, <2>1
  <2>3. /\ file \in SUBSET Lines /\ IsFiniteSet(file) /\ OneLinePerPlace(file)
        /\ file \ Excess(file, HostOf[p]) = file
    BY <2>2, TypeOKSplit DEF IInv, FileTypes
  <2> QED
    BY <2>2, <2>3, ExcessLeavesAtMostLimit
<1> QED
  BY <1>4, <1>5, <1>7, <1>8 DEF FileInv

LEMMA PruneRenamesStep ==
  ASSUME IInv, NEW p \in Procs, PruneRenames(p)
  PROVE  FileInv'
<1>1. /\ UNCHANGED <<next, merged, fd, mine, snap, acked>>
      /\ torn' = 0 /\ pc[p] = "pruning"
      /\ pc' = [pc EXCEPT ![p] = "pruned"]
  BY DEF PruneRenames, Goto, procVars
<1>2. pc[p] \in Critical
  BY <1>1 DEF Critical
<1>3. /\ pc'[p] = "pruned"
      /\ \A q \in Procs : q # p =>
           pc'[q] \notin {"opened", "appended", "pruning", "pruned"}
  BY <1>1, <1>2, OthersOutside
<1>4. /\ file' \in SUBSET file
      /\ \A l \in Lines : Kept(l) => Kept(l)'
      /\ Cardinality(EntriesOf(file', HostOf[p])) <= MaxEntries
  BY PruneEffect DEF IInv
<1>5. FileTypes /\ IsFiniteSet(file)
  BY TypeOKSplit DEF IInv
<1>6. FileTypes' /\ IsFiniteSet(file')
  BY <1>1, <1>4, <1>5, CountingLines DEF FileTypes, OneLinePerPlace
<1>7. Undisturbed'
  BY <1>1, <1>3 DEF Undisturbed
<1>8. OwnEntryKept' /\ AckedEntryKept'
  BY <1>1, <1>3, <1>4, <1>5, EntriesCarriedOver
     DEF IInv, OwnEntryKept, FileTypes
<1>9. WithinLimit'
  BY <1>3, <1>4 DEF WithinLimit
<1> QED
  BY <1>6, <1>7, <1>8, <1>9 DEF FileInv

LEMMA ReturnStep ==
  ASSUME IInv, NEW p \in Procs, Return(p)
  PROVE  FileInv'
<1>1. /\ UNCHANGED <<file, torn, next, merged, gen, fd, mine, snap>>
      /\ pc[p] = "pruned" /\ pc' = [pc EXCEPT ![p] = "idle"]
      /\ acked' = acked \cup {Line(mine[p], HostOf[p])}
  BY DEF Return, Goto, fileVars, procVars
<1>2. pc[p] \in Critical
  BY <1>1 DEF Critical
<1>3. \A q \in Procs : pc'[q] \notin {"opened", "appended", "pruning", "pruned"}
  BY <1>1, <1>2, OthersOutside
<1>4. FileTypes' /\ IsFiniteSet(file')
  BY <1>1, TypeOKSplit DEF IInv, FileTypes
<1>5. AckedEntryKept'
  <2>1. \A l \in acked' : Kept(l)
    BY <1>1 DEF IInv, OwnEntryKept, AckedEntryKept, Kept
  <2>2. \A l \in acked' : Kept(l)'
    BY <1>1, <2>1 DEF Kept, OutOfWindow, Whole
  <2> QED
    BY <2>2 DEF AckedEntryKept, Kept
<1> QED
  BY <1>3, <1>4, <1>5 DEF FileInv, Undisturbed, OwnEntryKept, WithinLimit

LEMMA InvariantKept == IInv /\ [Next]_vars => IInv'
<1> SUFFICES ASSUME IInv, [Next]_vars PROVE IInv'
  OBVIOUS
<1>1. ProcTypes' /\ Mutex'
  BY ProcTypesStep, MutexStep DEF IInv
<1>2. pc \in [Procs -> Steps]
  BY DEF IInv, TypeOK
<1>3. ASSUME NEW p \in Procs, Begin(p) \/ Lock(p) \/ StepFails(p) PROVE FileInv'
  BY <1>2, <1>3, QuietStep
     DEF Begin, Lock, StepFails, Goto, fileVars, procVars
<1>4. ASSUME NEW p \in Procs, AppendFails(p) \/ Crash(p) PROVE FileInv'
  <2>1. CASE pc[p] = "opened" /\ TornWrite(p)
    BY <1>4, <2>1, TornStep DEF AppendFails, Crash, Goto
  <2>2. CASE UNCHANGED <<file, torn, merged, next>>
    BY <1>2, <1>4, <2>2, QuietStep DEF AppendFails, Crash, Goto, procVars
  <2> QED
    BY <1>4, <2>1, <2>2 DEF AppendFails, Crash
<1>5. ASSUME UNCHANGED vars PROVE FileInv'
  BY <1>5, QuietStep DEF vars
<1>6. FileInv'
  BY <1>3, <1>4, <1>5, OpenStep, AppendStep, PruneReadsStep, PruneRenamesStep,
     ReturnStep DEF Next, Done
<1>7. TypeOK'
  BY <1>1, <1>6 DEF FileInv, TypeOK, ProcTypes, FileTypes, Lines, OneLinePerPlace
<1> QED
  BY <1>1, <1>6, <1>7 DEF IInv, FileInv

LEMMA InvariantInitially == Init => IInv
<1> SUFFICES ASSUME Init PROVE IInv
  OBVIOUS
<1>1. file \in SUBSET {Line(1, Unreadable)}
  BY DEF Init
<1>2. Line(1, Unreadable) \in Lines /\ Line(1, Unreadable).place = 1
  BY DEF Line, Lines
<1>3. FileTypes
  BY <1>1, <1>2 DEF Init, FileTypes, OneLinePerPlace
<1>4. ProcTypes
  BY DEF Init, ProcTypes, Steps
<1>5. IsFiniteSet(file)
  BY <1>1, FS_Singleton, CountingLines
<1>6. \A p \in Procs : pc[p] = "idle" /\ holder # p
  BY NoProcAssumption DEF Init
<1> QED
  BY <1>3, <1>4, <1>5, <1>6, TypeOKSplit
     DEF IInv, Mutex, Critical, Undisturbed, OwnEntryKept, WithinLimit,
         AckedEntryKept, Init

LEMMA Invariance == Spec => []IInv
BY InvariantInitially, InvariantKept, PTL DEF Spec

-------------------------------------------------------------------------------
(* Theorems. *)

\* The state of the history and of its writers keeps its type; in particular no
\* two lines of the file have one place.
THEOREM TypeCorrect == Spec => []TypeOK
<1>1. IInv => TypeOK
  BY DEF IInv
<1> QED
  BY <1>1, Invariance, PTL

\* At most one process is between the lock and its release (withLock).
THEOREM MutualExclusion ==
  Spec => [](\A p, q \in Procs : pc[p] \in Critical /\ pc[q] \in Critical => p = q)
<1>1. IInv => \A p, q \in Procs : pc[p] \in Critical /\ pc[q] \in Critical => p = q
  BY DEF IInv, Mutex
<1> QED
  BY <1>1, Invariance, PTL

\* An entry PersistAndPrune acknowledged stays until MaxEntries newer entries of
\* its host are in the file, or its line was glued to a torn one: no race with
\* another process's append or prune, failure or crash loses it.
THEOREM AcknowledgedEntriesKept == Spec => []AckedEntryKept
<1>1. IInv => AckedEntryKept
  BY DEF IInv
<1> QED
  BY <1>1, Invariance, PTL

\* A host is within its limit whenever PersistAndPrune is about to return nil.
THEOREM HistoryWithinLimit == Spec => []WithinLimit
<1>1. IInv => WithinLimit
  BY DEF IInv
<1> QED
  BY <1>1, Invariance, PTL

\* No step of any process makes a line of another host, or one that does not
\* parse, disappear, except for a torn last line that is being continued; what
\* a prune drops has MaxEntries newer entries of its own host.
THEOREM OnlyPruneRemoves == Spec => OnlyOwnOldestRemoved
<1> DEFINE Removable(l) ==
      \/ l.place = torn
      \/ /\ l.host # Unreadable
         /\ Cardinality(Newer(file', l)) >= MaxEntries
         /\ \E p \in Procs : pc[p] = "pruning" /\ HostOf[p] = l.host
<1>1. IInv /\ [Next]_vars => [\A l \in file \ file' : Removable(l)]_vars
  <2> SUFFICES ASSUME IInv, [Next]_vars, NEW l \in file \ file' PROVE Removable(l)
    OBVIOUS
  <2> HIDE DEF Removable
  <2>1. ASSUME NEW w, file' = AfterWrite(file, w) PROVE Removable(l)
    BY <2>1 DEF AfterWrite, Removable
  <2>2. ASSUME NEW p \in Procs, AppendLine(p) \/ TornWrite(p) PROVE Removable(l)
    <3>1. \E w : file' = AfterWrite(file, w)
      BY <2>2 DEF AppendLine, TornWrite
    <3> QED
      BY <2>1, <3>1
  <2>3. ASSUME NEW p \in Procs, PruneRenames(p) PROVE Removable(l)
    <3>1. /\ file' = file \ Excess(file, HostOf[p]) /\ pc[p] = "pruning"
          /\ l \in Excess(file, HostOf[p])
      BY <2>3 DEF PruneRenames, IInv, Undisturbed
    <3>2. /\ l.host = HostOf[p] /\ l.host # Unreadable
          /\ Cardinality(Newer(file, l)) >= MaxEntries
      BY <3>1, HostOfAssumption, UnreadableAssumption DEF Excess, EntriesOf
    <3>3. /\ file \in SUBSET Lines /\ IsFiniteSet(file) /\ next \in Nat
          /\ \A m \in file : m.place < next
      BY TypeOKSplit DEF IInv, FileTypes
    <3>4. Cardinality(Newer(file', l)) >= MaxEntries
      BY <3>1, <3>2, <3>3, ExcessKeepsNewest
    <3> QED
      BY <3>1, <3>2, <3>4 DEF Removable
  <2>4. file' # file
    OBVIOUS
  <2> QED
    BY <2>2, <2>3, <2>4
       DEF Next, Done, Begin, Lock, OpenStore, AppendFails, PruneReads, Return,
           StepFails, Crash, fileVars, vars
<1> QED
  BY <1>1, Invariance, PTL DEF Spec, OnlyOwnOldestRemoved

-------------------------------------------------------------------------------
(* Store implements HistoryLog. *)

\* HistoryLog counts as Store does.
LEMMA SameCardinality == \A S : History!Cardinality(S) = Cardinality(S)
BY DEF History!Cardinality, Cardinality

\* Window(h) is Shown(Whole, h).
Shown(S, h) ==
  {l.place : l \in {m \in EntriesOf(S, h) : ~(Cardinality(Newer(S, m)) >= MaxEntries)}}

LEMMA WindowIsShown == \A h : Window(h) = Shown(Whole, h)
BY DEF Window, Shown, OutOfWindow

\* What is shown of a host depends on its entries alone.
LEMMA ShownOfEntries ==
  ASSUME NEW S, NEW T, NEW h, EntriesOf(S, h) = EntriesOf(T, h)
  PROVE  Shown(S, h) = Shown(T, h)
<1>1. \A m \in EntriesOf(S, h) : Newer(S, m) = Newer(T, m)
  <2> TAKE m \in EntriesOf(S, h)
  <2>1. m.host = h
    BY DEF EntriesOf
  <2>2. /\ Newer(S, m) = {l \in EntriesOf(S, h) : l.place > m.place}
        /\ Newer(T, m) = {l \in EntriesOf(T, h) : l.place > m.place}
    BY <2>1 DEF Newer, EntriesOf
  <2> QED
    BY <2>2
<1> QED
  BY <1>1 DEF Shown

\* As many places as lines.
LEMMA PlacesCount ==
  ASSUME NEW S \in SUBSET Lines, IsFiniteSet(S), OneLinePerPlace(S)
  PROVE  Cardinality({l.place : l \in S}) = Cardinality(S)
<1> DEFINE P == {l.place : l \in S}
           f == [l \in S |-> l.place]
<1>1. f \in Surjection(S, P)
  BY DEF Surjection
<1>2. f \in Injection(S, P)
  BY DEF Injection, IsInjective, OneLinePerPlace
<1> QED
  BY <1>1, <1>2, FS_Surjection

\* A prune changes nothing a reader is shown.
LEMMA PruneShowsTheSame ==
  ASSUME NEW S \in SUBSET Lines, IsFiniteSet(S), NEW g, NEW h
  PROVE  Shown(S \ Excess(S, g), h) = Shown(S, h)
<1> DEFINE T == S \ Excess(S, g)
<1>1. CASE g # h
  <2>1. EntriesOf(T, h) = EntriesOf(S, h)
    BY <1>1 DEF EntriesOf, Excess
  <2> QED
    BY <2>1, ShownOfEntries
<1>2. CASE g = h
  <2>1. \A m \in EntriesOf(T, h) :
           /\ m \in EntriesOf(S, h) /\ ~(Cardinality(Newer(S, m)) >= MaxEntries)
           /\ ~(Cardinality(Newer(T, m)) >= MaxEntries)
    <3> TAKE m \in EntriesOf(T, h)
    <3>1. m \in EntriesOf(S, h) /\ ~(Cardinality(Newer(S, m)) >= MaxEntries)
      BY <1>2 DEF EntriesOf, Excess
    <3>2. Newer(T, m) \in SUBSET Newer(S, m) /\ Newer(S, m) \in SUBSET S
      BY DEF Newer
    <3>3. /\ Cardinality(Newer(T, m)) \in Nat /\ Cardinality(Newer(S, m)) \in Nat
          /\ Cardinality(Newer(T, m)) <= Cardinality(Newer(S, m))
      BY <3>2, CountingLines
    <3> QED
      BY <3>1, <3>3, MaxEntriesAssumption
  <2>2. \A m \in EntriesOf(S, h) :
           ~(Cardinality(Newer(S, m)) >= MaxEntries) => m \in EntriesOf(T, h)
    BY <1>2 DEF EntriesOf, Excess
  <2> QED
    BY <2>1, <2>2 DEF Shown
<1> QED
  BY <1>1, <1>2

\* An entry appended after all others is shown, with those of the entries shown
\* before it that are still among the newest.
LEMMA AppendShows ==
  ASSUME NEW S \in SUBSET Lines, IsFiniteSet(S), OneLinePerPlace(S),
         NEW w \in Lines, \A l \in S : l.place < w.place
  PROVE  Shown(S \cup {w}, w.host) =
           History!Newest(Shown(S, w.host) \cup {w.place})
<1> DEFINE T == S \cup {w}
           h == w.host
           W == Shown(S, h) \cup {w.place}
           Above(n) == {m \in W : m > n}
           Recent(R, l) == ~(Cardinality(Newer(R, l)) >= MaxEntries)
<1>1. /\ T \in SUBSET Lines /\ IsFiniteSet(T) /\ OneLinePerPlace(T)
      /\ w \in EntriesOf(T, h) /\ w \notin S
  <2>1. IsFiniteSet(T)
    BY FS_AddElement
  <2> QED
    BY <2>1 DEF OneLinePerPlace, Lines, EntriesOf
<1>2. \A l \in T : /\ Newer(T, l) \in SUBSET T /\ IsFiniteSet(Newer(T, l))
                   /\ Newer(S, l) \in SUBSET Newer(T, l)
                   /\ IsFiniteSet(Newer(S, l))
                   /\ Cardinality(Newer(S, l)) \in Nat
                   /\ Cardinality(Newer(T, l)) \in Nat
                   /\ Cardinality(Newer(S, l)) <= Cardinality(Newer(T, l))
  <2> TAKE l \in T
  <2>1. Newer(T, l) \in SUBSET T /\ Newer(S, l) \in SUBSET Newer(T, l)
    BY DEF Newer
  <2> QED
    BY <1>1, <2>1, CountingLines
<1>3. Newer(T, w) = {} /\ Recent(T, w)
  <2>1. Newer(T, w) = {}
    BY DEF Newer, Lines
  <2> QED
    BY <2>1, FS_EmptySet, MaxEntriesAssumption
<1>4. ASSUME NEW l \in EntriesOf(S, h), Recent(S, l)
      PROVE  Above(l.place) = {k.place : k \in Newer(T, l)}
  <2>1. l \in S /\ l.host = h /\ l \in T
    BY DEF EntriesOf
  <2>2. ASSUME NEW k \in Newer(S, l)
        PROVE  k \in EntriesOf(S, h) /\ Recent(S, k)
    <3>1. /\ k \in S /\ k.host = h /\ k.place > l.place
          /\ Newer(S, k) \in SUBSET Newer(S, l)
      BY <2>1, <2>2 DEF Newer, Lines
    <3>2. /\ Cardinality(Newer(S, k)) <= Cardinality(Newer(S, l))
          /\ Cardinality(Newer(S, k)) \in Nat
      BY <1>2, <2>1, <3>1, CountingLines
    <3> QED
      BY <1>2, <1>4, <2>1, <3>1, <3>2, MaxEntriesAssumption DEF EntriesOf
  <2>3. Newer(T, l) = Newer(S, l) \cup {w}
    BY <2>1 DEF Newer
  <2>4. \A k \in Newer(T, l) : k.place \in Above(l.place)
    <3> TAKE k \in Newer(T, l)
    <3>1. CASE k = w
      BY <2>1, <3>1
    <3>2. CASE k \in Newer(S, l)
      BY <2>2, <3>2 DEF Shown, Newer
    <3> QED
      BY <2>3, <3>1, <3>2
  <2>5. \A m \in Above(l.place) : \E k \in Newer(T, l) : m = k.place
    <3> TAKE m \in Above(l.place)
    <3>1. CASE m = w.place
      BY <2>3, <3>1
    <3>2. CASE m \in Shown(S, h)
      <4>1. PICK k \in EntriesOf(S, h) : m = k.place
        BY <3>2 DEF Shown
      <4> QED
        BY <2>1, <4>1 DEF Newer, EntriesOf
    <3> QED
      BY <3>1, <3>2
  <2> QED
    BY <2>4, <2>5
<1>5. ASSUME NEW l \in EntriesOf(S, h), Recent(S, l)
      PROVE  Cardinality(Above(l.place)) = Cardinality(Newer(T, l))
  <2>1. l \in T
    BY DEF EntriesOf
  <2>2. /\ Newer(T, l) \in SUBSET Lines /\ OneLinePerPlace(Newer(T, l))
        /\ IsFiniteSet(Newer(T, l))
    BY <1>1, <1>2, <2>1 DEF OneLinePerPlace
  <2> QED
    BY <1>4, <1>5, <2>2, PlacesCount
<1>6. ASSUME NEW l \in EntriesOf(S, h), Recent(T, l) PROVE Recent(S, l)
  BY <1>2, <1>6, MaxEntriesAssumption DEF EntriesOf
<1>7. Cardinality(Above(w.place)) < MaxEntries
  <2>1. \A m \in Shown(S, h) : ~(m > w.place)
    BY DEF Shown, EntriesOf, Lines
  <2>2. Above(w.place) = {}
    BY <2>1 DEF Lines
  <2> QED
    BY <2>2, FS_EmptySet, MaxEntriesAssumption
<1>8. \A n \in Shown(T, h) : n \in W /\ Cardinality(Above(n)) < MaxEntries
  <2> TAKE n \in Shown(T, h)
  <2>1. PICK l \in EntriesOf(T, h) : n = l.place /\ Recent(T, l)
    BY DEF Shown
  <2>2. CASE l = w
    BY <1>7, <2>1, <2>2
  <2>3. CASE l # w
    <3>1. l \in EntriesOf(S, h)
      BY <2>3 DEF EntriesOf
    <3>2. Recent(S, l) /\ Cardinality(Above(n)) = Cardinality(Newer(T, l))
      BY <1>5, <1>6, <2>1, <3>1
    <3>3. n \in W
      BY <2>1, <3>1, <3>2 DEF Shown
    <3>4. Cardinality(Newer(T, l)) \in Nat /\ Recent(T, l)
      BY <1>2, <2>1 DEF EntriesOf
    <3> QED
      BY <3>2, <3>3, <3>4, MaxEntriesAssumption
  <2> QED
    BY <2>2, <2>3
<1>9. \A n \in W : Cardinality(Above(n)) < MaxEntries => n \in Shown(T, h)
  <2> SUFFICES ASSUME NEW n \in W, Cardinality(Above(n)) < MaxEntries
               PROVE  n \in Shown(T, h)
    OBVIOUS
  <2>1. CASE n = w.place
    BY <1>1, <1>3, <2>1 DEF Shown
  <2>2. CASE n \in Shown(S, h)
    <3>1. PICK l \in EntriesOf(S, h) : n = l.place /\ Recent(S, l)
      BY <2>2 DEF Shown
    <3>2. l \in EntriesOf(T, h) /\ l \in T
      BY <3>1 DEF EntriesOf
    <3>3. Cardinality(Newer(T, l)) < MaxEntries /\ Cardinality(Newer(T, l)) \in Nat
      BY <1>2, <1>5, <3>1, <3>2
    <3>4. Recent(T, l)
      BY <3>3, MaxEntriesAssumption
    <3> QED
      BY <3>1, <3>2, <3>4 DEF Shown
  <2> QED
    BY <2>1, <2>2
<1>10. Shown(T, h) = {n \in W : Cardinality(Above(n)) < MaxEntries}
  BY <1>8, <1>9
<1> QED
  BY <1>10, SameCardinality DEF History!Newest

\* What a step shows the readers of every host.
LEMMA ShownStep ==
  ASSUME IInv, [Next]_vars
  PROVE  \/ next' = next /\ \A h \in Hosts : Window(h)' = Window(h)
         \/ next' = next + 1 /\ \A h \in Hosts : Window(h)' = Window(h)
         \/ \E g \in Hosts :
              /\ next' = next + 1
              /\ \A h \in Hosts : Window(h)' =
                   IF h = g THEN History!Newest(Window(h) \cup {next})
                   ELSE Window(h)
<1>1. FileTypes /\ IsFiniteSet(file) /\ Undisturbed
  BY TypeOKSplit DEF IInv
<1>2. ASSUME UNCHANGED <<file, torn, next>>
      PROVE  next' = next /\ \A h \in Hosts : Window(h)' = Window(h)
  BY <1>2 DEF Window, Whole, OutOfWindow
<1>3. ASSUME next' = next + 1,
             \A h \in Hosts : EntriesOf(Whole', h) = EntriesOf(Whole, h)
      PROVE  next' = next + 1 /\ \A h \in Hosts : Window(h)' = Window(h)
  <2>1. \A h \in Hosts : Shown(Whole', h) = Shown(Whole, h)
    BY <1>3, ShownOfEntries
  <2>2. \A h \in Hosts : Window(h)' = Shown(Whole', h)
    BY WindowIsShown DEF Window, Shown, OutOfWindow
  <2> QED
    BY <1>3, <2>1, <2>2, WindowIsShown
<1>4. ASSUME NEW p \in Procs, AppendLine(p), torn # 0
      PROVE  next' = next + 1 /\ \A h \in Hosts : Window(h)' = Window(h)
  <2>1. /\ torn' = 0 /\ next' = next + 1
        /\ file' = {l \in file : l.place # torn} \cup Unparsable(file)
    BY <1>1, <1>4 DEF AppendLine, Undisturbed, AfterWrite
  <2>2. \A l \in Unparsable(file) : l.host \notin Hosts /\ l.place # 0
    BY <1>4, UnreadableAssumption DEF Unparsable, Line
  <2>3. \A h \in Hosts : EntriesOf(Whole', h) = EntriesOf(Whole, h)
    BY <1>1, <2>1, <2>2 DEF EntriesOf, Whole, FileTypes, Lines
  <2> QED
    BY <1>3, <2>1, <2>3
<1>5. ASSUME NEW p \in Procs, TornWrite(p)
      PROVE  next' = next + 1 /\ \A h \in Hosts : Window(h)' = Window(h)
  <2>1. next' = next + 1
    BY <1>5 DEF TornWrite
  <2>2. PICK h \in {HostOf[p], Unreadable} : file' = AfterWrite(file, Line(next, h))
    BY <1>5 DEF TornWrite
  <2>3. CASE torn = 0
    <3>1. file' = file \cup {Line(next, h)} /\ torn' = next
      BY <1>5, <2>2, <2>3 DEF TornWrite, AfterWrite
    <3>2. Whole' = Whole
      BY <1>1, <2>3, <3>1 DEF Whole, FileTypes, Lines, Line
    <3> QED
      BY <1>3, <2>1, <3>2
  <2>4. CASE torn # 0
    <3>1. /\ file' = {l \in file : l.place # torn} \cup Unparsable(file)
          /\ torn' = torn
      BY <1>5, <2>2, <2>4 DEF TornWrite, AfterWrite
    <3>2. \A l \in Unparsable(file) : l.place = torn
      BY DEF Unparsable, Line
    <3>3. Whole' = Whole
      BY <3>1, <3>2 DEF Whole
    <3> QED
      BY <1>3, <2>1, <3>3
  <2> QED
    BY <2>3, <2>4
<1>6. ASSUME NEW p \in Procs, AppendLine(p), torn = 0
      PROVE  \E g \in Hosts :
               /\ next' = next + 1
               /\ \A h \in Hosts : Window(h)' =
                    IF h = g THEN History!Newest(Window(h) \cup {next})
                    ELSE Window(h)
  <2> DEFINE g == HostOf[p]
  <2>1. g \in Hosts /\ next \in Nat \ {0}
    BY <1>1, HostOfAssumption DEF FileTypes
  <2>2. PICK w \in Lines : w = Line(next, g)
    BY <2>1 DEF Line, Lines
  <2>3. /\ torn' = 0 /\ next' = next + 1 /\ file' = file \cup {w}
        /\ w.place = next /\ w.host = g
    BY <1>1, <1>6, <2>2 DEF AppendLine, Undisturbed, AfterWrite, Line
  <2>4. Whole = file /\ Whole' = file \cup {w}
    BY <1>1, <1>6, <2>1, <2>3 DEF Whole, FileTypes, Lines
  <2>5. Shown(Whole', g) = History!Newest(Shown(Whole, g) \cup {next})
    BY <1>1, <2>3, <2>4, AppendShows DEF FileTypes
  <2>6. \A h \in Hosts \ {g} : EntriesOf(Whole', h) = EntriesOf(Whole, h)
    BY <2>3, <2>4 DEF EntriesOf
  <2>7. \A h \in Hosts \ {g} : Shown(Whole', h) = Shown(Whole, h)
    BY <2>6, ShownOfEntries
  <2>8. \A h \in Hosts : Window(h)' = Shown(Whole', h)
    BY DEF Window, Shown, OutOfWindow
  <2> QED
    BY <2>1, <2>3, <2>5, <2>7, <2>8, WindowIsShown
<1>7. ASSUME NEW p \in Procs, PruneRenames(p)
      PROVE  next' = next /\ \A h \in Hosts : Window(h)' = Window(h)
  <2>1. /\ torn = 0 /\ torn' = 0 /\ next' = next
        /\ file' = file \ Excess(file, HostOf[p])
    BY <1>1, <1>7 DEF PruneRenames, Undisturbed
  <2>2. Whole = file /\ Whole' = file \ Excess(file, HostOf[p])
    BY <1>1, <2>1 DEF Whole, FileTypes, Lines
  <2>3. \A h \in Hosts : Shown(Whole', h) = Shown(Whole, h)
    BY <1>1, <2>2, PruneShowsTheSame DEF FileTypes
  <2>4. \A h \in Hosts : Window(h)' = Shown(Whole', h)
    BY DEF Window, Shown, OutOfWindow
  <2> QED
    BY <2>1, <2>3, <2>4, WindowIsShown
<1> QED
  BY <1>2, <1>4, <1>5, <1>6, <1>7
     DEF Next, Done, Begin, Lock, OpenStore, AppendFails, PruneReads, Return,
         StepFails, Crash, fileVars, vars

\* To a reader of the last MaxEntries runs of a host, runs are recorded one by
\* one, whatever the writers' interleavings, failures and prunes do to the file.
THEOREM StoreImplementsHistory == Spec => ImplementsHistory
<1>1. Init => History!Init
  <2> SUFFICES ASSUME Init PROVE History!Init
    OBVIOUS
  <2>1. \A h \in Hosts : EntriesOf(Whole, h) = {}
    BY UnreadableAssumption DEF Init, Whole, EntriesOf, Line
  <2>2. \A h \in Hosts : Window(h) = {}
    BY <2>1 DEF Window
  <2>3. next - 1 \in Nat
    BY DEF Init
  <2> QED
    BY <2>2, <2>3 DEF History!Init
<1>2. IInv /\ [Next]_vars => [History!Next]_(History!vars)
  <2> SUFFICES ASSUME IInv, [Next]_vars PROVE [History!Next]_(History!vars)
    OBVIOUS
  <2>1. next \in Nat \ {0}
    BY DEF IInv, TypeOK
  <2>2. CASE next' = next /\ \A h \in Hosts : Window(h)' = Window(h)
    <3>1. [h \in Hosts |-> Window(h)]' = [h \in Hosts |-> Window(h)]
      BY <2>2
    <3> QED
      BY <2>2, <3>1 DEF History!vars
  <2>3. CASE next' = next + 1 /\ \A h \in Hosts : Window(h)' = Window(h)
    <3>1. [h \in Hosts |-> Window(h)]' = [h \in Hosts |-> Window(h)]
      BY <2>3
    <3>2. next' - 1 = (next - 1) + 1
      BY <2>1, <2>3
    <3> QED
      BY <3>1, <3>2 DEF History!Next, History!Miss
  <2>4. ASSUME NEW g \in Hosts, next' = next + 1,
               \A h \in Hosts : Window(h)' =
                 IF h = g THEN History!Newest(Window(h) \cup {next})
                 ELSE Window(h)
        PROVE  History!Record(g)
    <3>1. next' - 1 = (next - 1) + 1 /\ next' - 1 = next
      BY <2>1, <2>4
    <3>2. [h \in Hosts |-> Window(h)]' =
            [[h \in Hosts |-> Window(h)] EXCEPT
               ![g] = History!Newest(@ \cup {next' - 1})]
      BY <2>4, <3>1
    <3> QED
      BY <3>1, <3>2 DEF History!Record
  <2> QED
    BY <2>2, <2>3, <2>4, ShownStep DEF History!Next
<1> QED
  BY <1>1, <1>2, Invariance, PTL DEF Spec, ImplementsHistory, History!Spec
===============================================================================
