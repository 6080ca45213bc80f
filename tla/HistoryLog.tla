------------------------------ MODULE HistoryLog ------------------------------
(***************************************************************************)
(* What the local history promises a reader who asks for the last          *)
(* MaxEntries runs of a host (dsd history, dsd diff): the runs recorded    *)
(* last, oldest first, and nothing a run of another host can disturb.      *)
(* Store implements this specification.                                    *)
(***************************************************************************)
EXTENDS Naturals, FiniteSets

CONSTANTS Hosts, MaxEntries

VARIABLES
  recorded,   \* number of runs recorded so far; a run is known by its number
  window      \* for every host, the runs a reader is shown

vars == <<recorded, window>>

Init ==
  /\ recorded \in Nat
  /\ window = [h \in Hosts |-> {}]

\* The MaxEntries largest numbers of S.
Newest(S) == {n \in S : Cardinality({m \in S : m > n}) < MaxEntries}

Record(h) ==
  /\ recorded' = recorded + 1
  /\ window' = [window EXCEPT ![h] = Newest(@ \cup {recorded'})]

\* A run that could not be recorded uses up its number.
Miss ==
  /\ recorded' = recorded + 1
  /\ UNCHANGED window

Next == Miss \/ \E h \in Hosts : Record(h)

Spec == Init /\ [][Next]_vars

===============================================================================
