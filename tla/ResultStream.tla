----------------------------- MODULE ResultStream -----------------------------
(***************************************************************************)
(* What runner.RunAll promises its caller (internal/runner/runner.go): one *)
(* Result for every collector, in some order, and then a closed channel.   *)
(* Runner implements this specification.                                   *)
(***************************************************************************)
EXTENDS Sequences

CONSTANTS
  Collectors,   \* the collectors handed to RunAll
  Results       \* the Results a collector may end with

VARIABLES
  owing,        \* collectors whose Result has not been delivered yet
  stream,       \* everything delivered so far, oldest first
  closed        \* the channel has been closed

vars == <<owing, stream, closed>>

Init ==
  /\ owing = Collectors
  /\ stream = <<>>
  /\ closed = FALSE

Deliver(c) ==
  /\ c \in owing
  /\ ~closed
  /\ \E r \in Results : /\ r.col = c
                        /\ stream' = Append(stream, r)
  /\ owing' = owing \ {c}
  /\ UNCHANGED closed

Close ==
  /\ owing = {}
  /\ ~closed
  /\ closed' = TRUE
  /\ UNCHANGED <<owing, stream>>

Next == Close \/ \E c \in Collectors : Deliver(c)

SafeSpec == Init /\ [][Next]_vars

Spec ==
  /\ SafeSpec
  /\ WF_vars(Close)
  /\ \A c \in Collectors : WF_vars(Deliver(c))

===============================================================================
