----------------------------- MODULE RpcSession -----------------------------
(***************************************************************************)
(* What a session with matter-server promises to those who call through    *)
(* it, with no word of channels, ids or pumps: every call is open until it *)
(* is answered or fails, once and for all.  A call that failed may still   *)
(* have been executed, or may be executed later: a caller cannot tell.     *)
(***************************************************************************)
CONSTANT Callers

VARIABLES call,     \* per caller: none, open, answered, failed
          executed, \* the callers whose command matter-server has carried out
          ended     \* the session is over

vars == <<call, executed, ended>>

Init ==
  /\ call = [c \in Callers |-> "none"]
  /\ executed = {}
  /\ ended = FALSE

Turn(c, from, to) == call[c] = from /\ call' = [call EXCEPT ![c] = to]

\* A call may be made of a session that is over: it will fail.
Ask(c) == Turn(c, "none", "open") /\ UNCHANGED <<executed, ended>>

Execute(c) ==
  /\ call[c] # "none"
  /\ executed' = executed \cup {c}
  /\ UNCHANGED <<call, ended>>

Answer(c) ==
  /\ c \in executed
  /\ Turn(c, "open", "answered")
  /\ UNCHANGED <<executed, ended>>

Fail(c) == Turn(c, "open", "failed") /\ UNCHANGED <<executed, ended>>

End == ~ended /\ ended' = TRUE /\ UNCHANGED <<call, executed>>

Next == End \/ \E c \in Callers : Ask(c) \/ Execute(c) \/ Answer(c) \/ Fail(c)

Spec == Init /\ [][Next]_vars
=============================================================================
