------------------------- MODULE SpringSolverContract -------------------------
(***************************************************************************)
(* What SpringBoneSolver.h promises a caller, with the solve left open: a  *)
(* set of independent values, each moving through a three-phase protocol,  *)
(* on which a call either succeeds or is not seen at all.                  *)
(***************************************************************************)
CONSTANT Solvers

VARIABLES phase,    \* phase[c]: "raw", "configured" or "ready"
          memory,   \* memory[c]: everything a later call can depend on
          answer,   \* answer[c]: the caller's result object
          ok        \* whether the last call returned true

Only(f, c) == \A d \in Solvers \ {c} : f'[d] = f[d]

Init == phase = [c \in Solvers |-> "raw"]

Configure(c) ==
    /\ phase' = [phase EXCEPT ![c] = "configured"]
    /\ Only(memory, c)
    /\ UNCHANGED answer
    /\ ok'

Reset(c) ==
    /\ phase[c] # "raw"
    /\ phase' = [phase EXCEPT ![c] = "ready"]
    /\ Only(memory, c) /\ Only(answer, c)
    /\ ok'

Step(c) ==
    /\ phase[c] = "ready"
    /\ Only(memory, c) /\ Only(answer, c)
    /\ UNCHANGED phase
    /\ ok'

\* Adopting a trial: the copy behaves from now on exactly as the original would.
Copy(from, to) ==
    /\ phase' = [phase EXCEPT ![to] = phase[from]]
    /\ memory' = [memory EXCEPT ![to] = memory[from]]
    /\ UNCHANGED answer
    /\ ok'

Fail == ~ok' /\ UNCHANGED <<phase, memory, answer>>

Next ==
    \/ \E c \in Solvers : Configure(c) \/ Reset(c) \/ Step(c)
    \/ \E from, to \in Solvers : Copy(from, to)
    \/ Fail

Spec == Init /\ [][Next]_<<phase, memory, answer, ok>>

=============================================================================
