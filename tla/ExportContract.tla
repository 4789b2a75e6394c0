--------------------------- MODULE ExportContract ---------------------------
(***************************************************************************)
(* What vrm_export promises of its output (VrmExport.h, export policy 5.3  *)
(* and 6): each process changes what is seen at its output once or never,  *)
(* to the artifact it was asked for, and its exit code says which.         *)
(***************************************************************************)
EXTENDS Integers

CONSTANT Jobs

VARIABLES orders,     \* orders[p]: what p was asked for
          seen,       \* seen[o]: what a reader sees at output o
          published,  \* the processes that wrote their output
          ended       \* ended[p]: the exit code, or -1

vars == <<orders, seen, published, ended>>

Running(p) == ended[p] = -1

Init ==
    /\ published = {}
    /\ ended = [p \in Jobs |-> -1]

Publish(p) ==
    /\ Running(p) /\ p \notin published
    /\ seen' = [seen EXCEPT ![orders[p].output] = orders[p].artifact]
    /\ published' = published \cup {p}
    /\ UNCHANGED <<orders, ended>>

\* 4 after the output is written is a report that could not be.
Codes(p) ==
    IF p \in published
    THEN {0, 1} \cup {c \in {6} : orders[p].check} \cup {c \in {4} : orders[p].report}
    ELSE {1, 2, 3, 4, 5} \cup {c \in {0} : orders[p].help}

End(p) ==
    /\ Running(p)
    /\ \E code \in Codes(p) : ended' = [ended EXCEPT ![p] = code]
    /\ UNCHANGED <<orders, seen, published>>

Next == \E p \in Jobs : Publish(p) \/ End(p)

Spec == Init /\ [][Next]_vars
=============================================================================
