--------------------------- MODULE MCPodController ---------------------------
(* PodController for TLC: two attempts, so that a failed attempt can leave *)
(* something behind for the next one.                                      *)
EXTENDS PodController

(* Bound: writers that fail in the last attempt fail alike.                *)
FailAlike ==
    attempt = MaxAttempts =>
        Cardinality({writer[s] : s \in WriterSlots} \cap Failures) <= 1
=============================================================================
