------------------------------ MODULE MCIntake ------------------------------
(* Instances of Intake for TLC. *)
EXTENDS Intake
CONSTANTS d1, d2, a1, a2, b1, a, b, p, q

\* Two deliveries that name two customers in opposite orders, and one that
\* repeats the last message of the other; b1 is in both.
MCBatches == {[d \in {d1, d2} |-> IF d = d1 THEN <<a1, b1>> ELSE second] : second \in {<<b1, a2>>, <<b1>>}}
MCFrom == [m \in {a1, a2, b1} |-> IF m = b1 THEN b ELSE a]
MCRota == <<p, q>>
=============================================================================
