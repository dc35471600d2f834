--------------------------- MODULE MCPaymentLinks ---------------------------
(* Instances of PaymentLinks: links of two businesses that share the        *)
(* sweep's batch, and two advance links for one due.                        *)
EXTENDS PaymentLinks

CONSTANTS l1, l2, d1, d2

OneEach == [l \in Links |-> IF l = l1 THEN d1 ELSE d2]
OweOneAndTwo == [d \in {d1, d2} |-> IF d = d1 THEN 1 ELSE 2]
BothForOne == [l \in Links |-> d1]
OweTwo == [d \in {d1} |-> 2]
=============================================================================
