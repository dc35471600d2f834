--------------------------- MODULE MCAutomations ---------------------------
(* Instances of Automations for TLC. *)
EXTENDS Automations, TLC
CONSTANTS e1, e2, r1, r2

Do(nudge, wait, stop, cond) == [nudge |-> nudge, wait |-> wait, stop |-> stop, cond |-> cond]

\* A nudge after a wait, and one to stop at after another.
Nurture == <<Do(TRUE, 1, FALSE, FALSE), Do(TRUE, 1, TRUE, FALSE)>>
\* A nudge at once, and another unless the customer has answered a held one.
AtOnce == <<Do(TRUE, 0, FALSE, TRUE), Do(TRUE, 0, TRUE, FALSE)>>

\* One rule started by both events, at most every two ticks or once for
\* ever; and two rules that share the customer and the sweep.
MCSetups ==
  {[rule |-> [e \in Events |-> r1], chain |-> [r \in Rules |-> c[1]], reentry |-> [r \in Rules |-> c[2]]] :
     c \in {<<Nurture, 2>>, <<AtOnce, 0>>}}
  \cup {[rule |-> (e1 :> r1 @@ e2 :> r2), chain |-> (r1 :> Nurture @@ r2 :> AtOnce),
         reentry |-> [r \in Rules |-> Always]]}
=============================================================================
