-------------------------- MODULE CampaignSequence --------------------------
(***************************************************************************)
(* What a campaign promises the people it is sent to, with no              *)
(* transactions, clicks, limit, days or sweep: each goes through its       *)
(* messages one after the other.  The next is for those the one before is  *)
(* recorded to have reached and of whom nothing is recorded yet, what is   *)
(* recorded as sent they got, what is decided stays decided, and a message *)
(* is repeated only after a loss.  Campaigns implements it.                *)
(***************************************************************************)
EXTENDS Integers

CONSTANTS People, MaxSteps

VARIABLES
    row,        \* what is recorded of each person and message
    got,        \* how often each person got each message
    lost        \* records and answers lost so far

sequenceVars == <<row, got, lost>>

Stages == 0 .. MaxSteps         \* 0 is the campaign's own message
Outcomes == {"pending", "failed", "skipped", "sent"}

SequenceInit ==
    /\ row = [c \in People |-> [k \in Stages |-> "none"]]
    /\ got = [c \in People |-> [k \in Stages |-> 0]]
    /\ lost = 0

\* Message k is the next of c.
Due(c, k) ==
    \/ k = 0 /\ row[c][0] # "sent"
    \/ k > 0 /\ row[c][k - 1] = "sent" /\ row[c][k] = "none"

Deliver(c, k) ==
    /\ Due(c, k)
    /\ got[c][k] <= lost
    /\ got' = [got EXCEPT ![c][k] = @ + 1]
    /\ UNCHANGED row

\* A record is lost, or the answer to a message that was taken or not.
Lose ==
    /\ lost' = lost + 1
    /\ UNCHANGED row
    /\ UNCHANGED got \/ \E c \in People, k \in Stages : Deliver(c, k)

Record ==
    /\ row' \in [People -> [Stages -> Outcomes \union {"none"}]]
    /\ \A c \in People, k \in Stages : row'[c][k] # row[c][k] =>
            Due(c, k) /\ row'[c][k] # "none" /\ (row'[c][k] = "sent" => got[c][k] > 0)
    /\ UNCHANGED <<got, lost>>

SequenceNext ==
    \/ \E c \in People, k \in Stages : Deliver(c, k) /\ UNCHANGED lost
    \/ Lose \/ Record

SequenceSpec == SequenceInit /\ [][SequenceNext]_sequenceVars
=============================================================================
