------------------------------- MODULE Prepaid -------------------------------
(***************************************************************************)
(* What the priced catalog promises its users, without holds, retries and  *)
(* interleavings: funds grow by credits, and the only step that takes      *)
(* funds delivers one answer of a priced endpoint for its published price, *)
(* which the subject must be able to pay.                                  *)
(***************************************************************************)
EXTENDS Integers

CONSTANTS Subject, Priced, Price

VARIABLES funds, served

Init ==
    /\ funds = [s \in Subject |-> 0]
    /\ served = [s \in Subject |-> [e \in Priced |-> 0]]

Credit(s) ==
    /\ funds'[s] > funds[s]
    /\ funds' = [funds EXCEPT ![s] = funds'[s]]
    /\ UNCHANGED served

Serve(s, e) ==
    /\ funds[s] >= Price[e]
    /\ funds' = [funds EXCEPT ![s] = @ - Price[e]]
    /\ served' = [served EXCEPT ![s][e] = @ + 1]

Next == \E s \in Subject : Credit(s) \/ \E e \in Priced : Serve(s, e)

Spec == Init /\ [][Next]_<<funds, served>>

=============================================================================
