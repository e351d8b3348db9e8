-------------------------------- MODULE Ledger --------------------------------
(***************************************************************************)
(* MemoryLedger of crates/executor-catalog: balances and holds in integer  *)
(* micro-USD behind one mutex.  Every operator below is one method, i.e.   *)
(* one critical section.                                                   *)
(***************************************************************************)
EXTENDS Integers, FiniteSets

CONSTANTS
    Subject,      \* ledger subjects
    SignupGrant,  \* SIGNUP_GRANT_MICRO
    MaxI64        \* i64::MAX

ASSUME MoneyAssumption ==
    /\ MaxI64 \in Nat
    /\ SignupGrant \in 0..MaxI64

VARIABLES
    balance,   \* Inner.balance, 0 where there is no entry
    holds,     \* Inner.holds: call id -> [subject, reserved]
    granted,   \* Inner.granted
    \* history, read by properties only
    credited,  \* all that was ever credited to a subject
    held,      \* what the subject's holds add up to
    spent      \* all that settled holds were charged

money == <<balance, holds, granted, credited, held, spent>>

Hold == [subject : Subject, reserved : 1..MaxI64]

LedgerInit ==
    /\ balance = [s \in Subject |-> 0]
    /\ holds = [id \in {} |-> 0]
    /\ granted = {}
    /\ credited = [s \in Subject |-> 0]
    /\ held = [s \in Subject |-> 0]
    /\ spent = [s \in Subject |-> 0]

(* i64 arithmetic: saturating_add, and the plain += of a release build.    *)
Saturated(x) == IF x > MaxI64 THEN MaxI64 ELSE x
Wrapped(x)   == IF x > MaxI64 THEN x - 2 * (MaxI64 + 1) ELSE x

EnsureSignupGrant(s) ==
    /\ IF s \in granted
         THEN UNCHANGED <<granted, balance, credited>>
         ELSE /\ granted' = granted \cup {s}
              /\ balance' = [balance EXCEPT ![s] = Wrapped(@ + SignupGrant)]
              /\ credited' = [credited EXCEPT ![s] = @ + SignupGrant]
    /\ UNCHANGED <<holds, held, spent>>

Grant(s, micro) ==
    /\ balance' = [balance EXCEPT ![s] = Saturated(@ + micro)]
    /\ credited' = [credited EXCEPT ![s] = @ + micro]
    /\ UNCHANGED <<holds, granted, held, spent>>

(* Faulty: the balance is not compared with the price. *)
CanReserveUnpaid(s, id, micro) == id \notin DOMAIN holds

(* reserve fails on a call id that has a hold and on a short balance.      *)
CanReserve(s, id, micro) == id \notin DOMAIN holds /\ balance[s] >= micro

Reserve(s, id, micro) ==
    /\ CanReserve(s, id, micro)
    /\ balance' = [balance EXCEPT ![s] = @ - micro]
    /\ holds' = [i \in DOMAIN holds \cup {id} |->
                   IF i = id THEN [subject |-> s, reserved |-> micro] ELSE holds[i]]
    /\ held' = [held EXCEPT ![s] = @ + micro]
    /\ UNCHANGED <<granted, credited, spent>>

(* settle removes the hold and refunds what was not used of it.  Without a *)
(* hold it does nothing.                                                   *)
Settle(id, actual) ==
    IF id \notin DOMAIN holds
      THEN UNCHANGED money
      ELSE LET s      == holds[id].subject
               amount == holds[id].reserved
               refund == IF actual < amount THEN amount - actual ELSE 0
           IN  /\ holds' = [i \in DOMAIN holds \ {id} |-> holds[i]]
               /\ balance' = IF refund > 0
                               THEN [balance EXCEPT ![s] = Wrapped(@ + refund)]
                               ELSE balance
               /\ held' = [held EXCEPT ![s] = @ - amount]
               /\ spent' = [spent EXCEPT ![s] = @ + (amount - refund)]
               /\ UNCHANGED <<granted, credited>>

Release(id) == Settle(id, 0)

=============================================================================
