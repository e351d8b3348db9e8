----------------------------- MODULE PolicyKeys -----------------------------
(***************************************************************************)
(* The fractional index of a policy rule: executor-core/src/position.rs.   *)
(* A key is the sequence of its bytes, compared byte by byte; NoKey stands *)
(* for a missing neighbour, i.e. for plus or minus infinity.               *)
(***************************************************************************)
EXTENDS Integers, Sequences

Digit0 == 48
UpperZ == 90
LowerA == 97
LowerZ == 122

NoKey == <<>>
FirstKey == <<LowerA, Digit0>>          \* "a0"
FrontKey == <<UpperZ, LowerZ>>          \* "Zz"

(* Byte order of two strings. *)
KeyLess(a, b) ==
    \E i \in 1..Len(b) :
        /\ \A j \in 1..(i - 1) : j <= Len(a) /\ a[j] = b[j]
        /\ \/ i = Len(a) + 1
           \/ i <= Len(a) /\ a[i] < b[i]

LastByte(key) == key[Len(key)]

Increment(key) ==
    IF key # NoKey /\ LastByte(key) < LowerZ
    THEN [key EXCEPT ![Len(key)] = @ + 1]
    ELSE Append(key, Digit0)

Before(next) ==
    IF next = NoKey \/ next = FirstKey THEN FrontKey
    ELSE IF LastByte(next) > Digit0 THEN [next EXCEPT ![Len(next)] = @ - 1]
    ELSE FrontKey \o next

Between(prev, next) ==
    IF ~KeyLess(prev, next) \/ KeyLess(Increment(prev), next)
    THEN Increment(prev)
    ELSE Append(prev, Digit0)

GenerateKeyBetween(prev, next) ==
    IF prev = NoKey /\ next = NoKey THEN FirstKey
    ELSE IF next = NoKey THEN Increment(prev)
    ELSE IF prev = NoKey THEN Before(next)
    ELSE Between(prev, next)

StrictlyBetween(prev, key, next) ==
    /\ prev # NoKey => KeyLess(prev, key)
    /\ next # NoKey => KeyLess(key, next)
=============================================================================
