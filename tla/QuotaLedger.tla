---------------------------- MODULE QuotaLedger ----------------------------
(* What the durable quota rows promise whoever reads them: every row is a  *)
(* total the calls of one window really reached, and while it stays on     *)
(* that window it never falls. Who counts and who copies is not said.      *)
EXTENDS Integers, Sequences

CONSTANTS Meters, Units

VARIABLES
  billed,  \* per meter, the units each of its windows has been billed, in order
  row      \* per meter, the durable row: which window, how many units

Row == [win : Nat, used : Nat]
NoRow == [win |-> 0, used |-> 0]

Init ==
  /\ billed = [m \in Meters |-> <<>>]
  /\ row = [m \in Meters |-> NoRow]

Bill(m, u) ==
  /\ \/ billed' = [billed EXCEPT ![m] = Append(@, u)]
     \/ /\ billed[m] # <<>>
        /\ billed' = [billed EXCEPT ![m][Len(billed[m])] = @ + u]
  /\ UNCHANGED row

Truthful(m, old, new) ==
  /\ new.win \in 1..Len(billed[m])
  /\ new.used \in 1..billed[m][new.win]
  /\ new.win = old.win => new.used >= old.used

Mirror ==
  /\ row' \in [Meters -> Row]
  /\ \A m \in Meters : row'[m] # row[m] => Truthful(m, row[m], row'[m])
  /\ UNCHANGED billed

Next == (\E m \in Meters, u \in Units : Bill(m, u)) \/ Mirror

Spec == Init /\ [][Next]_<<billed, row>>
============================================================================
