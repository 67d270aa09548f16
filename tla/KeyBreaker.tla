---------------------------- MODULE KeyBreaker ----------------------------
(***************************************************************************)
(* What the circuit breaker of a credential promises, whatever the number  *)
(* of replicas, requests and operators that write it: a strike is counted  *)
(* and may only lengthen the park, a release clears both at once, and the  *)
(* rest of a park only passes. KeyHealth implements it.                    *)
(***************************************************************************)
EXTENDS Integers

CONSTANTS Keys, LongestPark

VARIABLES
  strikes,   \* consecutive failures counted since the last release
  park       \* what is left of the rest, NoPark when there is none

NoPark == -1

vars == <<strikes, park>>

Init ==
  /\ strikes = [k \in Keys |-> 0]
  /\ park = [k \in Keys |-> NoPark]

\* One failure: exactly one strike, and a park no shorter than the one before.
Strike(k) ==
  /\ strikes' = [strikes EXCEPT ![k] = @ + 1]
  /\ \E rest \in NoPark..LongestPark :
       /\ rest >= park[k]
       /\ park' = [park EXCEPT ![k] = rest]

\* An answer the upstream accepted; or rows that go, several in one transaction.
Release(D) ==
  /\ strikes' = [k \in Keys |-> IF k \in D THEN 0 ELSE strikes[k]]
  /\ park' = [k \in Keys |-> IF k \in D THEN NoPark ELSE park[k]]

Left(rest) == IF rest > 0 THEN rest - 1 ELSE rest

Pass ==
  /\ park' = [k \in Keys |-> Left(park[k])]
  /\ UNCHANGED strikes

Next ==
  \/ \E k \in Keys : Strike(k)
  \/ \E D \in SUBSET Keys : Release(D)
  \/ Pass

Spec == Init /\ [][Next]_vars
===========================================================================
