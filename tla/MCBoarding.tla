------------------------------ MODULE MCBoarding ------------------------------
(* Small instances of Boarding: one commuter, one owner and a fare of 15,     *)
(* which no balance below 15 covers.                                          *)
EXTENDS Boarding, TLC

CONSTANTS k1, d1, o1, v1, r1

MCOwner == [v \in Vehicles |-> o1]
MCDriver == [v \in Vehicles |-> d1]

MCHolder == [p \in Passes |-> k1]
MCRoute == [p \in Passes |-> r1]
MCFare == [p \in Passes |-> 15]

Broke == [a \in Accounts |-> 0]

(* Scans, passes for the same ride and codes are interchangeable.             *)
Interchangeable == Permutations(Scans) \cup Permutations(Passes) \cup Permutations(Codes)
=============================================================================
