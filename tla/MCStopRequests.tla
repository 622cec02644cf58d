---------------------------- MODULE MCStopRequests ----------------------------
(* Small instances of StopRequests: a circular route of three stops, four     *)
(* apart, one of the catalogue and one with a stop of unknown position.       *)
EXTENDS StopRequests

CONSTANTS d1, d2, s1, q1, q3, A, B, C, U, r1, r2

MCLegs == [r \in Routes |-> IF r = r2 THEN <<<<A, U>>>> ELSE <<<<A, B>>, <<B, C>>, <<C, A>>>>]
MCAt == [x \in Stops |-> IF x = A THEN 0 ELSE IF x = B THEN 4 ELSE IF x = C THEN 8 ELSE NULL]
MCZero == -20

(* A driver for each connection, or one driver.                               *)
TwoDrivers == [s \in Sessions |-> IF s = s1 THEN d1 ELSE d2]
OneDriver == [s \in Sessions |-> d1]

MCRouteOf == [q \in Requests |-> IF q = q3 THEN r2 ELSE r1]
MCStopOf == [q \in Requests |-> IF q = q1 THEN B ELSE A]
=============================================================================
