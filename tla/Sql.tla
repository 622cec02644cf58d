--------------------------------- MODULE Sql ---------------------------------
(* SUM() and ORDER BY of SQL.                                                 *)
EXTENDS Integers, FiniteSets

(* The sum of f over a finite set of rows.                                    *)
SumOver(S, f) ==
    LET sum[T \in SUBSET S] ==
            IF T = {} THEN 0
            ELSE LET x == CHOOSE x \in T : TRUE IN f[x] + sum[T \ {x}]
    IN  sum[S]

(* The rows of a finite set as a sequence, by a key that no two rows share:   *)
(* the i-th row is the one that i - 1 rows come before.                       *)
OrderBy(S, key) ==
    [i \in 1 .. Cardinality(S) |->
        CHOOSE x \in S : Cardinality({y \in S : key[y] < key[x]}) = i - 1]
=============================================================================
