---------------------------- MODULE MCMontyLimbs ----------------------------
(* MontyLimbs for TLC: a linear combination has up to one pair more than a   *)
(* window holds.                                                             *)
EXTENDS MontyLimbs

\* Pairs of small and large forms.
MCPairs(n) == {<<0, n - 1>>, <<n - 1, n - 1>>, <<1 % n, n \div 2>>,
               <<n \div 2, n - 1>>, <<(3 * n) \div 4, n \div 3>>}

\* Moduli have at most one leading zero, or more than the limit of a two-bit
\* word: windows of one or two pairs.
MCProducts(n) ==
    UNION {[1..len -> MCPairs(n)] :
               len \in 1..(IF 2 * n > R THEN 2 ELSE 3)}
=============================================================================
