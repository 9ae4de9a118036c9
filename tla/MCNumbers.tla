----------------------------- MODULE MCNumbers -----------------------------
(* Numbers for TLC: gcds of arguments around powers of two, with common     *)
(* factors, and whose summaries compare wrongly; primes for every number of *)
(* twos in p - 1 up to eight; text around the integers at which a limb      *)
(* begins, with underscores, signs and wrong characters in every place.     *)
EXTENDS Numbers, Sequences

MCOdds   == {1, 3, 15, 21, 105, 257, 315, 2047, 2049, 2181, 3465, 4087, 4095}
MCOthers == {-2048, -1155, -105, -21, -1} \cup 0..9
              \cup {21, 30, 77, 128, 192, 210, 255, 256} \cup 2045..2051
              \cup {2178, 2180, 2182, 2183, 2185, 3080, 3465, 3466}
              \cup 4089..4095

MCXgcdLefts  == {-2048, -1155, -1, 0, 1, 12, 39, 105, 315, 624, 2047, 2181,
                 2448, 3465, 4095}
MCXgcdRights == {-2047, -96, -77, -1} \cup 0..5 \cup {21, 153, 385}
                  \cup {2047, 2048, 2178, 2182, 2185, 2448, 3003, 3464, 3466}
                  \cup 4092..4095

\* Boxed integers of one or two limbs, and of all sizes against each other.
MCSafeSizes  == {<<N, N>>, <<1, 1>>, <<1, 2>>, <<2, 1>>, <<1, 3>>, <<2, 3>>, <<3, 2>>}
Short(n)     == {v \in {0, 1, 2, 3, 5, 6, 9, 12, 15, 16, 35, 105, 128, 255} : v < W[n]}
MCSafeLefts(n) == IF n < N THEN Short(n) ELSE
                  0..5 \cup {15, 96, 105, 255, 1155, 2048, 2049, 3072, 3465, 4092,
                           4093, 4095}
MCSafeRights(n) == IF n < N THEN Short(n) ELSE
                  {-2048, -2047, -77, -2, -1} \cup 0..5 \cup {77, 91, 100, 128, 192, 1001, 2047, 3003}
                  \cup 4088..4095

MCPrimes == {3, 5, 7, 11, 13, 17, 29, 41, 73, 97, 113, 193, 257, 353, 641, 769,
             4091, 4093}
MCGenerators(q) ==
    LET squares == {(y * y) % q : y \in 1..(q - 1)}
    IN  {4, CHOOSE g \in 2..12 : g % q \notin squares
                                  /\ \A h \in 2..(g - 1) : h % q \in squares}
MCSquares(q) ==
    IF q < 700 THEN 0..(q - 1) ELSE 0..9 \cup {16, 25, 2305 % q} \cup (q - 4)..(q - 1)
MCAssigned(q) == IF q \in {17, 97, 193} THEN {13, 41} ELSE {}

Strings(chars, k) == UNION {[1..j -> chars] : j \in 0..k}
Long(r) == {LET x == W[n] + k
                m == CHOOSE m \in 1..(4 * N + 1) : x < r ^ m /\ r ^ (m - 1) <= x
            IN  Code!Written(x, r, m) : n \in 1..N, k \in -2..1}
Separated(s) == {SubSeq(s, 1, j) \o <<Code!Sep>> \o SubSeq(s, j + 1, Len(s)) : j \in 0..Len(s)}
MCTexts(r) ==
    Strings({0, 1, 2, 9, Code!Other, Code!Sep, Code!Plus}, 3)
      \cup [1..4 -> {0, 1, 2, Code!Sep}]
      \cup Long(r) \cup UNION {Separated(s) : s \in Long(r)}
      \cup {<<Code!Plus, 0, Code!Sep, 0>> \o s : s \in Long(r)}
      \cup {s \o <<Code!Other>> : s \in Long(r)} \cup {<<Code!Other>> \o s : s \in Long(r)}
      \cup {Code!Zeros(13)}
MCEncoded(n) ==
    IF n < 3 THEN 0..(W[n] - 1)
    ELSE {0, 1, 2, 81, 242, 243, W[n - 1] - 1, W[n - 1], 3 * W[n - 1],
          W[n] \div 3, W[n] \div 2, 5 * (W[n] \div 7), W[n] - 2, W[n] - 1}
MCByteStrings == Strings(0..3, 3) \cup [1..4 -> {0, 1, 3}] \cup [1..5 -> {0, 2}]
MCHexStrings  == UNION {[1..j -> {0, 1, 3, 4}] : j \in {1, 2, 4}}
MCHexFirst  == 46..49 \cup 56..59 \cup 63..67 \cup 69..72 \cup 95..99 \cup 101..104
                 \cup {0, 122, 128, 176, 255}
MCHexSecond == {47, 48, 57, 58, 64, 65, 70, 71, 96, 97, 102, 103, 255}

MCModuli == 1..5 \cup {7, 9, 11, 15, 16, 17, 21, 23, 33, 40}

None(n) == {}

\* Two-limb arguments that have a common factor and whose batches compare a
\* summary wrongly in the last place.
BezoutLefts  == 33..64
BezoutRights == 128..160
============================================================================
