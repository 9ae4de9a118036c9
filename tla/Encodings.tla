------------------------------ MODULE Encodings ------------------------------
(***************************************************************************)
(* Integers read from and written to text and bytes                        *)
(* (src/src/uint/encoding.rs, src/src/uint/boxed/encoding.rs,              *)
(* src/src/limb/encoding.rs and src/src/encoding.rs), DER and RLP          *)
(* (src/src/uint/encoding/).                                               *)
(*                                                                         *)
(* Text is a sequence of characters, a digit (0 to 35) being its value.    *)
(* It is decoded one limb's worth of digits per step, and encoded by       *)
(* shifting (a limb per step) or by division, from a large divisor down to *)
(* a divisor of one limb per step.  Bytes have ByteBits bits; what is done *)
(* with them is one step per call.                                         *)
(***************************************************************************)
EXTENDS Bits, Sequences, Bitwise

CONSTANTS
    ByteBits,          \* u8::BITS, half of WordBits in the instances
    RADIX_ENCODING_LIMBS_LARGE, RADIX_ENCODING_THRESHOLD_LARGE,
    Radices,           \* bases
    Texts(_),          \* the strings to be decoded in each
    TextLimbs,         \* to integers of so many limbs
    Encoded(_),        \* integers of n limbs that are encoded
    EncodedLimbs,      \* for these n
    ByteStrings, ByteLimbs,   \* bytes to be decoded, to so many limbs
    Precisions,        \* and to so many bits
    HexStrings,        \* pairs of hexadecimal characters: their byte, or more if wrong
    HexFirst, HexSecond   \* characters of such a pair

VARIABLES
    routine,           \* what is called
    lhs, rhs,          \* its argument, and [radix, n, p, order]: base, limbs,
                       \* precision and the order of the bytes
    limbs, len,        \* the integer worked on and the number of its limbs
    text,              \* the characters left to decode, or those written
    high, high_len,    \* what lies above limbs: an integer and its limbs, or
                       \* the digits word of the shifting encoder and its bits
    bits_acc,          \* the bits divided out of limbs since it lost a limb
    start,             \* where in the output the current batch begins
    pc,                \* "enter", "decode", "shift", "batch", "small", "strip", "done"
    res                \* <<"ok", result>>, <<"error", kind>> or <<"panic">>

working == <<limbs, len, text, high, high_len, bits_acc, start>>
vars == <<routine, lhs, rhs, working, pc, res>>
args == <<routine, lhs, rhs>>

Sep  == -1   \* "_"
Plus == -2   \* "+"
Other == 99  \* a character that is no digit

Decoders == {"from_str", "from_str_boxed", "from_str_precision"}

No  == <<"none">>
Ok(r)  == <<"ok", r>>
Err(k) == <<"error", k>>
Panic  == <<"panic">>
Max2(x, y) == IF x >= y THEN x ELSE y
ceil(x, y) == (x + y - 1) \div y

\* The number that a sequence of digits writes, the first the highest.
Number(digits, base) ==
    LET n[k \in 0..Len(digits)] == IF k = 0 THEN 0 ELSE n[k - 1] * base + digits[k]
    IN  n[Len(digits)]

\* The k lowest digits of x, the first the highest.
Written(x, base, k) == [j \in 1..k |-> (x \div base ^ (k - j)) % base]

IsChar(c)  == c # Sep
Digits(s)  == SelectSeq(s, IsChar)
Zeros(k)   == [j \in 1..k |-> 0]
Flip(s)    == [j \in 1..Len(s) |-> s[Len(s) + 1 - j]]

\* Word::MAX.ilog(radix)
ilog(radix) == CHOOSE k \in 0..WordBits : radix ^ k <= WordMAX /\ WordMAX < radix ^ (k + 1)
----------------------------------------------------------------------------
(* Decoding text                                                           *)

\* A vector takes any number of limbs, a slice those it was made with; a boxed
\* integer made for a precision has at least one.
capacity ==
    CASE routine = "from_str"           -> rhs.n
      [] routine = "from_str_boxed"     -> 2 * N
      [] routine = "from_str_precision" -> Max2(1, to_limbs(rhs.p))

\* Slip: an underscore at the end is let through.
preprocess_any_end(src) ==
    LET digits == IF src # <<>> /\ Head(src) = Plus THEN Tail(src) ELSE src
    IN  IF digits = <<>> THEN Err("Empty")
        ELSE IF digits[1] = Sep THEN Err("InvalidDigit")
        ELSE LET zeros == CHOOSE k \in 0..Len(digits) :
                              /\ \A j \in 1..k : digits[j] \in {0, Sep}
                              /\ k < Len(digits) => digits[k + 1] \notin {0, Sep}
             IN  Ok(SubSeq(digits, zeros + 1, Len(digits)))

radix_preprocess_str(src) ==
    LET digits == IF src # <<>> /\ Head(src) = Plus THEN Tail(src) ELSE src
    IN  IF digits # <<>> /\ digits[Len(digits)] = Sep
        THEN Err("InvalidDigit")
        ELSE preprocess_any_end(src)

aligned == rhs.radix \in {2, 4, 16}

EnterDecode ==
    /\ pc = "enter" /\ routine \in Decoders
    /\ LET s == radix_preprocess_str(lhs)
       IN  IF s[1] = "ok" THEN text' = s[2] /\ pc' = "decode" /\ UNCHANGED res
                          ELSE res' = s /\ pc' = "done" /\ UNCHANGED text
    /\ UNCHANGED <<args, limbs, len, high, high_len, bits_acc, start>>

Fail(e) == res' = e /\ pc' = "done" /\ UNCHANGED working

\* The characters that fill one limb of k digits, from the front or from the
\* back of the text: underscores are stepped over until k digits are read.
chunk_from_front(k) ==
    CHOOSE j \in 1..Len(text) :
        /\ text[j] # Sep \/ j = Len(text)
        /\ \/ Len(Digits(SubSeq(text, 1, j))) = k
           \/ j = Len(text) /\ Len(Digits(text)) < k
chunk_from_back(k) ==
    CHOOSE j \in 1..Len(text) :
        /\ text[j] # Sep \/ j = 1
        /\ \/ Len(Digits(SubSeq(text, j, Len(text)))) = k
           \/ j = 1 /\ Len(Digits(text)) < k

IsDigit(c) == c \in 0..(rhs.radix - 1)

\* Slip: the last chunk is taken to be as long as the others.
limb_max_full(chunk) == (rhs.radix ^ ilog(rhs.radix)) % B

limb_max(chunk) == (rhs.radix ^ Len(chunk)) % B

\* The digits of the chunk become a limb; the limbs so far are multiplied by
\* the power of the radix for that many digits and the carry, if any, is pushed.
radix_decode_str_digits ==
    LET cut   == chunk_from_front(ilog(rhs.radix))
        chunk == Digits(SubSeq(text, 1, cut))
        sum   == limbs * limb_max(chunk) + (Number(chunk, rhs.radix) % B)
        carry == sum \div W[len]
    IN  IF text[cut] = Sep /\ Len(chunk) < ilog(rhs.radix) THEN Fail(Panic)
        ELSE IF \E j \in 1..Len(chunk) : ~IsDigit(chunk[j]) THEN Fail(Err("InvalidDigit"))
        ELSE IF carry # 0 /\ len = capacity THEN Fail(Err("InputSize"))
        ELSE /\ limbs' = sum
             /\ len' = IF carry # 0 THEN len + 1 ELSE len
             /\ text' = SubSeq(text, cut + 1, Len(text))
             /\ UNCHANGED <<high, high_len, bits_acc, start, pc, res>>

\* Where digits fill a limb exactly, from the lowest up; each limb is pushed.
radix_decode_str_aligned_digits ==
    LET digits == WordBits \div (bits(rhs.radix) - 1)
        cut    == chunk_from_back(digits)
        chunk  == Digits(SubSeq(text, cut, Len(text)))
    IN  IF text[cut] = Sep /\ Len(chunk) < digits THEN Fail(Panic)
        ELSE IF \E j \in 1..Len(chunk) : ~IsDigit(chunk[j]) THEN Fail(Err("InvalidDigit"))
        ELSE IF len = capacity THEN Fail(Err("InputSize"))
        ELSE /\ limbs' = limbs + Number(chunk, rhs.radix) * W[len]
             /\ len' = len + 1
             /\ text' = SubSeq(text, 1, cut - 1)
             /\ UNCHANGED <<high, high_len, bits_acc, start, pc, res>>

DecodeLimb ==
    /\ pc = "decode" /\ text # <<>>
    /\ IF aligned THEN radix_decode_str_aligned_digits ELSE radix_decode_str_digits
    /\ UNCHANGED args

ReturnDecoded ==
    /\ pc = "decode" /\ text = <<>>
    /\ LET n == IF routine = "from_str_boxed" THEN len ELSE capacity
       IN  res' = IF routine = "from_str_precision" /\ rhs.p < bits(limbs)
                  THEN Err("Precision") ELSE Ok([v |-> limbs, n |-> n])
    /\ pc' = "done" /\ UNCHANGED <<args, working>>
----------------------------------------------------------------------------
(* Encoding text; out_idx is where in the output the digits written start  *)

radix_bits == bits(rhs.radix) - 1
is_power_of_two == rhs.radix = 2 ^ radix_bits

\* The parameters are looked up in a table of the radices that are no powers
\* of two, in order, by radix + radix.leading_zeros() - 33.
table == [i \in 0..29 |->
             CHOOSE r \in 3..36 : /\ r # 2 ^ (bits(r) - 1)
                                  /\ i = r - 3 - (bits(r) - 2)]
for_radix(radix) == table[radix + (32 - bits(radix)) - 33]

digits_per_limb == ilog(rhs.radix)
div_limb        == rhs.radix ^ digits_per_limb
bits_per_limb   == WordBits - (WordBits - bits(div_limb)) - 1

\* The first power of div_limb that fills all limbs of the large divisor, then
\* as many more factors of radix as fit.
radix_large_divisor ==
    LET large == RADIX_ENCODING_LIMBS_LARGE
        m == CHOOSE m \in 1..(large * WordBits) :
                 div_limb ^ m >= W[large - 1] /\ div_limb ^ (m - 1) < W[large - 1]
        k == CHOOSE k \in 0..WordBits :
                 LET d == div_limb ^ m * rhs.radix ^ k
                 IN  d < W[large] /\ W[large] <= d * rhs.radix
    IN  [div |-> div_limb ^ m * rhs.radix ^ k, digits |-> m * digits_per_limb + k]

size == IF is_power_of_two THEN ceil(bits_precision(rhs.n), radix_bits)
                           ELSE rhs.n * (digits_per_limb + 1)
out_idx == size - Len(text)

EnterEncode ==
    /\ pc = "enter" /\ routine = "to_string"
    /\ \/ /\ is_power_of_two
          /\ pc' = "shift" /\ limbs' = lhs /\ len' = rhs.n
          /\ UNCHANGED <<high, high_len, start>>
       \/ /\ ~is_power_of_two
          /\ pc' = "batch" /\ high' = lhs /\ high_len' = rhs.n /\ start' = size
          /\ UNCHANGED <<limbs, len>>
    /\ UNCHANGED <<args, text, bits_acc, res>>

\* Slip: the digits that a limb leaves incomplete are placed a bit too high.
emitted_misplaced(limb) ==
    LET ready  == high_len + WordBits
        digits == (high + limb * 2 ^ ((ready + 1) % WordBits)) % (B * B)
        k      == Min2(ready \div radix_bits, out_idx)
    IN  [digits |-> digits, k |-> k, ready |-> ready]

\* A limb is put above the bits that the one before left over.
emitted(limb) ==
    LET ready  == high_len + WordBits
        digits == (high + limb * 2 ^ (ready % WordBits)) % (B * B)
        k      == Min2(ready \div radix_bits, out_idx)
    IN  [digits |-> digits, k |-> k, ready |-> ready]

\* One limb of the shifting encoder, and after the last one a limb of zero;
\* start counts them.
ShiftLimb ==
    /\ pc = "shift" /\ start <= rhs.n
    /\ LET e == emitted(IF start < len THEN Limb(limbs, start) ELSE 0)
       IN  /\ text' = Written(e.digits, rhs.radix, e.k) \o text
           /\ high' = e.digits \div rhs.radix ^ e.k
           /\ high_len' = e.ready - e.k * radix_bits
    /\ start' = start + 1
    /\ UNCHANGED <<args, limbs, len, bits_acc, pc, res>>

\* What is left of the output is filled with zeros.
FillShifted ==
    /\ pc = "shift" /\ start > rhs.n
    /\ text' = Zeros(out_idx) \o text /\ pc' = "strip"
    /\ UNCHANGED <<args, limbs, len, high, high_len, bits_acc, start, res>>

\* Long integers are divided by the large divisor, which leaves the quotient in
\* the limbs from RADIX_ENCODING_LIMBS_LARGE - 1 up; the remainder is the batch.
TakeLarge ==
    /\ pc = "batch" /\ out_idx > 0 /\ high_len >= RADIX_ENCODING_THRESHOLD_LARGE
    /\ LET large == radix_large_divisor
           left  == high_len - (RADIX_ENCODING_LIMBS_LARGE - 1)
       IN  /\ limbs' = high % large.div /\ len' = RADIX_ENCODING_LIMBS_LARGE
           /\ high' = (high \div large.div) % W[left] /\ high_len' = left
           /\ start' = Max2(0, out_idx - large.digits)
    /\ bits_acc' = 0 /\ pc' = "small" /\ UNCHANGED <<args, text, res>>

\* The rest is one batch.
TakeRest ==
    /\ pc = "batch" /\ out_idx > 0 /\ high_len < RADIX_ENCODING_THRESHOLD_LARGE
    /\ limbs' = high /\ len' = high_len /\ high' = 0 /\ high_len' = 0 /\ start' = 0
    /\ bits_acc' = 0 /\ pc' = "small" /\ UNCHANGED <<args, text, res>>

\* The digits of a limb are divided out.  By the bits that are gone for certain
\* the integer is shortened; once it has no limbs the batch is filled with zeros.
EmitLimb ==
    /\ pc = "small" /\ out_idx > start
    /\ IF len = 0
       THEN text' = Zeros(out_idx - start) \o text /\ UNCHANGED <<limbs, len, bits_acc>>
       ELSE LET bits_out == bits_acc + bits_per_limb
                shorter  == bits_out >= WordBits
            IN  /\ text' = Written(limbs % div_limb, rhs.radix,
                                   Min2(digits_per_limb, out_idx - start)) \o text
                /\ bits_acc' = IF shorter THEN bits_out - WordBits ELSE bits_out
                /\ len' = IF shorter THEN len - 1 ELSE len
                /\ limbs' = (limbs \div div_limb) % W[len']
    /\ UNCHANGED <<args, high, high_len, start, pc, res>>

EndBatch ==
    /\ pc = "small" /\ out_idx = start
    /\ pc' = "batch" /\ limbs' = 0 /\ UNCHANGED <<args, len, text, high, high_len, bits_acc, start, res>>

EndEncode ==
    /\ pc = "batch" /\ out_idx = 0
    /\ pc' = "strip" /\ UNCHANGED <<args, working, res>>

\* Leading zeros are dropped, but for the last digit.
Strip ==
    /\ pc = "strip"
    /\ LET skip == CHOOSE k \in 0..Len(text) :
                       /\ \A j \in 1..k : text[j] = 0 /\ j < Len(text)
                       /\ k + 1 < Len(text) => text[k + 1] # 0
       IN  res' = Ok(SubSeq(text, skip + 1, Len(text)))
    /\ pc' = "done" /\ UNCHANGED <<args, working>>
----------------------------------------------------------------------------
(* Bytes; one call is one step                                             *)

BYTES        == WordBits \div ByteBits
from_bytes(k) == k * ByteBits
to_bytes(p)  == ceil(p, ByteBits)

le(bytes) == Number(Flip(bytes), 2 ^ ByteBits)
be(bytes) == Number(bytes, 2 ^ ByteBits)
Word_(order, bytes) == IF order = "be" THEN be(bytes) ELSE le(bytes)

\* Limb i of n, in either order, of bytes that are exactly n limbs.
chunk_of(order, bytes, i, n) ==
    LET from == IF order = "be" THEN (n - 1 - i) * BYTES ELSE i * BYTES
    IN  SubSeq(bytes, from + 1, from + BYTES)

from_slice(order, bytes, n) ==
    IF Len(bytes) # n * BYTES THEN Panic
    ELSE Ok([v |-> FromLimbs([i \in 0..(n - 1) |-> Word_(order, chunk_of(order, bytes, i, n))], n),
             n |-> n])

to_le_bytes(x, n) == [j \in 1..(n * BYTES) |->
    (Limb(x, (j - 1) \div BYTES) \div 2 ^ (ByteBits * ((j - 1) % BYTES))) % 2 ^ ByteBits]
to_be_bytes(x, n) == Flip(to_le_bytes(x, n))
to_slice(order, x, n) == IF order = "be" THEN to_be_bytes(x, n) ELSE to_le_bytes(x, n)

\* The least significant bytes that hold p bits.
truncate(order, bytes, p) ==
    LET k == Len(bytes) - to_bytes(p)
    IN  IF k <= 0 THEN bytes
        ELSE IF order = "be" THEN SubSeq(bytes, k + 1, Len(bytes))
        ELSE SubSeq(bytes, 1, to_bytes(p))

\* Limb i of a slice of any length (chunks or rchunks): zero past its end.
partial(order, bytes, i) ==
    LET n    == Len(bytes)
        from == Min2(i * BYTES, n)
        to   == Min2((i + 1) * BYTES, n)
    IN  IF order = "be" THEN be(SubSeq(bytes, n - to + 1, n - from))
                        ELSE le(SubSeq(bytes, from + 1, to))

\* Slip: the highest limb keeps the bits above the precision.
mask_high_limb_not(x, p) == x

\* Within the highest limb the bits from the precision up are cleared.
mask_high_limb(x, p) ==
    LET top == to_limbs(p) - 1
    IN  IF p % WordBits = 0 THEN x
        ELSE SetLimb(x, top, Limb(x, top) % 2 ^ (p % WordBits))

fill_limbs_truncated(order, bytes, n, p) ==
    IF bits_precision(n) < p THEN Err("Precision")
    ELSE LET taken == truncate(order, bytes, p)
         IN  Ok([v |-> mask_high_limb(
                          FromLimbs([i \in 0..(n - 1) |-> partial(order, taken, i)], n), p),
                 n |-> n])

from_slice_truncated(order, bytes, n, p) ==
    LET r == fill_limbs_truncated(order, bytes, n, p) IN IF r[1] = "ok" THEN r ELSE Panic

boxed_truncated(order, bytes, p) == fill_limbs_truncated(order, bytes, Max2(1, to_limbs(p)), p)

boxed_from_slice(order, bytes, p) ==
    IF Len(bytes) > to_bytes(p) THEN Err("InputSize") ELSE boxed_truncated(order, bytes, p)

from_slice_vartime(order, bytes) == boxed_truncated(order, bytes, from_bytes(Len(bytes)))

\* Without the bytes that are zero at the significant end.
trimmed(order, x, n) ==
    LET zeroes == leading_zeros(x, n) \div ByteBits
        bytes  == to_slice(order, x, n)
    IN  IF order = "be" THEN SubSeq(bytes, zeroes + 1, Len(bytes))
                        ELSE SubSeq(bytes, 1, Len(bytes) - zeroes)

\* Slip: the top bit is that of the highest byte, not of the first nonzero one.
first_byte_highest(x, n, zeros) == Limb(x, n - 1) \div 2 ^ (WordBits - ByteBits)

first_nonzero_byte(x, n, zeros) ==
    LET i == Max2(0, n - 1 - zeros \div BYTES)
    IN  to_be_bytes(Limb(x, i), 1)[(zeros % BYTES) + 1]

\* The number of bytes of the integer in DER, which is written by the der crate.
count_der_be_bytes(x, n) ==
    LET zeros == leading_zeros(x, n) \div ByteBits
        sign  == IF first_nonzero_byte(x, n, zeros) >= 2 ^ (ByteBits - 1) THEN 1 ELSE 0
    IN  IF zeros = n * BYTES THEN 1 ELSE n * BYTES - zeros + sign

\* Asn1UintRef: leading zeros are stripped, and one is put before a set top bit.
Stripped(bytes) ==
    LET k == CHOOSE k \in 0..Len(bytes) : /\ \A j \in 1..k : bytes[j] = 0
                                         /\ k < Len(bytes) => bytes[k + 1] # 0
    IN  SubSeq(bytes, k + 1, Len(bytes))
TopBit(bytes) == bytes # <<>> /\ bytes[1] >= 2 ^ (ByteBits - 1)
asn1_written(bytes) ==
    LET s == Stripped(bytes)
    IN  IF s = <<>> THEN <<0>> ELSE IF TopBit(s) THEN <<0>> \o s ELSE s
asn1_read(bytes) ==
    IF \/ bytes = <<>> \/ TopBit(bytes)
       \/ Len(bytes) > 1 /\ bytes[1] = 0 /\ ~TopBit(Tail(bytes))
    THEN Err("der") ELSE Ok(IF Len(bytes) > 1 /\ bytes[1] = 0 THEN Tail(bytes) ELSE bytes)

\* A value is copied to the end of an array of zeros, if it is not too long.
padded(bytes, n) ==
    IF Len(bytes) > n * BYTES THEN Err("length")
    ELSE from_slice("be", Zeros(n * BYTES - Len(bytes)) \o bytes, n)

der_decode(bytes, n) ==
    LET r == asn1_read(bytes) IN IF r[1] = "ok" THEN padded(r[2], n) ELSE r
der_decode_boxed(bytes) ==
    LET r == asn1_read(bytes)
    IN  IF r[1] = "ok" THEN boxed_from_slice("be", r[2], from_bytes(Len(r[2]))) ELSE r

\* RLP has no leading zeros, and nothing at all for zero.
rlp_append(x, n) == Stripped(to_be_bytes(x, n))
rlp_decode(bytes, n) ==
    IF bytes # <<>> /\ bytes[1] = 0 THEN Err("leading zero") ELSE padded(bytes, n)

\* A hexadecimal digit, without branches, in 16 bits.
i16(x) == x % 65536
sar8(x) == IF x >= 32768 THEN x \div 256 + 65280 ELSE x \div 256
between(byte, below, above, base) ==
    sar8(i16(below - byte) & i16(byte - above)) & i16(byte - base)
decode_nibble(byte) ==
    i16(-1 + between(byte, 47, 58, 47) + between(byte, 64, 71, 54) + between(byte, 96, 103, 86))
decode_hex_byte(c) ==
    LET byte == i16(decode_nibble(c[1]) * 16) | decode_nibble(c[2])
    IN  <<byte % 256, byte \div 256>>

\* Wrong characters are looked for after all of the string is read.
from_hex(order, pairs, n, wrong) ==
    IF Len(pairs) # n * BYTES THEN Panic
    ELSE IF \E j \in 1..Len(pairs) : pairs[j] >= 2 ^ ByteBits THEN wrong
    ELSE from_slice(order, pairs, n)

ByteCall ==
    LET o == rhs.order  n == rhs.n  p == rhs.p
    IN  CASE routine = "from_slice"           -> from_slice(o, lhs, n)
          [] routine = "from_slice_truncated" -> from_slice_truncated(o, lhs, n, p)
          [] routine = "boxed_from_slice"     -> boxed_from_slice(o, lhs, p)
          [] routine = "boxed_truncated"      -> boxed_truncated(o, lhs, p)
          [] routine = "from_slice_vartime"   -> from_slice_vartime(o, lhs)
          [] routine = "der_decode"           -> der_decode(lhs, n)
          [] routine = "der_decode_boxed"     -> der_decode_boxed(lhs)
          [] routine = "rlp_decode"           -> rlp_decode(lhs, n)
          [] routine = "from_hex"             -> from_hex(o, lhs, n, Panic)
          [] routine = "boxed_from_hex"       -> from_hex(o, lhs, Max2(1, to_limbs(p)), Err("none"))
          [] routine = "hex_byte"             -> Ok(decode_hex_byte(lhs))
          [] routine = "to_bytes"   -> Ok(<<to_slice(o, lhs, n), trimmed(o, lhs, n)>>)
          [] routine = "der_encode" -> Ok(<<asn1_written(to_be_bytes(lhs, n)),
                                            count_der_be_bytes(lhs, n)>>)
          [] routine = "rlp_append" -> Ok(<<rlp_append(lhs, n)>>)

CallBytes ==
    /\ pc = "enter" /\ routine \notin Decoders \cup {"to_string"}
    /\ res' = ByteCall /\ pc' = "done" /\ UNCHANGED <<args, working>>
----------------------------------------------------------------------------
Rhs(radix, n, p, order) == [radix |-> radix, n |-> n, p |-> p, order |-> order]
Orders == {"be", "le"}

Calls ==
    \/ \E r \in Radices :
         /\ lhs \in Texts(r)
         /\ \/ routine = "from_str"           /\ \E n \in TextLimbs : rhs = Rhs(r, n, 0, "be")
            \/ routine = "from_str_boxed"     /\ rhs = Rhs(r, 0, 0, "be")
            \/ routine = "from_str_precision" /\ \E p \in Precisions : rhs = Rhs(r, 0, p, "be")
    \/ /\ \E n \in EncodedLimbs : \E r \in Radices : rhs = Rhs(r, n, 0, "be")
       /\ lhs \in Encoded(rhs.n) /\ routine = "to_string"
    \/ /\ lhs \in ByteStrings
       /\ \E o \in Orders : \E n \in ByteLimbs : \E p \in Precisions : rhs = Rhs(0, n, p, o)
       /\ \/ routine = "from_slice_truncated"
          \/ routine = "from_slice" /\ rhs.p = 0
          \/ routine \in {"der_decode", "rlp_decode"} /\ rhs.p = 0 /\ rhs.order = "be"
          \/ routine \in {"boxed_from_slice", "boxed_truncated"} /\ rhs.n = 1
          \/ routine = "from_slice_vartime" /\ rhs.n = 1 /\ rhs.p = 0
          \/ routine = "der_decode_boxed" /\ rhs.n = 1 /\ rhs.p = 0 /\ rhs.order = "be"
    \/ /\ lhs \in HexStrings
       /\ \E o \in Orders : \E n \in ByteLimbs : rhs = Rhs(0, n, bits_precision(n), o)
       /\ \/ routine = "from_hex"
          \/ routine = "boxed_from_hex" /\ rhs.order = "be"
    \/ routine = "hex_byte" /\ lhs \in HexFirst \X HexSecond /\ rhs = Rhs(16, 0, 0, "be")
    \/ /\ \E o \in Orders : \E n \in ByteLimbs : rhs = Rhs(0, n, 0, o)
       /\ lhs \in Encoded(rhs.n)
       /\ \/ routine = "to_bytes"
          \/ routine \in {"der_encode", "rlp_append"} /\ rhs.order = "be"

Init ==
    /\ Calls
    /\ limbs = 0 /\ len = 0 /\ text = <<>> /\ high = 0 /\ high_len = 0
    /\ bits_acc = 0 /\ start = 0 /\ pc = "enter" /\ res = No

Next ==
    \/ EnterDecode \/ DecodeLimb \/ ReturnDecoded
    \/ EnterEncode \/ ShiftLimb \/ FillShifted
    \/ TakeLarge \/ TakeRest \/ EmitLimb \/ EndBatch \/ EndEncode \/ Strip
    \/ CallBytes
----------------------------------------------------------------------------
Signless == IF lhs # <<>> /\ Head(lhs) = Plus THEN Tail(lhs) ELSE lhs
Value    == Number(Digits(Signless), rhs.radix)
Times(x, k) == IF x = 0 THEN 0 ELSE x * rhs.radix ^ k

\* At every step of decoding the limbs and the digits that are left, and at
\* every step of encoding the digits written and what is left of the integer,
\* are together the argument; no limb that is dropped holds anything.
TextTracks ==
    /\ pc = "decode" =>
         /\ limbs < W[len]
         /\ Value = LET rest == Number(Digits(text), rhs.radix)
                    IN  IF aligned THEN rest * W[len] + limbs
                                   ELSE limbs * rhs.radix ^ Len(Digits(text)) + rest
    /\ pc = "shift" =>
         lhs = Number(text, rhs.radix)
                 + Times(high + (limbs \div W[start]) * 2 ^ high_len, Len(text))
    /\ pc \in {"small", "batch", "strip"} /\ ~is_power_of_two =>
         lhs = Number(text, rhs.radix) + Times(limbs, Len(text)) + Times(high, size - start)

\* The parameters of a radix are those of that radix, and a batch ends where
\* the next begins.
AssertionsHold ==
    /\ routine = "to_string" /\ pc = "enter" =>
         \A r \in 3..36 \ {4, 8, 16, 32} : for_radix(r) = r
    /\ routine = "to_string" /\ pc # "enter" => out_idx >= start \/ pc \in {"shift", "strip", "done"}

\* A string is decoded exactly if it is a number in the base, its underscores
\* between digits, and it fits; the error says why it is not.
DecodedText ==
    LET digits == Digits(Signless)
        legal  == /\ Signless # <<>> /\ Signless[1] # Sep /\ Signless[Len(Signless)] # Sep
                  /\ \A j \in 1..Len(digits) : IsDigit(digits[j])
        fits   == Value < W[capacity]
    IN  /\ res # Panic
        /\ IF res[1] = "ok"
           THEN /\ legal /\ res[2].v = Value
                /\ res[2].n = IF routine = "from_str_boxed" THEN to_limbs(bits(Value)) ELSE capacity
                /\ routine = "from_str_precision" => bits(Value) <= rhs.p
           ELSE CASE res[2] = "Empty"        -> Signless = <<>>
                  [] res[2] = "InvalidDigit" -> Signless # <<>> /\ ~legal
                  [] res[2] = "InputSize"    -> legal => ~fits
                  [] res[2] = "Precision"    -> legal /\ fits /\ rhs.p < bits(Value)

\* Canonical, in the digits of the base.
EncodedText ==
    /\ Number(res[2], rhs.radix) = lhs
    /\ \A j \in 1..Len(res[2]) : IsDigit(res[2][j])
    /\ Len(res[2]) >= 1 /\ (Len(res[2]) > 1 => res[2][1] # 0)

\* boxed/encoding.rs:22 and :67 "Returns [`DecodeError::Precision`] if the size of
\* the decoded integer is larger than `bits_precision`."
PrecisionRefused ==
    pc = "done" /\ routine = "boxed_from_slice" =>
    (res[1] = "ok" => bits(Word_(rhs.order, lhs)) <= rhs.p)

\* Bytes are read as the number they write, modulo what the precision leaves
\* also where PrecisionRefused says that they are refused; the bytes written are
\* read back as the same integer, in DER and RLP they are as many as announced,
\* and no other bytes are read as that integer.
Bytes ==
    LET o == rhs.order  n == rhs.n  p == rhs.p
        value == Word_(o, lhs)
        ok    == res[1] = "ok"
        is(v, k) == res = Ok([v |-> v, n |-> k])
    IN  CASE routine = "from_slice" ->
               IF Len(lhs) = n * BYTES
               THEN is(value, n) /\ to_slice(o, res[2].v, n) = lhs ELSE res = Panic
          [] routine = "from_slice_truncated" ->
               IF p <= bits_precision(n) THEN is(value % 2 ^ p, n) ELSE res = Panic
          [] routine = "boxed_from_slice" ->
               IF Len(lhs) <= to_bytes(p) THEN is(value % 2 ^ p, Max2(1, to_limbs(p)))
                                          ELSE res = Err("InputSize")
          [] routine = "boxed_truncated" -> is(value % 2 ^ p, Max2(1, to_limbs(p)))
          [] routine = "from_slice_vartime" -> is(value, Max2(1, to_limbs(from_bytes(Len(lhs)))))
          [] routine = "der_decode" ->
               ok <=> /\ lhs # <<>> /\ ~TopBit(lhs) /\ value < W[n]
                      /\ lhs = asn1_written(to_be_bytes(value, n))
          [] routine = "der_decode_boxed" -> ok => res[2].v = value
          [] routine = "rlp_decode" ->
               ok <=> value < W[n] /\ lhs = rlp_append(value, n)
          [] routine \in {"from_hex", "boxed_from_hex"} ->
               ok <=> Len(lhs) = n * BYTES /\ \A j \in 1..Len(lhs) : lhs[j] < 2 ^ ByteBits
          [] routine = "to_bytes" ->
               /\ from_slice(o, res[2][1], n) = Ok([v |-> lhs, n |-> n])
               /\ Word_(o, res[2][2]) = lhs /\ Len(res[2][2]) = to_bytes(bits(lhs))
          [] routine = "der_encode" ->
               /\ res[2][2] = Len(res[2][1])
               /\ der_decode(res[2][1], n) = Ok([v |-> lhs, n |-> n])
          [] routine = "rlp_append" -> rlp_decode(res[2][1], n) = Ok([v |-> lhs, n |-> n])
          [] routine = "hex_byte" ->
               LET digit(c) == IF c \in 48..57 THEN c - 48 ELSE IF c \in 65..70 THEN c - 55
                               ELSE IF c \in 97..102 THEN c - 87 ELSE 16
                   d == digit(lhs[1])  e == digit(lhs[2])
               IN  IF d < 16 /\ e < 16 THEN res = Ok(<<16 * d + e, 0>>) ELSE res[2][2] # 0

ResultCorrect ==
    pc = "done" => IF routine \in Decoders THEN DecodedText
                   ELSE IF routine = "to_string" THEN EncodedText ELSE Bytes

\* ref_type/cmp.rs:15 "should have limbs": the assertions of the code that an
\* integer has a limb, here of those that are read from text.
HasLimbs == pc = "done" /\ routine \in Decoders /\ res[1] = "ok" => res[2].n >= 1
============================================================================
