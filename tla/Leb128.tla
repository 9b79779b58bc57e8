------------------------------- MODULE Leb128 -------------------------------
(***************************************************************************)
(* LEB128 numbers as sequences of bytes (wsm::Leb128).  Numbers stay in    *)
(* 32 bits, the widest TLC has; of a negative one converted to uint64_t    *)
(* the ten bytes are still exact.                                          *)
(***************************************************************************)
EXTENDS Integers, Sequences

K_LEB128_OBJ_SIZE == 5

RECURSIVE Uleb(_)
RECURSIVE Sleb(_)
RECURSIVE UlebCast(_, _)

\* init of a uint64_t.
Uleb(n) == IF n < 128 THEN <<n>> ELSE <<(n % 128) + 128>> \o Uleb(n \div 128)

(* Slip: the bit of the sign is not looked at. *)
SlebUnsigned(n) == Uleb(IF n < 0 THEN -n ELSE n)

\* init of an int64_t: the last byte carries the sign in its bit 0x40.
Sleb(n) ==
    LET byte == n % 128
        rest == n \div 128
    IN  IF (rest = 0 /\ byte < 64) \/ (rest = -1 /\ byte >= 64)
        THEN <<byte>>
        ELSE <<byte + 128>> \o Sleb(rest)

\* init of an int32_t: it becomes a uint64_t first, so a negative number has
\* nine groups of seven bits and a last one of a single bit.
UlebCast(n, groups) ==
    IF groups = 1 THEN <<1>> ELSE <<(n % 128) + 128>> \o UlebCast(n \div 128, groups - 1)

LebOfI32(n) == IF n < 0 THEN UlebCast(n, 10) ELSE Uleb(n)

\* Leb128<true>: the bytes are or-ed into 80 80 80 80 00, all of which are
\* written.  A number of five groups or less keeps its value.
Padded(bytes) ==
    [i \in 1..K_LEB128_OBJ_SIZE |->
        IF i <= Len(bytes)
        THEN IF i < K_LEB128_OBJ_SIZE THEN (bytes[i] % 128) + 128 ELSE bytes[i]
        ELSE IF i < K_LEB128_OBJ_SIZE THEN 128 ELSE 0]

ObjLeb(n) == Padded(Uleb(n))
=============================================================================
