----------------------------- MODULE ReedSolomon -----------------------------
(***************************************************************************)
(* The erasure code behind FecCodec (fec.cpp): arithmetic in GF(256), the   *)
(* coding matrix, parity, and reconstruction with the length prefix and the *)
(* padding that encode and decode add around it.  Module Fec takes from     *)
(* here that any data_shards_ shards of a group give back its packets.      *)
(*                                                                         *)
(* Operators only: module MCCodecs runs them beside Fec.  They are RECURSIVE *)
(* and use Bitwise, so nothing is proved from this module.                  *)
(***************************************************************************)
EXTENDS Integers, Sequences, FiniteSets, Bitwise, SequencesExt

CONSTANTS
    Shapes,    \* pairs <<data_shards, parity_shards>> to check
    Samples    \* KCP packets (sequences of bytes) to encode

ASSUME RsAssumption ==
    /\ \A s \in Shapes : s[1] > 0 /\ s[2] > 0 /\ s[1] + s[2] <= 256
    /\ \A p \in Samples : \A k \in DOMAIN p : p[k] \in 0..255

-----------------------------------------------------------------------------
(* GF(256).                                                                 *)

\* a << 1, reduced by the field polynomial when a bit is carried out.
Double(a) == IF a >= 128 THEN ((2 * a) % 256) ^^ 29 ELSE 2 * a

RECURSIVE GfMul(_, _)
GfMul(a, b) ==
    IF b = 0 THEN 0 ELSE (IF b % 2 = 1 THEN a ELSE 0) ^^ GfMul(Double(a), b \div 2)

\* gf_pow multiplies n times; squaring gives the same power in fewer steps.
RECURSIVE GfPow(_, _)
GfPow(v, n) ==
    LET half == GfPow(v, n \div 2)
        square == GfMul(half, half)
    IN  IF n = 0 THEN 1 ELSE IF n % 2 = 0 THEN square ELSE GfMul(square, v)

\* gf_inv for every value it is defined on.
GfInv == [v \in 1..255 |-> GfPow(v, 254)]

\* The xor of f(1), ..., f(n).
RECURSIVE XorSum(_, _)
XorSum(f, n) == IF n = 0 THEN 0 ELSE f[n] ^^ XorSum(f, n - 1)

-----------------------------------------------------------------------------
(* Matrices: functions from row numbers to functions from column numbers.   *)

MultiplyMatrix(left, right) ==
    [r \in DOMAIN left |-> [c \in DOMAIN right[1] |->
        XorSum([i \in DOMAIN right |-> GfMul(left[r][i], right[i][c])], Len(right))]]

AddScaled(row, scale, source) == [c \in DOMAIN row |-> row[c] ^^ GfMul(scale, source[c])]

\* Row r gets a non-zero pivot from the first row below that has one.
Pivot(work, r) ==
    LET below == {k \in (r + 1)..Len(work) : work[k][r] # 0}
        first == CHOOSE k \in below : \A j \in below : k <= j
    IN  IF work[r][r] # 0 \/ below = {} THEN work
        ELSE [work EXCEPT ![r] = work[first], ![first] = work[r]]

\* Column r below the diagonal is cleared.  A zero pivot is the exception
\* "singular Reed-Solomon matrix": GfInv is not defined there.
Forward(work, r) ==
    LET pivoted == Pivot(work, r)
        scale == GfInv[pivoted[r][r]]
        scaled == [pivoted EXCEPT ![r] = [c \in DOMAIN @ |-> GfMul(@[c], scale)]]
    IN  [k \in DOMAIN work |-> IF k > r THEN AddScaled(scaled[k], scaled[k][r], scaled[r])
                                        ELSE scaled[k]]

\* Column d above the diagonal is cleared.
Backward(work, d) ==
    [k \in DOMAIN work |-> IF k < d THEN AddScaled(work[k], work[k][d], work[d]) ELSE work[k]]

InvertMatrix(input) ==
    LET n == Len(input)
        rows == [k \in 1..n |-> k]
        augmented == [r \in 1..n |-> [c \in 1..(2 * n) |->
                        IF c <= n THEN input[r][c] ELSE IF c = n + r THEN 1 ELSE 0]]
        reduced == FoldLeft(Backward, FoldLeft(Forward, augmented, rows), rows)
    IN  [r \in 1..n |-> SubSeq(reduced[r], n + 1, 2 * n)]

BuildRsMatrix(data_shards, total_shards) ==
    LET vandermonde == [r \in 1..total_shards |-> [c \in 1..data_shards |-> GfPow(r - 1, c - 1)]]
    IN  MultiplyMatrix(vandermonde, InvertMatrix(SubSeq(vandermonde, 1, data_shards)))

Matrices == [s \in Shapes |-> BuildRsMatrix(s[1], s[1] + s[2])]

-----------------------------------------------------------------------------
(* Shards.                                                                  *)

\* Mutation: the length counts the payload only.
PrefixPayloadOnly(packet) == <<Len(packet) % 256, Len(packet) \div 256>> \o packet

\* encode puts the size, itself included, in front (little endian).
Prefix(packet) == <<(Len(packet) + 2) % 256, (Len(packet) + 2) \div 256>> \o packet

Pad(shard, len) == [k \in 1..len |-> IF k <= Len(shard) THEN shard[k] ELSE 0]

LongestLen(shards) == CHOOSE n \in {Len(shards[i]) : i \in DOMAIN shards} :
                          \A i \in DOMAIN shards : Len(shards[i]) <= n

\* Row `row` of a matrix times a column of shards, byte by byte.
Combine(row, shards) ==
    [k \in 1..Len(shards[1]) |->
        XorSum([i \in DOMAIN row |-> GfMul(row[i], shards[i][k])], Len(row))]

\* What encode sends for a group: data shards at their own length, then parity.
Encoded(shape, packets) ==
    LET data == [i \in DOMAIN packets |-> Prefix(packets[i])]
        len == LongestLen(data)
        padded == [i \in DOMAIN data |-> Pad(data[i], len)]
    IN  data \o [p \in 1..shape[2] |-> Combine(Matrices[shape][shape[1] + p], padded)]

\* decode's trimming of a recovered shard; a size that cannot be right is dropped.
Dropped == <<-1>>
Trim(shard) ==
    LET size == shard[1] + 256 * shard[2]
    IN  IF size >= 2 /\ size <= Len(shard) THEN SubSeq(shard, 3, size) ELSE Dropped

\* reconstruct_data and decode for the shards at the places in `present`, as
\* many as there are data shards: the packets the receiver has in the end.
Decoded(shape, shards, present) ==
    LET valid == SetToSortSeq(present, <)
        len == LongestLen([i \in DOMAIN valid |-> shards[valid[i]]])
        got == [i \in DOMAIN valid |-> Pad(shards[valid[i]], len)]
        decode == InvertMatrix([r \in DOMAIN valid |-> Matrices[shape][valid[r]]])
    IN  [i \in 1..shape[1] |->
            IF i \in present THEN SubSeq(shards[i], 3, Len(shards[i]))
            ELSE Trim(Combine(decode[i], got))]
==============================================================================
