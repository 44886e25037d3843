----------------------------- MODULE CodecProofs -----------------------------
(***************************************************************************)
(* TLAPS proofs about what happens to bytes between smux and the socket.   *)
(* Fec: for every number of data and parity shards, every width of the     *)
(* sequence numbers, and every delay and outage that FecAssumption admits.  *)
(* Qpp: for every key, text, number of pads and sizes of bytes and words    *)
(* that QppConstants admits.                                                *)
(* Framing: for all payload lengths, sizes of headers, chunks, segments and *)
(* smuxbufs, and numbers of frames that FramingAssumption admits.           *)
(***************************************************************************)
EXTENDS Fec, Qpp, Framing, FiniteSetTheorems, SequenceTheorems, WellFoundedInduction, TLAPS

-----------------------------------------------------------------------------
(* Arithmetic.                                                              *)

\* Division with remainder.
LEMMA DivMod ==
    ASSUME NEW m \in Nat \ {0}, NEW x \in Int
    PROVE  /\ x \div m \in Int /\ x % m \in 0..(m - 1)
           /\ x = m * (x \div m) + (x % m)
  BY SMTT(20)

\* The remainder and the quotient are determined by any decomposition.
LEMMA ModUnique ==
    ASSUME NEW m \in Nat \ {0}, NEW k \in Int, NEW r \in 0..(m - 1)
    PROVE  (m * k + r) % m = r /\ (m * k + r) \div m = k
  BY SMTT(20)

LEMMA NatQuotient ==
    ASSUME NEW m \in Nat \ {0}, NEW x \in Nat
    PROVE  x \div m \in Nat /\ x % m \in 0..(m - 1) /\ x = m * (x \div m) + (x % m)
  BY SMTT(20)

LEMMA Times ==
    ASSUME NEW m \in Nat, NEW a \in Int, NEW b \in Int
    PROVE  /\ m * a \in Int
           /\ m * (a + b) = m * a + m * b /\ m * (a - b) = m * a - m * b
           /\ m * (a + 1) = m * a + m /\ m * (a - 1) = m * a - m
           /\ a <= b => m * a <= m * b
  BY SMTT(20)

\* A product is compared by its other factor.
LEMMA Factor ==
    ASSUME NEW m \in Nat \ {0}, NEW a \in Int, NEW b \in Int, m * a < m * b
    PROVE  a < b
  <1>1. SUFFICES ASSUME b <= a PROVE FALSE
    OBVIOUS
  <1>2. m * b <= m * a /\ m * a \in Int /\ m * b \in Int
    BY <1>1, Times
  <1>3. QED
    BY <1>2

-----------------------------------------------------------------------------
(* The sequence numbers.                                                    *)

\* How many sets of numbers there are: the set id wraps at Sets.
Sets == (Modulus - 1) \div ShardSize

\* How far apart groups of which datagrams are about may be, in numbers.
Spread == MaxDelay + MaxOutage + (MaxShardSets + 2) * ShardSize

LEMMA Numbers ==
    /\ ShardSize \in Nat \ {0} /\ DataShards < ShardSize /\ DataShards \in Nat \ {0}
    /\ ParityShards \in Nat \ {0} /\ Modulus \in Nat \ {0}
    /\ Sets \in Nat \ {0} /\ Paws = ShardSize * Sets
    /\ Paws \in Nat /\ Paws < Modulus /\ Modulus <= Paws + ShardSize
    /\ Spread \in Nat /\ 2 * (Spread + ShardSize) < Modulus /\ Spread < Paws
    /\ MaxDelay \in Nat /\ MaxOutage \in Nat /\ MaxShardSets \in Nat \ {0}
    /\ ShardSize * MaxShardSets \in Nat
    /\ Spread = MaxDelay + MaxOutage + ShardSize * MaxShardSets + 2 * ShardSize
  <1>1. /\ ShardSize \in Nat \ {0} /\ DataShards < ShardSize /\ DataShards \in Nat \ {0}
        /\ ParityShards \in Nat \ {0} /\ MaxShardSets \in Nat \ {0} /\ MaxDelay \in Nat /\ MaxOutage \in Nat
        /\ Modulus \in Nat
    BY FecAssumption DEF ShardSize
  <1>2. 2 * (MaxDelay + MaxOutage + (MaxShardSets + 3) * ShardSize) < Modulus
    BY FecAssumption
  <1>3. /\ ShardSize * MaxShardSets \in Nat
        /\ (MaxShardSets + 3) * ShardSize = ShardSize * MaxShardSets + 3 * ShardSize
        /\ (MaxShardSets + 2) * ShardSize = ShardSize * MaxShardSets + 2 * ShardSize
    BY <1>1, SMTT(20)
  <1>4. /\ Spread \in Nat /\ 2 * (Spread + ShardSize) < Modulus
        /\ Spread = MaxDelay + MaxOutage + ShardSize * MaxShardSets + 2 * ShardSize
    BY <1>1, <1>2, <1>3 DEF Spread
  <1>5. Modulus - 1 \in Nat
    BY <1>1, <1>4
  <1>6. /\ Sets \in Nat /\ (Modulus - 1) % ShardSize \in 0..(ShardSize - 1)
        /\ Modulus - 1 = ShardSize * Sets + ((Modulus - 1) % ShardSize)
    BY <1>1, <1>5, NatQuotient DEF Sets
  <1>7. Paws = ShardSize * Sets
    BY <1>1, <1>6, SMTT(20) DEF Paws, Sets
  <1>8. ShardSize * Sets \in Nat
    BY <1>1, <1>6, SMTT(20)
  <1>9. Paws \in Nat /\ Paws < Modulus /\ Modulus <= Paws + ShardSize
    BY <1>1, <1>6, <1>7, <1>8
  <1>10. Sets # 0
    <2>1. SUFFICES ASSUME Sets = 0 PROVE FALSE
      OBVIOUS
    <2>2. Paws = 0
      BY <1>1, <1>7, <2>1
    <2>3. QED
      BY <1>1, <1>4, <1>9, <2>2
  <1>11. Spread < Paws
    BY <1>1, <1>4, <1>9
  <1>12. QED
    BY <1>1, <1>3, <1>4, <1>6, <1>7, <1>9, <1>10, <1>11

\* The sequence number of a shard.
SeqOf(g, i) == ShardSize * (g % Sets) + i

LEMMA SetIdRange ==
    ASSUME NEW g \in Nat
    PROVE  g % Sets \in 0..(Sets - 1) /\ g % Sets \in Nat
  BY Numbers, NatQuotient

\* What decode makes of a sequence number: the set and the place in it.
LEMMA SeqParts ==
    ASSUME NEW g \in Nat, NEW i \in Indices
    PROVE  /\ SeqOf(g, i) \in Nat /\ SeqOf(g, i) < Paws
           /\ SeqOf(g, i) % ShardSize = i /\ SeqOf(g, i) \div ShardSize = g % Sets
  <1>1. i \in 0..(ShardSize - 1) /\ ShardSize \in Nat \ {0}
    BY Numbers DEF Indices
  <1>2. g % Sets \in 0..(Sets - 1) /\ g % Sets \in Nat
    BY SetIdRange
  <1>3. SeqOf(g, i) % ShardSize = i /\ SeqOf(g, i) \div ShardSize = g % Sets
    <2>1. g % Sets \in Int
      BY <1>2
    <2>2. /\ (ShardSize * (g % Sets) + i) % ShardSize = i
          /\ (ShardSize * (g % Sets) + i) \div ShardSize = g % Sets
      BY <1>1, <2>1, ModUnique, Zenon
    <2>3. QED
      BY <2>2, Zenon DEF SeqOf
  <1>4. ShardSize * (g % Sets) \in Nat /\ ShardSize * (g % Sets) <= ShardSize * Sets - ShardSize
    BY <1>1, <1>2, Numbers, SMTT(20)
  <1>5. QED
    BY <1>1, <1>3, <1>4, Numbers DEF SeqOf

\* The number after the last one of a set is the first of the next set, which
\* is 0 after the last set.
LEMMA NextSet ==
    ASSUME NEW g \in Nat
    PROVE  (ShardSize * (g % Sets) + ShardSize) % Paws = SeqOf(g + 1, 0)
  <1>1. /\ Sets \in Nat \ {0} /\ ShardSize \in Nat \ {0} /\ Paws = ShardSize * Sets
        /\ Paws \in Nat /\ Paws < Modulus
    BY Numbers
  <1>2. /\ g % Sets \in 0..(Sets - 1) /\ g \div Sets \in Nat
        /\ g = Sets * (g \div Sets) + (g % Sets)
    BY <1>1, NatQuotient
  <1> DEFINE r == g % Sets
             q == g \div Sets
  <1>3. CASE r = Sets - 1
    <2>1. g + 1 = Sets * (q + 1) + 0
      BY <1>1, <1>2, <1>3, SMTT(20)
    <2>2. (g + 1) % Sets = 0
      <3>1. q + 1 \in Int /\ 0 \in 0..(Sets - 1)
        BY <1>1, <1>2
      <3>2. (Sets * (q + 1) + 0) % Sets = 0
        BY <1>1, <3>1, ModUnique, Zenon
      <3>3. QED
        BY <2>1, <3>2, Zenon
    <2>3. ShardSize * r + ShardSize = Paws
      BY <1>1, <1>3, SMTT(20)
    <2>4. Paws % Paws = 0
      BY <1>1, <2>3, Numbers, SMTT(20)
    <2>5. QED
      BY <1>1, <2>2, <2>3, <2>4 DEF SeqOf
  <1>4. CASE r # Sets - 1
    <2>1. g + 1 = Sets * q + (r + 1) /\ r + 1 \in 0..(Sets - 1)
      BY <1>1, <1>2, <1>4
    <2>2. (g + 1) % Sets = r + 1
      <3>1. q \in Int
        BY <1>2
      <3>2. (Sets * q + (r + 1)) % Sets = r + 1
        BY <1>1, <2>1, <3>1, ModUnique, Zenon
      <3>3. QED
        BY <2>1, <3>2, Zenon
    <2>3. ShardSize * r + ShardSize = ShardSize * (r + 1) /\ ShardSize * (r + 1) \in Nat
          /\ ShardSize * (r + 1) < Paws
      BY <1>1, <2>1, SMTT(20)
    <2>4. QED
      BY <1>1, <2>2, <2>3, SMTT(20) DEF SeqOf
  <1>5. QED
    BY <1>3, <1>4

\* The ids of two groups that are fewer than Sets apart: they differ by as
\* much, unless the numbers have wrapped between them.
LEMMA IdDifference ==
    ASSUME NEW g \in Nat, NEW h \in Nat, h <= g, g - h < Sets
    PROVE  \/ g % Sets = (h % Sets) + (g - h)
           \/ g # h /\ g % Sets = (h % Sets) + (g - h) - Sets
  <1> DEFINE r == g % Sets
             q == g \div Sets
             t == h % Sets
             p == h \div Sets
  <1>1. Sets \in Nat \ {0}
    BY Numbers
  <1>2. r \in 0..(Sets - 1) /\ q \in Nat /\ g = Sets * q + r
    BY <1>1, NatQuotient
  <1>3. t \in 0..(Sets - 1) /\ p \in Nat /\ h = Sets * p + t
    BY <1>1, NatQuotient
  <1> HIDE DEF r, q, t, p
  <1>4. /\ Sets * q \in Int /\ Sets * p \in Int
        /\ Sets * (p + 1) = Sets * p + Sets /\ Sets * (p - 1) = Sets * p - Sets
        /\ Sets * (p + 2) = Sets * p + 2 * Sets
    BY <1>1, <1>2, <1>3, SMTT(20)
  <1>5. Sets * (p - 1) < Sets * q
    BY <1>1, <1>2, <1>3, <1>4
  <1>6. p - 1 < q
    <2>1. p - 1 \in Int /\ q \in Int
      BY <1>2, <1>3
    <2>2. QED
      BY <1>1, <1>5, <2>1, Factor
  <1>7. Sets * q < Sets * (p + 2)
    BY <1>1, <1>2, <1>3, <1>4
  <1>8. q < p + 2
    <2>1. p + 2 \in Int /\ q \in Int
      BY <1>2, <1>3
    <2>2. QED
      BY <1>1, <1>7, <2>1, Factor
  <1>9. CASE q = p
    BY <1>2, <1>3, <1>4, <1>9 DEF r, t
  <1>10. CASE q = p + 1
    <2>1. g - h = Sets + r - t
      BY <1>2, <1>3, <1>4, <1>10, <1>1
    <2>2. g # h
      BY <1>1, <1>2, <1>3, <2>1
    <2>3. r = t + (g - h) - Sets
      BY <1>1, <1>2, <1>3, <2>1
    <2>4. QED
      BY <2>2, <2>3 DEF r, t
  <1>11. QED
    BY <1>2, <1>3, <1>6, <1>8, <1>9, <1>10

\* Groups with the same id that are fewer than Sets apart are the same.
LEMMA SameGroup ==
    ASSUME NEW g \in Nat, NEW h \in Nat, g % Sets = h % Sets,
           ShardSize * (g - h) <= Spread, ShardSize * (h - g) <= Spread
    PROVE  g = h
  <1>1. /\ ShardSize \in Nat \ {0} /\ Sets \in Nat \ {0} /\ Spread < ShardSize * Sets
        /\ Spread \in Nat /\ ShardSize * Sets \in Nat
    BY Numbers
  <1>2. g - h < Sets
    <2>1. g - h \in Int /\ Sets \in Int /\ ShardSize * (g - h) \in Int
      BY <1>1, Times
    <2>2. QED
      BY <1>1, <2>1, Factor
  <1>3. h - g < Sets
    <2>1. h - g \in Int /\ Sets \in Int /\ ShardSize * (h - g) \in Int
      BY <1>1, Times
    <2>2. QED
      BY <1>1, <2>1, Factor
  <1>4. g % Sets \in Nat /\ h % Sets \in Nat
    BY SetIdRange
  <1> DEFINE r == g % Sets
             t == h % Sets
  <1>5. CASE h <= g
    <2>1. r = t + (g - h) \/ r = t + (g - h) - Sets
      BY <1>2, <1>5, IdDifference, Zenon
    <2>2. r \in Nat /\ t \in Nat /\ r = t
      BY <1>4
    <2> HIDE DEF r, t
    <2>3. QED
      BY <1>1, <1>2, <1>5, <2>1, <2>2
  <1>6. CASE g <= h
    <2>1. t = r + (h - g) \/ t = r + (h - g) - Sets
      BY <1>3, <1>6, IdDifference, Zenon
    <2>2. r \in Nat /\ t \in Nat /\ r = t
      BY <1>4
    <2> HIDE DEF r, t
    <2>3. QED
      BY <1>1, <1>3, <1>6, <2>1, <2>2
  <1>7. QED
    BY <1>5, <1>6

\* What TimeDiff makes of a difference that is below half of the modulus, and
\* of one that has wrapped.
LEMMA SmallDiff ==
    ASSUME NEW a \in Int, NEW b \in Int, a - b \in Nat, 2 * (a - b) < Modulus
    PROVE  TimeDiff(a, b) = a - b
  <1>1. Modulus \in Nat \ {0}
    BY Numbers
  <1>2. (a - b) % Modulus = a - b
    BY <1>1, SMTT(20)
  <1>3. QED
    BY <1>1, <1>2 DEF TimeDiff

LEMMA WrappedDiff ==
    ASSUME NEW a \in Int, NEW b \in Int, a - b < 0, 0 <= a - b + Modulus
    PROVE  TimeDiff(a, b) = IF 2 * (a - b + Modulus) >= Modulus THEN a - b ELSE a - b + Modulus
  <1>1. Modulus \in Nat \ {0}
    BY Numbers
  <1>2. a - b + Modulus \in 0..(Modulus - 1) /\ -1 \in Int
    BY <1>1
  <1>3. (Modulus * (-1) + (a - b + Modulus)) % Modulus = a - b + Modulus
    BY <1>1, <1>2, ModUnique, Zenon
  <1>4. Modulus * (-1) + (a - b + Modulus) = a - b
    BY <1>1
  <1>5. (a - b) % Modulus = a - b + Modulus
    BY <1>3, <1>4, Zenon
  <1>6. QED
    BY <1>1, <1>5 DEF TimeDiff

\* timediff of two set ids, for groups that are not far apart: its sign tells
\* which is the later one, across the wrap too, and it is at least the
\* distance of the groups.
LEMMA LaterGroup ==
    ASSUME NEW g \in Nat, NEW h \in Nat, h < g, ShardSize * (g - h) <= Spread
    PROVE  /\ TimeDiff((g % Sets) * ShardSize, (h % Sets) * ShardSize) > 0
           /\ TimeDiff((g % Sets) * ShardSize, (h % Sets) * ShardSize) >= ShardSize * (g - h)
           /\ TimeDiff((g % Sets) * ShardSize, (h % Sets) * ShardSize) <= ShardSize * (g - h) + ShardSize
           /\ TimeDiff((h % Sets) * ShardSize, (g % Sets) * ShardSize) < 0
  <1> DEFINE a == (g % Sets) * ShardSize
             b == (h % Sets) * ShardSize
             d == ShardSize * (g - h)
  <1>1. /\ ShardSize \in Nat \ {0} /\ Sets \in Nat \ {0} /\ Spread < ShardSize * Sets
        /\ Spread \in Nat /\ ShardSize * Sets \in Nat /\ Paws = ShardSize * Sets
        /\ Paws < Modulus /\ Modulus <= Paws + ShardSize /\ Modulus \in Nat
        /\ 2 * (Spread + ShardSize) < Modulus
    BY Numbers
  <1>2. g % Sets \in 0..(Sets - 1) /\ h % Sets \in 0..(Sets - 1)
    BY SetIdRange
  <1>3. g - h \in Nat /\ g - h >= 1
    OBVIOUS
  <1>4. a \in Nat /\ b \in Nat /\ d \in Nat /\ d > 0
    BY <1>1, <1>2, <1>3, SMTT(20)
  <1>5. g - h < Sets
    BY <1>1, <1>3, <1>4, Factor
  <1>6. CASE g % Sets = (h % Sets) + (g - h)
    <2>1. a - b = d
      BY <1>1, <1>2, <1>3, <1>6, SMTT(20)
    <2> HIDE DEF a, b, d
    <2>2. d <= Spread
      BY DEF d
    <2>3. TimeDiff(a, b) = d
      <3>1. a - b \in Nat /\ 2 * (a - b) < Modulus /\ a \in Int /\ b \in Int
        BY <1>1, <1>4, <2>1, <2>2
      <3>2. QED
        BY <2>1, <3>1, SmallDiff
    <2>4. TimeDiff(b, a) = -d
      <3>1. b - a < 0 /\ 0 <= b - a + Modulus /\ a \in Int /\ b \in Int
            /\ 2 * (b - a + Modulus) >= Modulus /\ b - a = -d
        BY <1>1, <1>4, <2>1, <2>2
      <3>2. QED
        BY <3>1, WrappedDiff
    <2>5. TimeDiff(a, b) > 0 /\ TimeDiff(a, b) >= d /\ TimeDiff(b, a) < 0
          /\ TimeDiff(a, b) <= d + ShardSize
      BY <1>1, <1>4, <2>3, <2>4
    <2>6. QED
      BY <2>5 DEF a, b, d
  <1>7. CASE g % Sets = (h % Sets) + (g - h) - Sets
    <2>1. a - b = d - Paws
      BY <1>1, <1>2, <1>3, <1>7, SMTT(20)
    <2> HIDE DEF a, b, d
    <2>2. d <= Spread
      BY DEF d
    <2>3. TimeDiff(a, b) = d + (Modulus - Paws)
      <3>1. a - b < 0 /\ 0 <= a - b + Modulus /\ a \in Int /\ b \in Int
            /\ 2 * (a - b + Modulus) < Modulus /\ a - b + Modulus = d + (Modulus - Paws)
        BY <1>1, <1>4, <2>1, <2>2
      <3>2. QED
        BY <3>1, WrappedDiff, <1>1
    <2>4. TimeDiff(b, a) < 0
      <3>1. b - a = Paws - d /\ b - a \in Nat /\ b - a < Modulus /\ 2 * (b - a) >= Modulus
        BY <1>1, <1>4, <2>1, <2>2
      <3>2. (b - a) % Modulus = b - a
        BY <3>1, <1>1, SMTT(20)
      <3>3. QED
        BY <1>1, <3>1, <3>2 DEF TimeDiff
    <2>5. TimeDiff(a, b) > 0 /\ TimeDiff(a, b) >= d /\ TimeDiff(b, a) < 0
          /\ TimeDiff(a, b) <= d + ShardSize
      BY <1>1, <1>4, <2>3, <2>4
    <2>6. QED
      BY <2>5 DEF a, b, d
  <1>8. QED
    BY <1>5, <1>6, <1>7, IdDifference

LEMMA DiffInt ==
    ASSUME NEW g \in Nat, NEW h \in Nat
    PROVE  TimeDiff((g % Sets) * ShardSize, (h % Sets) * ShardSize) \in Int
  <1>1. g % Sets \in Nat /\ h % Sets \in Nat /\ ShardSize \in Nat /\ Modulus \in Nat \ {0}
    BY SetIdRange, Numbers
  <1>2. (g % Sets) * ShardSize \in Int /\ (h % Sets) * ShardSize \in Int
    BY <1>1, SMTT(20)
  <1>3. (g % Sets) * ShardSize - (h % Sets) * ShardSize \in Int
    BY <1>2
  <1>4. ((g % Sets) * ShardSize - (h % Sets) * ShardSize) % Modulus \in 0..(Modulus - 1)
    BY <1>1, <1>3, DivMod, Zenon
  <1>5. QED
    BY <1>1, <1>4 DEF TimeDiff

LEMMA SameGroupDiff == \A a \in Int : TimeDiff(a, a) = 0
  <1>1. Modulus \in Nat \ {0}
    BY Numbers
  <1>2. QED
    BY <1>1, SmallDiff

-----------------------------------------------------------------------------
(* Shards, sets of shards, and which of them a set is reconstructed from.   *)

LEMMA PlaceIs ==
    ASSUME NEW g \in Nat, NEW i \in Indices
    PROVE  /\ Place(Shard(g, i)) = ShardSize * g + i /\ ShardSize * g + i \in Nat
           /\ ShardSize * g \in Nat /\ i \in Nat /\ i < ShardSize
  <1>1. ShardSize \in Nat \ {0} /\ i \in 0..(ShardSize - 1)
    BY Numbers DEF Indices
  <1>2. ShardSize * g \in Nat /\ g * ShardSize = ShardSize * g
    BY <1>1, SMTT(20)
  <1>3. QED
    BY <1>1, <1>2 DEF Place, Shard

LEMMA ShardsDiffer ==
    ASSUME NEW g \in Nat, NEW i
    PROVE  Shard(g, i) # NoShard /\ Shard(g, i) # Garbage
  <1>1. g # -1 /\ g # -2
    OBVIOUS
  <1>2. QED
    BY <1>1 DEF Shard, NoShard, Garbage

\* A set that holds shards of one group only, each in its place.
HoldsOf(g, set) ==
    DOMAIN set = Indices /\ \A i \in Indices : set[i] \in {NoShard, Shard(g, i)}

LEMMA PresentFinite ==
    ASSUME NEW set
    PROVE  /\ IsFiniteSet(Present(set)) /\ Cardinality(Present(set)) \in Nat
           /\ Present(set) \subseteq Indices /\ Present(set) \in SUBSET Nat
  <1>1. IsFiniteSet(Indices)
    BY Numbers, FS_Interval DEF Indices
  <1>2. Present(set) \in SUBSET Indices
    BY DEF Present
  <1>3. Indices \subseteq Nat
    BY Numbers DEF Indices
  <1>4. IsFiniteSet(Present(set))
    BY <1>1, <1>2, FS_Subset
  <1>5. QED
    BY <1>2, <1>3, <1>4, FS_CardinalityType

LEMMA LeastElement ==
    ASSUME NEW S \in SUBSET Nat, S # {}
    PROVE  \E least \in S : \A n \in S : least <= n
  <1> DEFINE R == OpToRel(<, Nat)
  <1>1. IsWellFoundedOn(R, Nat)
    BY NatLessThanWellFounded
  <1>2. ASSUME NEW m \in Nat, NEW n \in Nat, m < n PROVE <<m, n>> \in R
    BY <1>2 DEF OpToRel
  <1> HIDE DEF R
  <1>3. PICK least \in S : \A n \in S : ~(<<n, least>> \in R)
    BY <1>1, WFMin
  <1>4. ASSUME NEW n \in S PROVE least <= n
    <2>1. least \in Nat /\ n \in Nat
      OBVIOUS
    <2>2. ~(n < least)
      BY <2>1, <1>2, <1>3, Zenon
    <2>3. QED
      BY <2>1, <2>2
  <1>5. QED
    BY <1>4

\* The n lowest of at least n numbers: valid_indices has something to hold.
LEMMA LowestExist ==
    ASSUME NEW P \in SUBSET Nat, IsFiniteSet(P), NEW n \in Nat \ {0}, Cardinality(P) >= n,
           NEW top \in Nat, \A j \in P : j <= top
    PROVE  \E u \in SUBSET P : Cardinality(u) = n /\ \A i \in u : \A j \in P \ u : i < j
  <1> DEFINE Up(t) == {j \in P : j <= t}
             T == {t \in Nat : Cardinality(Up(t)) >= n}
  <1>1. \A t \in Nat : IsFiniteSet(Up(t)) /\ Cardinality(Up(t)) \in Nat
    <2>1. SUFFICES ASSUME NEW t \in Nat PROVE IsFiniteSet(Up(t)) /\ Cardinality(Up(t)) \in Nat
      OBVIOUS
    <2>2. Up(t) \in SUBSET P
      OBVIOUS
    <2>3. QED
      BY <2>2, FS_Subset, FS_CardinalityType
  <1>2. Up(top) = P
    OBVIOUS
  <1>3. T # {} /\ T \in SUBSET Nat
    BY <1>2
  <1>4. PICK t \in T : \A m \in T : t <= m
    BY <1>3, LeastElement
  <1>5. t \in Nat /\ Cardinality(Up(t)) >= n
    OBVIOUS
  <1> HIDE DEF T
  <1>6. Cardinality(Up(t)) <= n
    <2>1. CASE t = 0
      <3>1. Up(t) \in SUBSET {0}
        <4>1. ASSUME NEW j \in P, j <= t PROVE j = 0
          BY <2>1, <4>1
        <4>2. QED
          BY <4>1
      <3>2. IsFiniteSet({0}) /\ Cardinality({0}) = 1
        BY FS_Singleton
      <3>3. Cardinality(Up(t)) <= 1
        BY <3>1, <3>2, FS_Subset
      <3>4. QED
        BY <1>1, <1>5, <3>3
    <2>2. CASE t # 0
      <3>1. t - 1 \in Nat /\ t - 1 < t
        BY <1>5, <2>2
      <3>2. ~(Cardinality(Up(t - 1)) >= n)
        <4>1. t - 1 \notin T
          BY <1>4, <1>5, <3>1
        <4>2. QED
          BY <3>1, <4>1 DEF T
      <3>3. Up(t) \in SUBSET (Up(t - 1) \cup {t})
        <4>1. ASSUME NEW j \in P, j <= t PROVE j <= t - 1 \/ j = t
          BY <1>5, <4>1
        <4>2. QED
          BY <4>1
      <3>4. /\ IsFiniteSet(Up(t - 1) \cup {t})
            /\ Cardinality(Up(t - 1) \cup {t}) <= Cardinality(Up(t - 1)) + 1
            /\ Cardinality(Up(t - 1) \cup {t}) \in Nat
        <4>1. IsFiniteSet(Up(t - 1)) /\ Cardinality(Up(t - 1)) \in Nat
          BY <1>1, <3>1
        <4> DEFINE A == Up(t - 1)
        <4> HIDE DEF A
        <4>2. /\ IsFiniteSet(A \cup {t})
              /\ Cardinality(A \cup {t}) = IF t \in A THEN Cardinality(A) ELSE Cardinality(A) + 1
          BY <4>1, FS_AddElement DEF A
        <4>3. Cardinality(A) \in Nat
          BY <4>1 DEF A
        <4>4. /\ IsFiniteSet(A \cup {t}) /\ Cardinality(A \cup {t}) \in Nat
              /\ Cardinality(A \cup {t}) <= Cardinality(A) + 1
          BY <4>2, <4>3
        <4>5. QED
          BY <4>4 DEF A
      <3>5. Cardinality(Up(t)) <= Cardinality(Up(t - 1) \cup {t})
        <4> HIDE DEF Up
        <4>1. QED
          BY <3>3, <3>4, FS_Subset
      <3>6. Cardinality(Up(t - 1)) \in Nat /\ Cardinality(Up(t)) \in Nat
        BY <1>1, <1>5, <3>1
      <3>7. QED
        BY <3>2, <3>4, <3>5, <3>6
    <2>3. QED
      BY <2>1, <2>2
  <1>7. Cardinality(Up(t)) = n
    BY <1>1, <1>5, <1>6
  <1>8. \A i \in Up(t) : \A j \in P \ Up(t) : i < j
    BY <1>5
  <1>9. QED
    BY <1>7, <1>8

LEMMA UsedIs ==
    ASSUME NEW set, Cardinality(Present(set)) >= DataShards
    PROVE  Used(set) \subseteq Present(set) /\ Used(set) # {}
  <1>1. /\ IsFiniteSet(Present(set)) /\ Present(set) \in SUBSET Nat
        /\ \A j \in Present(set) : j <= ShardSize
    BY PresentFinite, Numbers DEF Indices
  <1>2. \E u \in SUBSET Present(set) :
            Cardinality(u) = DataShards /\ \A i \in u : \A j \in Present(set) \ u : i < j
    BY <1>1, Numbers, LowestExist
  <1>3. Used(set) \in SUBSET Present(set) /\ Cardinality(Used(set)) = DataShards
    BY <1>2, Zenon DEF Used
  <1>4. QED
    BY <1>3, Numbers, FS_EmptySet

\* reconstruct_data gives back the missing packets of the group.
LEMMA RecoveredIs ==
    ASSUME NEW g \in Nat, NEW set, HoldsOf(g, set), Cardinality(Present(set)) >= DataShards
    PROVE  Recovered(set) = {Shard(g, i) : i \in (0..(DataShards - 1)) \ Present(set)}
  <1> DEFINE used == Used(set)
             missing == (0..(DataShards - 1)) \ Present(set)
             some == CHOOSE s \in {set[i] : i \in used} : TRUE
  <1>1. used \subseteq Present(set) /\ used # {} /\ Present(set) \subseteq Indices
    BY UsedIs, PresentFinite
  <1>2. \A i \in used : set[i] = Shard(g, i)
    BY <1>1 DEF HoldsOf, Present
  <1>3. some \in {set[i] : i \in used}
    BY <1>1
  <1>4. PICK i \in used : some = set[i]
    BY <1>3
  <1>5. some.group = g
    <2>1. some = Shard(g, i)
      BY <1>2, <1>4
    <2> HIDE DEF some
    <2>2. QED
      BY <2>1 DEF Shard
  <1> HIDE DEF some, used
  <1>6. CASE missing = {}
    BY <1>6, Zenon DEF Recovered
  <1>7. CASE missing # {}
    <2>1. Recovered(set) = {Shard(some.group, j) : j \in missing}
      BY <1>2, <1>5, <1>7, Zenon DEF Recovered, used, some
    <2>2. QED
      BY <1>5, <2>1
  <1>8. QED
    BY <1>6, <1>7

-----------------------------------------------------------------------------
(* The invariant.                                                           *)

\* The group the encoder is filling, the next place it will use, and the group
\* of the newest datagram that has arrived.
Filling == sent \div DataShards
NextPlace == ShardSize * Filling + shard_count
Newest == heard \div ShardSize

\* The encoder's number says where it stands.
Encoder ==
    /\ sent \in Nat /\ heard \in Nat /\ heard <= NextPlace
    /\ shard_count = sent % DataShards
    /\ next_seq = SeqOf(Filling, shard_count)

\* A datagram under way has the number of its shard, and is neither far ahead
\* of what was heard last nor far behind.
OnTheWay(p) ==
    \E g \in 0..Filling : \E i \in Indices :
        /\ p = [seq |-> SeqOf(g, i), shard |-> Shard(g, i)]
        /\ ShardSize * g + i < NextPlace
        /\ (ShardSize * g + i) - heard <= MaxOutage
        /\ heard - (ShardSize * g + i) <= MaxDelay

\* No datagram under way is late beside another.
Together == \A p, q \in wire : Place(p.shard) - Place(q.shard) <= MaxDelay

\* A set that is being collected is that of one group, which is not old.
Collecting(g, id) ==
    /\ id = g % Sets /\ HoldsOf(g, decode_sets[id])
    /\ ShardSize * (Newest - g) <= MaxDelay + ShardSize * MaxShardSets + ShardSize

Decoder ==
    /\ \A id \in DOMAIN decode_sets : \E g \in 0..Newest : Collecting(g, id)
    /\ newest_shard_id = Newest % Sets

\* Only packets of the encoder come out.
Given == {Shard(g, i) : g \in 0..Filling, i \in 0..(DataShards - 1)}

FecInv ==
    /\ Encoder
    /\ (\A p \in wire : OnTheWay(p)) /\ Together
    /\ Decoder
    /\ output \subseteq Given

LEMMA FillingFacts ==
    ASSUME sent \in Nat, shard_count = sent % DataShards
    PROVE  /\ Filling \in Nat /\ shard_count \in 0..(DataShards - 1) /\ shard_count \in Indices
           /\ sent = DataShards * Filling + shard_count
           /\ NextPlace = ShardSize * Filling + shard_count /\ NextPlace \in Nat
           /\ ShardSize * Filling \in Nat
  <1>1. DataShards \in Nat \ {0} /\ ShardSize \in Nat \ {0} /\ DataShards < ShardSize
    BY Numbers
  <1>2. Filling \in Nat /\ shard_count \in 0..(DataShards - 1)
        /\ sent = DataShards * Filling + shard_count
    BY <1>1, NatQuotient DEF Filling
  <1>3. shard_count \in Indices
    BY <1>1, <1>2 DEF Indices
  <1>4. ShardSize * Filling \in Nat
    BY <1>1, <1>2, Times, SMTT(20)
  <1>5. QED
    BY <1>1, <1>2, <1>3, <1>4 DEF NextPlace

LEMMA FecInit == Init => FecInv
  <1>1. SUFFICES ASSUME Init PROVE FecInv
    OBVIOUS
  <1>2. sent = 0 /\ heard = 0 /\ shard_count = 0 /\ next_seq = 0 /\ wire = {} /\ newest_shard_id = 0
        /\ output = {} /\ DOMAIN decode_sets = {}
    BY <1>1 DEF Init, Restrict
  <1>3. \A m \in Nat \ {0} : 0 \div m = 0 /\ 0 % m = 0
    BY SMTT(20)
  <1>4. Filling = 0 /\ 0 % DataShards = 0 /\ Newest = 0 /\ 0 % Sets = 0
    BY <1>2, <1>3, Numbers DEF Filling, Newest
  <1>5. ShardSize * 0 = 0
    BY Numbers
  <1>6. Encoder
    BY <1>2, <1>4, <1>5 DEF Encoder, NextPlace, SeqOf
  <1>7. QED
    BY <1>2, <1>4, <1>6 DEF FecInv, Decoder, Together

-----------------------------------------------------------------------------
(* encode.                                                                  *)

\* The numbers of the k-th datagram of an encode, and of the next packet.
LEMMA SealedSeq ==
    ASSUME Encoder, NEW k \in Nat, shard_count + k \in Indices
    PROVE  (next_seq + k) % Paws = SeqOf(Filling, shard_count + k)
  <1>1. Filling \in Nat /\ shard_count \in Nat
    BY FillingFacts DEF Encoder
  <1>2. SeqOf(Filling, shard_count + k) \in Nat /\ SeqOf(Filling, shard_count + k) < Paws
    BY <1>1, SeqParts
  <1>3. Filling % Sets \in Nat /\ ShardSize * (Filling % Sets) \in Nat
    BY <1>1, SetIdRange, Numbers, Times
  <1>4. next_seq + k = SeqOf(Filling, shard_count + k)
    BY <1>1, <1>3 DEF Encoder, SeqOf
  <1>5. \A x \in Nat : x < Paws => x % Paws = x
    BY Numbers, SMTT(20)
  <1>6. QED
    BY <1>2, <1>4, <1>5

LEMMA NextNumber ==
    ASSUME Encoder, NEW timely \in BOOLEAN,
           NEW next, next = IF shard_count + 1 = DataShards
                            THEN (IF timely THEN (next_seq + 1 + ParityShards) % Paws
                                             ELSE SkipParity((next_seq + 1) % Paws))
                            ELSE (next_seq + 1) % Paws
    PROVE  next = IF shard_count + 1 = DataShards THEN SeqOf(Filling + 1, 0)
                                                  ELSE SeqOf(Filling, shard_count + 1)
  <1>1. Filling \in Nat /\ shard_count \in 0..(DataShards - 1) /\ shard_count + 1 \in Indices
    BY FillingFacts, Numbers DEF Encoder, Indices
  <1>2. (next_seq + 1) % Paws = SeqOf(Filling, shard_count + 1)
    BY <1>1, SealedSeq
  <1>3. CASE shard_count + 1 # DataShards
    BY <1>2, <1>3
  <1>4. CASE shard_count + 1 = DataShards
    <2>1. shard_count = DataShards - 1
      BY <1>1, <1>4, Numbers
    <2>2. Filling % Sets \in Nat /\ ShardSize * (Filling % Sets) \in Nat
      BY <1>1, SetIdRange, Numbers, Times
    <2>3. next_seq = ShardSize * (Filling % Sets) + shard_count
      BY DEF Encoder, SeqOf
    <2>4. /\ next_seq + 1 + ParityShards = ShardSize * (Filling % Sets) + ShardSize
          /\ SeqOf(Filling, shard_count + 1) + ParityShards = ShardSize * (Filling % Sets) + ShardSize
      BY <2>1, <2>2, <2>3, Numbers DEF SeqOf, ShardSize
    <2>5. (ShardSize * (Filling % Sets) + ShardSize) % Paws = SeqOf(Filling + 1, 0)
      BY <1>1, NextSet
    <2>6. QED
      BY <1>2, <1>4, <2>4, <2>5 DEF SkipParity
  <1>5. QED
    BY <1>3, <1>4

LEMMA FillingNext ==
    ASSUME Encoder, sent' = sent + 1
    PROVE  IF shard_count + 1 = DataShards THEN Filling' = Filling + 1 /\ sent' % DataShards = 0
                                           ELSE Filling' = Filling /\ sent' % DataShards = shard_count + 1
  <1>1. Filling \in Nat /\ shard_count \in 0..(DataShards - 1) /\ DataShards \in Nat \ {0}
        /\ sent = DataShards * Filling + shard_count /\ DataShards * Filling \in Int
    BY FillingFacts, Numbers, Times DEF Encoder
  <1>2. CASE shard_count + 1 = DataShards
    <2>1. DataShards * (Filling + 1) + 0 = sent + 1 /\ Filling + 1 \in Int /\ 0 \in 0..(DataShards - 1)
      BY <1>1, <1>2, Times
    <2>2. (sent + 1) % DataShards = 0 /\ (sent + 1) \div DataShards = Filling + 1
      BY <1>1, <2>1, ModUnique, Zenon
    <2>3. QED
      BY <1>2, <2>2 DEF Filling
  <1>3. CASE shard_count + 1 # DataShards
    <2>1. DataShards * Filling + (shard_count + 1) = sent + 1 /\ Filling \in Int
          /\ shard_count + 1 \in 0..(DataShards - 1)
      BY <1>1, <1>3
    <2>2. (sent + 1) % DataShards = shard_count + 1 /\ (sent + 1) \div DataShards = Filling
      BY <1>1, <2>1, ModUnique, Zenon
    <2>3. QED
      BY <1>3, <2>2 DEF Filling
  <1>4. QED
    BY <1>2, <1>3

\* What one encode sends.
LEMMA EncodeSends ==
    ASSUME FecInv, NEW timely \in BOOLEAN, Encode(timely)
    PROVE  \E last \in Nat :
               /\ NextPlace <= last /\ last - heard <= MaxOutage
               /\ last < NextPlace'
               /\ \A p \in wire' :
                     \/ /\ p \in wire /\ last - Place(p.shard) <= MaxDelay
                     \/ \E i \in Indices :
                           /\ p = [seq |-> SeqOf(Filling, i), shard |-> Shard(Filling, i)]
                           /\ ShardSize * Filling + i <= last
                           /\ last - (ShardSize * Filling + i) <= MaxDelay
  <1> DEFINE full == shard_count + 1 = DataShards
             parity == full /\ timely
             last == Filling * ShardSize + shard_count + (IF parity THEN ParityShards ELSE 0)
             seal(k) == [seq |-> (next_seq + k) % Paws, shard |-> Shard(Filling, shard_count + k)]
  <1>1. Encoder
    BY DEF FecInv
  <1>2. /\ last - heard <= MaxOutage /\ sent' = sent + 1
        /\ shard_count' = IF full THEN 0 ELSE shard_count + 1
        /\ wire' = {p \in wire \cup ({seal(0)} \cup (IF parity THEN {seal(k) : k \in 1..ParityShards}
                                                             ELSE {})) :
                      last - Place(p.shard) <= MaxDelay}
    BY Zenon DEF Encode, Filling
  <1>3. /\ Filling \in Nat /\ shard_count \in 0..(DataShards - 1) /\ ShardSize * Filling \in Nat
        /\ NextPlace = ShardSize * Filling + shard_count
        /\ Filling * ShardSize = ShardSize * Filling
    BY <1>1, FillingFacts, Numbers DEF Encoder
  <1>4. last \in Nat /\ NextPlace <= last
    BY <1>3, Numbers
  <1>5. last < NextPlace'
    <2>1. NextPlace' = ShardSize * Filling' + shard_count'
      BY DEF NextPlace
    <2>2. CASE full
      <3>1. NextPlace' = ShardSize * (Filling + 1)
        BY <1>1, <1>2, <1>3, <2>1, <2>2, FillingNext, Numbers, Times
      <3>2. NextPlace' = ShardSize * Filling + ShardSize
        BY <1>3, <3>1, Numbers, Times
      <3>3. QED
        BY <1>3, <2>2, <3>2, Numbers DEF ShardSize
    <2>3. CASE ~full
      BY <1>1, <1>2, <1>3, <2>1, <2>3, FillingNext
    <2>4. QED
      BY <2>2, <2>3
  <1>2a. ASSUME NEW p \in wire'
         PROVE  /\ last - Place(p.shard) <= MaxDelay
                /\ p \in wire \/ \E k \in 0..ParityShards : p = seal(k) /\ (k = 0 \/ parity)
    <2> HIDE DEF last, seal, parity
    <2>1. 0 \in 0..ParityShards /\ 1..ParityShards \subseteq 0..ParityShards
      BY Numbers
    <2>2. QED
      BY <1>2, <2>1
  <1>6. ASSUME NEW k \in 0..ParityShards, k = 0 \/ parity
        PROVE  /\ shard_count + k \in Indices
               /\ seal(k) = [seq |-> SeqOf(Filling, shard_count + k), shard |-> Shard(Filling, shard_count + k)]
               /\ ShardSize * Filling + (shard_count + k) <= last
    <2>1. shard_count + k \in Indices /\ k \in Nat
      BY <1>3, <1>6, Numbers DEF Indices, ShardSize
    <2>2. (next_seq + k) % Paws = SeqOf(Filling, shard_count + k)
      BY <1>1, <2>1, SealedSeq
    <2>3. ShardSize * Filling + (shard_count + k) <= last
      BY <1>3, <1>6, Numbers
    <2>4. QED
      BY <2>1, <2>2, <2>3
  <1>7. ASSUME NEW p \in wire'
        PROVE  \/ /\ p \in wire /\ last - Place(p.shard) <= MaxDelay
               \/ \E i \in Indices :
                     /\ p = [seq |-> SeqOf(Filling, i), shard |-> Shard(Filling, i)]
                     /\ ShardSize * Filling + i <= last
                     /\ last - (ShardSize * Filling + i) <= MaxDelay
    <2>1. CASE p \in wire
      BY <1>2a, <2>1
    <2>2. CASE \E k \in 0..ParityShards : p = seal(k) /\ (k = 0 \/ parity)
      <3>1. PICK k \in 0..ParityShards : p = seal(k) /\ (k = 0 \/ parity)
        BY <2>2
      <3> DEFINE i == shard_count + k
      <3>2. /\ i \in Indices /\ p = [seq |-> SeqOf(Filling, i), shard |-> Shard(Filling, i)]
            /\ ShardSize * Filling + i <= last
        BY <1>6, <3>1
      <3>3. p.shard = Shard(Filling, i)
        BY <3>2
      <3>4. last - (ShardSize * Filling + i) <= MaxDelay
        BY <1>2a, <1>3, <3>2, <3>3, PlaceIs
      <3>5. QED
        BY <3>2, <3>4
    <2>3. QED
      BY <1>2a, <2>1, <2>2
  <1> HIDE DEF last, seal, parity
  <1>8. QED
    BY <1>2, <1>4, <1>5, <1>7


LEMMA EncodeKept ==
    ASSUME FecInv, NEW timely \in BOOLEAN, Encode(timely)
    PROVE  FecInv'
  <1>1. Encoder
    BY DEF FecInv
  <1>2. /\ sent' = sent + 1 /\ UNCHANGED decoderVars
        /\ shard_count' = IF shard_count + 1 = DataShards THEN 0 ELSE shard_count + 1
        /\ next_seq' = IF shard_count + 1 = DataShards
                       THEN (IF timely THEN (next_seq + 1 + ParityShards) % Paws
                                       ELSE SkipParity((next_seq + 1) % Paws))
                       ELSE (next_seq + 1) % Paws
    BY Zenon DEF Encode
  <1>3. /\ Filling \in Nat /\ shard_count \in 0..(DataShards - 1)
        /\ NextPlace = ShardSize * Filling + shard_count /\ NextPlace \in Nat
    BY <1>1, FillingFacts DEF Encoder
  <1>4. /\ shard_count' = sent' % DataShards /\ Filling <= Filling' /\ Filling' \in Nat
        /\ next_seq' = SeqOf(Filling', shard_count')
    <2>1. next_seq' = IF shard_count + 1 = DataShards THEN SeqOf(Filling + 1, 0)
                                                      ELSE SeqOf(Filling, shard_count + 1)
      BY <1>1, <1>2, NextNumber
    <2>2. QED
      BY <1>1, <1>2, <1>3, <2>1, FillingNext
  <1>5. PICK last \in Nat :
            /\ NextPlace <= last /\ last - heard <= MaxOutage
            /\ last < NextPlace'
            /\ \A p \in wire' :
                  \/ /\ p \in wire /\ last - Place(p.shard) <= MaxDelay
                  \/ \E i \in Indices :
                        /\ p = [seq |-> SeqOf(Filling, i), shard |-> Shard(Filling, i)]
                        /\ ShardSize * Filling + i <= last
                        /\ last - (ShardSize * Filling + i) <= MaxDelay
    BY EncodeSends
  <1>6. sent' \in Nat /\ NextPlace' \in Nat
    <2>1. sent' \in Nat
      BY <1>1, <1>2 DEF Encoder
    <2>2. shard_count' \in Nat
      BY <1>2, <1>3
    <2>3. QED
      BY <1>4, <2>1, <2>2, Numbers, Times DEF NextPlace
  <1>7. heard' = heard /\ heard \in Nat /\ heard <= NextPlace
    BY <1>1, <1>2 DEF Encoder, decoderVars
  <1>8. Encoder'
    BY <1>3, <1>4, <1>5, <1>6, <1>7 DEF Encoder
  <1>9. ASSUME NEW p \in wire' PROVE OnTheWay(p)'
    <2>1. SUFFICES \E g \in 0..Filling' : \E i \in Indices :
                       /\ p = [seq |-> SeqOf(g, i), shard |-> Shard(g, i)]
                       /\ ShardSize * g + i < NextPlace'
                       /\ (ShardSize * g + i) - heard <= MaxOutage
                       /\ heard - (ShardSize * g + i) <= MaxDelay
      BY <1>7 DEF OnTheWay
    <2>2. CASE p \in wire /\ last - Place(p.shard) <= MaxDelay
      <3>1. PICK g \in 0..Filling, i \in Indices :
                /\ p = [seq |-> SeqOf(g, i), shard |-> Shard(g, i)]
                /\ ShardSize * g + i < NextPlace
                /\ (ShardSize * g + i) - heard <= MaxOutage
        BY <2>2 DEF FecInv, OnTheWay
      <3>2. p.shard = Shard(g, i)
        BY <3>1
      <3>3. ShardSize * g + i \in Nat /\ Place(p.shard) = ShardSize * g + i /\ g \in 0..Filling'
        BY <1>3, <1>4, <3>2, PlaceIs
      <3>4. ShardSize * g + i < NextPlace' /\ heard - (ShardSize * g + i) <= MaxDelay
        BY <1>3, <1>5, <1>6, <1>7, <2>2, <3>1, <3>3, Numbers
      <3>5. QED
        BY <3>1, <3>3, <3>4
    <2>3. CASE \E i \in Indices :
                  /\ p = [seq |-> SeqOf(Filling, i), shard |-> Shard(Filling, i)]
                  /\ ShardSize * Filling + i <= last
                  /\ last - (ShardSize * Filling + i) <= MaxDelay
      <3>1. PICK i \in Indices :
                /\ p = [seq |-> SeqOf(Filling, i), shard |-> Shard(Filling, i)]
                /\ ShardSize * Filling + i <= last
                /\ last - (ShardSize * Filling + i) <= MaxDelay
        BY <2>3
      <3>2. ShardSize * Filling + i \in Nat /\ Filling \in 0..Filling'
        BY <1>3, <1>4, PlaceIs
      <3>3. /\ ShardSize * Filling + i < NextPlace'
            /\ (ShardSize * Filling + i) - heard <= MaxOutage
            /\ heard - (ShardSize * Filling + i) <= MaxDelay
        <4> DEFINE x == ShardSize * Filling + i
        <4>1. x \in Nat /\ x <= last /\ last - x <= MaxDelay
          BY <3>1, <3>2
        <4> HIDE DEF x
        <4>2. x < NextPlace' /\ x - heard <= MaxOutage /\ heard - x <= MaxDelay
          BY <1>3, <1>5, <1>6, <1>7, <4>1, Numbers
        <4>3. QED
          BY <4>2 DEF x
      <3>4. QED
        BY <3>1, <3>2, <3>3
    <2>4. QED
      BY <1>5, <2>2, <2>3
  <1>9a. Together'
    <2>1. ASSUME NEW p \in wire'
          PROVE  /\ Place(p.shard) \in Nat /\ Place(p.shard) <= last
                 /\ last - Place(p.shard) <= MaxDelay
      <3>1. CASE p \in wire /\ last - Place(p.shard) <= MaxDelay
        <4>1. PICK g \in 0..Filling, i \in Indices :
                  /\ p = [seq |-> SeqOf(g, i), shard |-> Shard(g, i)]
                  /\ ShardSize * g + i < NextPlace
          BY <3>1 DEF FecInv, OnTheWay
        <4>2. p.shard = Shard(g, i)
          BY <4>1
        <4>3. ShardSize * g + i \in Nat /\ Place(p.shard) = ShardSize * g + i
          BY <1>3, <4>2, PlaceIs
        <4>4. QED
          BY <1>3, <1>5, <3>1, <4>1, <4>3
      <3>2. CASE \E i \in Indices :
                    /\ p = [seq |-> SeqOf(Filling, i), shard |-> Shard(Filling, i)]
                    /\ ShardSize * Filling + i <= last
                    /\ last - (ShardSize * Filling + i) <= MaxDelay
        <4>1. PICK i \in Indices :
                  /\ p = [seq |-> SeqOf(Filling, i), shard |-> Shard(Filling, i)]
                  /\ ShardSize * Filling + i <= last
                  /\ last - (ShardSize * Filling + i) <= MaxDelay
          BY <3>2
        <4>2. p.shard = Shard(Filling, i)
          BY <4>1
        <4>3. ShardSize * Filling + i \in Nat /\ Place(p.shard) = ShardSize * Filling + i
          BY <1>3, <4>2, PlaceIs
        <4>4. QED
          BY <4>1, <4>3
      <3>3. QED
        BY <1>5, <3>1, <3>2
    <2>2. MaxDelay \in Nat
      BY Numbers
    <2>3. QED
      BY <2>1, <2>2 DEF Together
  <1>10. Decoder'
    BY <1>2 DEF FecInv, Decoder, Collecting, HoldsOf, Newest, decoderVars
  <1>11. output' \subseteq Given'
    <2>1. Given \subseteq Given'
      BY <1>3, <1>4 DEF Given
    <2>2. QED
      BY <1>2, <2>1 DEF FecInv, decoderVars
  <1>12. QED
    BY <1>8, <1>9, <1>9a, <1>10, <1>11 DEF FecInv

-----------------------------------------------------------------------------
(* decode.                                                                  *)

\* What decode computes for the i-th shard of group g.
OldSet(g) == IF g % Sets \in DOMAIN decode_sets THEN decode_sets[g % Sets] ELSE EmptySet
NewSet(g, i) == [OldSet(g) EXCEPT ![i] = Shard(g, i)]
Complete(g, i) == Cardinality(Present(NewSet(g, i))) >= DataShards
SetsThen(g, i) ==
    IF Complete(g, i) THEN Restrict(decode_sets, DOMAIN decode_sets \ {g % Sets})
    ELSE [k \in DOMAIN decode_sets \cup {g % Sets} |->
            IF k = g % Sets THEN NewSet(g, i) ELSE decode_sets[k]]
Newer(g) == TimeDiff((g % Sets) * ShardSize, newest_shard_id * ShardSize) > 0
HeardThen(g, i) == IF ShardSize * g + i > heard THEN ShardSize * g + i ELSE heard
Direct(g, i) == IF i < DataShards THEN {Shard(g, i)} ELSE {}
Yields(g, i) == Direct(g, i) \cup (IF Complete(g, i) THEN Recovered(NewSet(g, i)) ELSE {})

LEMMA DecodeDoes ==
    ASSUME NEW g \in Nat, NEW i \in Indices,
           Decode([seq |-> SeqOf(g, i), shard |-> Shard(g, i)])
    PROVE  /\ heard' = HeardThen(g, i) /\ UNCHANGED encoderVars
           /\ arrived' = Recent(arrived \cup {Shard(g, i)}, HeardThen(g, i))
           /\ \/ /\ OldSet(g)[i] # NoShard
                 /\ output' = Recent(output \cup Direct(g, i), HeardThen(g, i))
                                  \cup (output \cap {Garbage})
                 /\ UNCHANGED <<decode_sets, newest_shard_id>>
              \/ /\ OldSet(g)[i] = NoShard
                 /\ output' = Recent(output \cup Yields(g, i), HeardThen(g, i))
                                  \cup ((output \cup Yields(g, i)) \cap {Garbage})
                 /\ newest_shard_id' = IF Newer(g) THEN g % Sets ELSE newest_shard_id
                 /\ decode_sets' = IF Newer(g) THEN DiscardOldShards(SetsThen(g, i), g % Sets)
                                               ELSE SetsThen(g, i)
  <1> DEFINE p == [seq |-> SeqOf(g, i), shard |-> Shard(g, i)]
  <1>1. p.seq % ShardSize = i /\ p.seq \div ShardSize = g % Sets
    <2>1. p.seq = SeqOf(g, i)
      BY Zenon
    <2>2. QED
      BY <2>1, SeqParts, Zenon
  <1>2. p.shard = Shard(g, i) /\ Place(p.shard) = ShardSize * g + i
    <2>1. p.shard = Shard(g, i)
      BY Zenon
    <2>2. QED
      BY <2>1, PlaceIs, Zenon
  <1>3. IsData(p.shard) <=> i < DataShards
    <2>1. Shard(g, i).index = i
      BY DEF Shard
    <2>2. QED
      BY <1>2, <2>1, Zenon DEF IsData
  <1>4. Decode(p)
    OBVIOUS
  <1> HIDE DEF p
  <1>5. HeardThen(g, i) = IF Place(p.shard) > heard THEN Place(p.shard) ELSE heard
    BY <1>2, Zenon DEF HeardThen
  <1>6. OldSet(g) = IF p.seq \div ShardSize \in DOMAIN decode_sets THEN decode_sets[p.seq \div ShardSize]
                    ELSE EmptySet
    BY <1>1, Zenon DEF OldSet
  <1>7. NewSet(g, i) = [OldSet(g) EXCEPT ![p.seq % ShardSize] = p.shard]
    BY <1>1, <1>2, Zenon DEF NewSet
  <1>8. Direct(g, i) = IF IsData(p.shard) THEN {p.shard} ELSE {}
    BY <1>2, <1>3, Zenon DEF Direct
  <1>9. heard' = HeardThen(g, i) /\ UNCHANGED encoderVars
        /\ arrived' = Recent(arrived \cup {Shard(g, i)}, HeardThen(g, i))
    <2>1. heard' = HeardThen(g, i)
      <3>1. heard' = IF Place(p.shard) > heard THEN Place(p.shard) ELSE heard
        BY <1>4, Zenon DEF Decode
      <3>2. QED
        BY <1>5, <3>1, Zenon
    <2>2. UNCHANGED encoderVars
      BY <1>4, Zenon DEF Decode
    <2>3. arrived' = Recent(arrived \cup {Shard(g, i)}, HeardThen(g, i))
      BY <1>2, <1>4, <1>5, Zenon DEF Decode
    <2>4. QED
      BY <2>1, <2>2, <2>3
  <1>10. CASE OldSet(g)[i] # NoShard
    <2>1. OldSet(g)[p.seq % ShardSize] # NoShard
      BY <1>1, <1>10, Zenon
    <2>2. /\ output' = Recent(output \cup Direct(g, i), HeardThen(g, i)) \cup (output \cap {Garbage})
          /\ UNCHANGED <<decode_sets, newest_shard_id>>
      BY <1>4, <1>5, <1>6, <1>8, <2>1, Zenon DEF Decode
    <2>3. QED
      BY <1>9, <1>10, <2>2
  <1>11. CASE OldSet(g)[i] = NoShard
    <2>1. OldSet(g)[p.seq % ShardSize] = NoShard
      BY <1>1, <1>11, Zenon
    <2>2. output' = Recent(output \cup Yields(g, i), HeardThen(g, i))
                        \cup ((output \cup Yields(g, i)) \cap {Garbage})
      BY <1>4, <1>5, <1>6, <1>7, <1>8, <2>1, Zenon DEF Decode, Yields, Complete
    <2>3. newest_shard_id' = IF Newer(g) THEN g % Sets ELSE newest_shard_id
      BY <1>1, <1>4, <1>6, <2>1, Zenon DEF Decode, Newer
    <2>4. decode_sets' = IF Newer(g) THEN DiscardOldShards(SetsThen(g, i), g % Sets)
                                     ELSE SetsThen(g, i)
      <3> DEFINE id == p.seq \div ShardSize
                 set == [OldSet(g) EXCEPT ![p.seq % ShardSize] = p.shard]
                 sets == IF Cardinality(Present(set)) >= DataShards
                         THEN Restrict(decode_sets, DOMAIN decode_sets \ {id})
                         ELSE [k \in DOMAIN decode_sets \cup {id} |->
                                 IF k = id THEN set ELSE decode_sets[k]]
      <3>1. decode_sets' = IF TimeDiff(id * ShardSize, newest_shard_id * ShardSize) > 0
                           THEN DiscardOldShards(sets, id) ELSE sets
        BY <1>4, <1>6, <2>1, Zenon DEF Decode
      <3>2. SetsThen(g, i) = sets
        <4>1. id = g % Sets /\ set = NewSet(g, i)
          BY <1>1, <1>7
        <4> HIDE DEF id, set
        <4>2. QED
          BY <4>1, Zenon DEF SetsThen, Complete
      <3>3. Newer(g) <=> TimeDiff(id * ShardSize, newest_shard_id * ShardSize) > 0
        BY <1>1, Zenon DEF Newer
      <3> HIDE DEF sets
      <3>4. QED
        BY <1>1, <3>1, <3>2, <3>3
    <2>5. QED
      BY <1>9, <1>11, <2>2, <2>3, <2>4
  <1>12. QED
    BY <1>10, <1>11


\* A datagram that may arrive now, as OnTheWay says.
Comes(g, i) ==
    /\ g \in 0..Filling /\ i \in Indices
    /\ (ShardSize * g + i) - heard <= MaxOutage
    /\ heard - (ShardSize * g + i) <= MaxDelay

LEMMA NewestFacts ==
    ASSUME heard \in Nat
    PROVE  /\ Newest \in Nat /\ ShardSize * Newest \in Nat
           /\ ShardSize * Newest <= heard /\ heard < ShardSize * Newest + ShardSize
  <1>1. /\ Newest \in Nat /\ heard % ShardSize \in 0..(ShardSize - 1)
        /\ heard = ShardSize * Newest + (heard % ShardSize)
    BY Numbers, NatQuotient DEF Newest
  <1>2. ShardSize * Newest \in Nat
    BY <1>1, Numbers, Times, SMTT(20)
  <1>3. QED
    BY <1>1, <1>2, Numbers

\* How far a datagram that comes may be from what is there.
LEMMA ComesNear ==
    ASSUME FecInv, NEW g, NEW i, Comes(g, i)
    PROVE  /\ g \in Nat /\ Newest \in Nat /\ heard \in Nat /\ i \in Nat
           /\ ShardSize * (g - Newest) <= MaxOutage + ShardSize
           /\ ShardSize * (Newest - g) <= MaxDelay + ShardSize
           /\ \A h \in 0..Newest :
                 ShardSize * (Newest - h) <= MaxDelay + ShardSize * MaxShardSets + ShardSize
                 => ShardSize * (g - h) <= Spread /\ ShardSize * (h - g) <= Spread
  <1>1. heard \in Nat /\ Filling \in Nat
    BY FillingFacts DEF FecInv, Encoder
  <1>2. /\ Newest \in Nat /\ ShardSize * Newest \in Nat
        /\ ShardSize * Newest <= heard /\ heard < ShardSize * Newest + ShardSize
    BY <1>1, NewestFacts
  <1>3. g \in Nat /\ i \in Nat /\ i < ShardSize /\ ShardSize * g \in Nat
    BY <1>1, PlaceIs DEF Comes
  <1>4. /\ ShardSize \in Nat /\ MaxOutage \in Nat /\ MaxDelay \in Nat /\ ShardSize * MaxShardSets \in Nat
        /\ Spread = MaxDelay + MaxOutage + ShardSize * MaxShardSets + 2 * ShardSize
    BY Numbers
  <1>5. /\ (ShardSize * g + i) - heard <= MaxOutage
        /\ heard - (ShardSize * g + i) <= MaxDelay
    BY DEF Comes
  <1>6. /\ ShardSize * g - ShardSize * Newest <= MaxOutage + ShardSize
        /\ ShardSize * Newest - ShardSize * g <= MaxDelay + ShardSize
    BY <1>1, <1>2, <1>3, <1>4, <1>5
  <1>7. ASSUME NEW h \in 0..Newest,
               ShardSize * (Newest - h) <= MaxDelay + ShardSize * MaxShardSets + ShardSize
        PROVE  ShardSize * (g - h) <= Spread /\ ShardSize * (h - g) <= Spread
    <2>1. h \in Int /\ g \in Int /\ Newest \in Int /\ h <= Newest
      BY <1>2, <1>3
    <2>2. /\ ShardSize * (g - h) = ShardSize * g - ShardSize * h
          /\ ShardSize * (h - g) = ShardSize * h - ShardSize * g
          /\ ShardSize * (Newest - h) = ShardSize * Newest - ShardSize * h
          /\ ShardSize * h \in Int /\ ShardSize * h <= ShardSize * Newest
      BY <1>4, <2>1, Times
    <2>3. QED
      BY <1>2, <1>3, <1>4, <1>6, <1>7, <2>2
  <1>8. /\ ShardSize * (g - Newest) = ShardSize * g - ShardSize * Newest
        /\ ShardSize * (Newest - g) = ShardSize * Newest - ShardSize * g
    BY <1>2, <1>3, <1>4, Times
  <1>9. QED
    BY <1>1, <1>2, <1>3, <1>6, <1>7, <1>8

LEMMA SetHasHolder ==
    ASSUME FecInv, NEW g, NEW i, Comes(g, i), g % Sets \in DOMAIN decode_sets
    PROVE  g <= Newest /\ HoldsOf(g, decode_sets[g % Sets])
  <1>1. PICK h \in 0..Newest : Collecting(h, g % Sets)
    BY DEF FecInv, Decoder
  <1>2. g \in Nat /\ h \in Nat /\ Newest \in Nat
    BY ComesNear
  <1>3. g = h
    BY <1>1, <1>2, ComesNear, SameGroup DEF Collecting
  <1>4. QED
    BY <1>1, <1>2, <1>3 DEF Collecting

LEMMA OldHolds ==
    ASSUME FecInv, NEW g, NEW i, Comes(g, i)
    PROVE  /\ HoldsOf(g, OldSet(g)) /\ HoldsOf(g, NewSet(g, i))
           /\ OldSet(g)[i] # NoShard => g <= Newest
           /\ Present(NewSet(g, i)) = Present(OldSet(g)) \cup {i}
  <1>1. g \in Nat /\ i \in Indices
    BY ComesNear DEF Comes
  <1>2. Shard(g, i) # NoShard
    BY <1>1, ShardsDiffer
  <1>3. HoldsOf(g, OldSet(g)) /\ (OldSet(g)[i] # NoShard => g <= Newest)
    <2>1. CASE g % Sets \in DOMAIN decode_sets
      BY <2>1, SetHasHolder DEF OldSet
    <2>2. CASE g % Sets \notin DOMAIN decode_sets
      BY <1>1, <2>2 DEF OldSet, EmptySet, HoldsOf
    <2>3. QED
      BY <2>1, <2>2
  <1>4. HoldsOf(g, NewSet(g, i))
    BY <1>1, <1>3 DEF HoldsOf, NewSet
  <1>5. Present(NewSet(g, i)) = Present(OldSet(g)) \cup {i}
    BY <1>1, <1>2, <1>3 DEF HoldsOf, NewSet, Present
  <1>6. QED
    BY <1>3, <1>4, <1>5

\* The newest group, and whether decode takes a set for a newer one.
LEMMA NewestThen ==
    ASSUME FecInv, NEW g, NEW i, Comes(g, i), heard' = HeardThen(g, i)
    PROVE  /\ heard' \in Nat /\ Newest' = IF g > Newest THEN g ELSE Newest
           /\ Newer(g) <=> g > Newest
           /\ heard' <= heard \/ heard' = ShardSize * g + i
  <1>1. heard \in Nat /\ g \in Nat /\ Newest \in Nat /\ i \in Indices
    BY ComesNear DEF Comes
  <1>2. /\ ShardSize * Newest \in Nat
        /\ ShardSize * Newest <= heard /\ heard < ShardSize * Newest + ShardSize
    BY <1>1, NewestFacts
  <1>3. ShardSize * g \in Nat /\ i \in 0..(ShardSize - 1) /\ ShardSize \in Nat \ {0}
        /\ ShardSize * g + i \in Nat
    BY <1>1, PlaceIs, Numbers
  <1>4. heard' \in Nat /\ (heard' <= heard \/ heard' = ShardSize * g + i)
    BY <1>1, <1>3 DEF HeardThen
  <1>5. Newest' = IF g > Newest THEN g ELSE Newest
    <2>1. CASE ShardSize * g + i > heard
      <3>1. heard' = ShardSize * g + i
        BY <2>1 DEF HeardThen
      <3>2. (ShardSize * g + i) \div ShardSize = g
        <4>1. g \in Int
          BY <1>1
        <4>2. QED
          BY <1>3, <4>1, ModUnique, Zenon
      <3>3. Newest' = g
        BY <3>1, <3>2 DEF Newest
      <3>4. ShardSize * Newest < ShardSize * (g + 1)
        BY <1>1, <1>2, <1>3, <2>1, Times
      <3>5. Newest < g + 1
        BY <1>1, <1>3, <3>4, Factor
      <3>6. QED
        BY <1>1, <3>3, <3>5
    <2>2. CASE ~(ShardSize * g + i > heard)
      <3>1. heard' = heard
        BY <2>2 DEF HeardThen
      <3>2. ShardSize * g < ShardSize * (Newest + 1)
        BY <1>1, <1>2, <1>3, <2>2, Times
      <3>3. g < Newest + 1
        BY <1>1, <1>3, <3>2, Factor
      <3>4. QED
        BY <1>1, <3>1, <3>3 DEF Newest
    <2>3. QED
      BY <2>1, <2>2
  <1>6. Newer(g) <=> g > Newest
    <2>1. newest_shard_id = Newest % Sets
      BY DEF FecInv, Decoder
    <2>2. ShardSize * (g - Newest) <= Spread /\ ShardSize * (Newest - g) <= Spread
      <3>1. /\ ShardSize * (g - Newest) <= MaxOutage + ShardSize
            /\ ShardSize * (Newest - g) <= MaxDelay + ShardSize
        BY ComesNear
      <3>2. ShardSize * (g - Newest) \in Int /\ ShardSize * (Newest - g) \in Int
        BY <1>1, <1>3, Times
      <3>3. QED
        BY <3>1, <3>2, Numbers
    <2>3. CASE Newest < g
      BY <1>1, <2>1, <2>2, <2>3, LaterGroup DEF Newer
    <2>4. CASE g < Newest
      <3> DEFINE t == TimeDiff((g % Sets) * ShardSize, (Newest % Sets) * ShardSize)
      <3>1. t < 0
        BY <1>1, <2>2, <2>4, LaterGroup
      <3>2. t \in Int
        BY <1>1, DiffInt
      <3> HIDE DEF t
      <3>3. ~(t > 0)
        BY <3>1, <3>2
      <3>4. QED
        BY <1>1, <2>1, <2>4, <3>3 DEF Newer, t
    <2>5. CASE g = Newest
      <3>1. (g % Sets) * ShardSize \in Int
        <4>1. g % Sets \in Nat
          BY <1>1, SetIdRange
        <4>2. QED
          BY <1>3, <4>1, SMTT(20)
      <3>2. TimeDiff((g % Sets) * ShardSize, (g % Sets) * ShardSize) = 0
        BY <3>1, SameGroupDiff
      <3>3. QED
        BY <1>1, <2>1, <2>5, <3>2 DEF Newer
    <2>6. QED
      BY <1>1, <2>3, <2>4, <2>5
  <1>7. QED
    BY <1>4, <1>5, <1>6


\* The sets after decode has put the shard into its set: that one, and sets
\* there were before.
LEMMA SetsThenHold ==
    ASSUME FecInv, NEW g, NEW i, Comes(g, i), NEW k \in DOMAIN SetsThen(g, i)
    PROVE  \/ k = g % Sets /\ SetsThen(g, i)[k] = NewSet(g, i) /\ HoldsOf(g, SetsThen(g, i)[k])
              /\ ~Complete(g, i)
           \/ \E h \in 0..Newest : Collecting(h, k) /\ HoldsOf(h, SetsThen(g, i)[k])
  <1>1. HoldsOf(g, NewSet(g, i))
    BY OldHolds
  <1>2. CASE Complete(g, i)
    <2>1. k \in DOMAIN decode_sets /\ SetsThen(g, i)[k] = decode_sets[k]
      BY <1>2 DEF SetsThen, Restrict
    <2>2. PICK h \in 0..Newest : Collecting(h, k)
      BY <2>1 DEF FecInv, Decoder
    <2>3. QED
      BY <2>1, <2>2 DEF Collecting
  <1>3. CASE ~Complete(g, i)
    <2>1. CASE k = g % Sets
      <3>1. SetsThen(g, i)[k] = NewSet(g, i)
        BY <1>3, <2>1 DEF SetsThen
      <3>2. QED
        BY <1>1, <1>3, <2>1, <3>1
    <2>2. CASE k # g % Sets
      <3>1. k \in DOMAIN decode_sets /\ SetsThen(g, i)[k] = decode_sets[k]
        BY <1>3, <2>2 DEF SetsThen
      <3>2. PICK h \in 0..Newest : Collecting(h, k)
        BY <3>1 DEF FecInv, Decoder
      <3>3. QED
        BY <3>1, <3>2 DEF Collecting
    <2>3. QED
      BY <2>1, <2>2
  <1>4. QED
    BY <1>2, <1>3

LEMMA DecoderKept ==
    ASSUME FecInv, NEW g, NEW i, Comes(g, i), heard' = HeardThen(g, i),
           newest_shard_id' = IF Newer(g) THEN g % Sets ELSE newest_shard_id,
           decode_sets' = IF Newer(g) THEN DiscardOldShards(SetsThen(g, i), g % Sets)
                                      ELSE SetsThen(g, i)
    PROVE  Decoder'
  <1>1. /\ g \in Nat /\ Newest \in Nat /\ Newest' = IF g > Newest THEN g ELSE Newest
        /\ Newer(g) <=> g > Newest
        /\ newest_shard_id = Newest % Sets
    BY ComesNear, NewestThen DEF FecInv, Decoder
  <1>2. newest_shard_id' = Newest' % Sets
    BY <1>1
  <1>3. /\ ShardSize \in Nat /\ MaxDelay \in Nat /\ ShardSize * MaxShardSets \in Nat
        /\ MaxShardSets * ShardSize = ShardSize * MaxShardSets
        /\ ShardSize * 0 = 0
    BY Numbers
  <1>4. ASSUME NEW k \in DOMAIN decode_sets'
        PROVE  \E h \in 0..Newest' : Collecting(h, k)'
    <2>1. k \in DOMAIN SetsThen(g, i) /\ decode_sets'[k] = SetsThen(g, i)[k]
      BY DEF DiscardOldShards, Restrict
    <2>2. SUFFICES \E h \in 0..Newest' :
              /\ k = h % Sets /\ HoldsOf(h, SetsThen(g, i)[k])
              /\ ShardSize * (Newest' - h) <= MaxDelay + ShardSize * MaxShardSets + ShardSize
      BY <2>1 DEF Collecting, HoldsOf
    <2>3. CASE k = g % Sets /\ HoldsOf(g, SetsThen(g, i)[k])
      <3>1. CASE g > Newest
        BY <1>1, <1>3, <2>3, <3>1
      <3>2. CASE ~(g > Newest)
        <4>1. ShardSize * (Newest - g) <= MaxDelay + ShardSize
          BY ComesNear
        <4>2. ShardSize * (Newest - g) \in Int
          BY <1>1, <1>3, Times
        <4>3. ShardSize * (Newest - g) <= MaxDelay + ShardSize * MaxShardSets + ShardSize
          BY <1>3, <4>1, <4>2
        <4>4. QED
          BY <1>1, <2>3, <3>2, <4>3
      <3>3. QED
        BY <3>1, <3>2
    <2>4. CASE \E h \in 0..Newest : Collecting(h, k) /\ HoldsOf(h, SetsThen(g, i)[k])
      <3>1. PICK h \in 0..Newest : Collecting(h, k) /\ HoldsOf(h, SetsThen(g, i)[k])
        BY <2>4
      <3>2. CASE ~(g > Newest)
        BY <1>1, <3>1, <3>2 DEF Collecting
      <3>3. CASE g > Newest
        <4>1. h \in Nat /\ h < g /\ k = h % Sets /\ h \in 0..Newest'
          BY <1>1, <3>1, <3>3 DEF Collecting
        <4>2. ShardSize * (g - h) <= Spread
          BY <1>1, <3>1, ComesNear DEF Collecting
        <4>3. TimeDiff((g % Sets) * ShardSize, k * ShardSize) <= MaxShardSets * ShardSize
          BY <1>1, <3>3 DEF DiscardOldShards, Restrict
        <4>4. TimeDiff((g % Sets) * ShardSize, k * ShardSize) >= ShardSize * (g - h)
          BY <1>1, <4>1, <4>2, LaterGroup
        <4>5. ShardSize * (g - h) <= MaxDelay + ShardSize * MaxShardSets + ShardSize
          <5> DEFINE t == TimeDiff((g % Sets) * ShardSize, k * ShardSize)
          <5>1. t \in Int
            BY <1>1, <4>1, DiffInt
          <5>2. ShardSize * (g - h) \in Int
            BY <1>1, <1>3, <4>1, Times
          <5> HIDE DEF t
          <5>3. t <= MaxShardSets * ShardSize /\ t >= ShardSize * (g - h)
            BY <4>3, <4>4 DEF t
          <5>4. QED
            BY <1>3, <5>1, <5>2, <5>3
        <4>6. Newest' = g
          BY <1>1, <3>3
        <4>7. QED
          BY <3>1, <4>1, <4>5, <4>6
      <3>4. QED
        BY <3>2, <3>3
    <2>5. QED
      BY <2>1, <2>3, <2>4, SetsThenHold
  <1>5. QED
    BY <1>2, <1>4 DEF Decoder

\* What decode puts out besides what it put out before.
LEMMA YieldsGiven ==
    ASSUME FecInv, NEW g, NEW i, Comes(g, i)
    PROVE  /\ Direct(g, i) \subseteq Given /\ Yields(g, i) \subseteq Given
           /\ Garbage \notin Given
  <1>1. g \in Nat /\ i \in Nat /\ g \in 0..Filling /\ Filling \in Nat
    BY ComesNear, FillingFacts DEF Comes, FecInv, Encoder
  <1>2. Direct(g, i) \subseteq Given
    BY <1>1, Numbers DEF Direct, Given
  <1>3. Complete(g, i) => Recovered(NewSet(g, i)) \subseteq Given
    <2>1. SUFFICES ASSUME Complete(g, i) PROVE Recovered(NewSet(g, i)) \subseteq Given
      OBVIOUS
    <2>2. Recovered(NewSet(g, i)) = {Shard(g, j) : j \in (0..(DataShards - 1)) \ Present(NewSet(g, i))}
      BY <1>1, <2>1, OldHolds, RecoveredIs DEF Complete
    <2>3. QED
      BY <1>1, <2>2 DEF Given
  <1>4. Garbage \notin Given
    BY <1>1, ShardsDiffer DEF Given
  <1>5. QED
    BY <1>2, <1>3, <1>4 DEF Yields

LEMMA DecodeKept ==
    ASSUME FecInv, NEW p \in wire, Decode(p)
    PROVE  FecInv'
  <1>1. PICK g \in 0..Filling, i \in Indices :
            /\ p = [seq |-> SeqOf(g, i), shard |-> Shard(g, i)]
            /\ ShardSize * g + i < NextPlace
            /\ (ShardSize * g + i) - heard <= MaxOutage
            /\ heard - (ShardSize * g + i) <= MaxDelay
    BY DEF FecInv, OnTheWay
  <1>2. Comes(g, i)
    BY <1>1 DEF Comes
  <1>3. g \in Nat /\ i \in Nat /\ Filling \in Nat /\ heard \in Nat /\ ShardSize * g + i \in Nat
    BY <1>2, ComesNear, PlaceIs, FillingFacts DEF FecInv, Encoder
  <1>4. /\ heard' = HeardThen(g, i) /\ UNCHANGED encoderVars
        /\ \/ /\ OldSet(g)[i] # NoShard
              /\ output' = Recent(output \cup Direct(g, i), HeardThen(g, i))
                               \cup (output \cap {Garbage})
              /\ UNCHANGED <<decode_sets, newest_shard_id>>
           \/ /\ OldSet(g)[i] = NoShard
              /\ output' = Recent(output \cup Yields(g, i), HeardThen(g, i))
                               \cup ((output \cup Yields(g, i)) \cap {Garbage})
              /\ newest_shard_id' = IF Newer(g) THEN g % Sets ELSE newest_shard_id
              /\ decode_sets' = IF Newer(g) THEN DiscardOldShards(SetsThen(g, i), g % Sets)
                                            ELSE SetsThen(g, i)
    BY <1>1, <1>3, DecodeDoes
  <1>5. UNCHANGED <<sent, wire, shard_count, next_seq, Filling, NextPlace, Given>>
    BY <1>4 DEF encoderVars, Filling, NextPlace, Given
  <1>6. Newest' = (IF g > Newest THEN g ELSE Newest) /\ heard' \in Nat
        /\ (heard' = heard \/ heard' = ShardSize * g + i) /\ heard <= heard'
    BY <1>2, <1>3, <1>4, NewestThen DEF HeardThen
  <1>7. Encoder'
    <2>1. NextPlace \in Nat /\ heard <= NextPlace
      BY FillingFacts DEF FecInv, Encoder
    <2>2. heard' <= NextPlace'
      BY <1>1, <1>3, <1>5, <1>6, <2>1
    <2>3. QED
      BY <1>5, <1>6, <2>2 DEF FecInv, Encoder, SeqOf
  <1>8. ASSUME NEW q \in wire' PROVE OnTheWay(q)'
    <2>1. PICK gq \in 0..Filling, iq \in Indices :
              /\ q = [seq |-> SeqOf(gq, iq), shard |-> Shard(gq, iq)]
              /\ ShardSize * gq + iq < NextPlace
              /\ (ShardSize * gq + iq) - heard <= MaxOutage
              /\ heard - (ShardSize * gq + iq) <= MaxDelay
      BY <1>5 DEF FecInv, OnTheWay
    <2>2. ShardSize * gq + iq \in Nat
      BY <1>3, PlaceIs
    <2>3. (ShardSize * g + i) - (ShardSize * gq + iq) <= MaxDelay
      <3>1. p.shard = Shard(g, i) /\ q.shard = Shard(gq, iq) /\ q \in wire
        BY <1>1, <1>5, <2>1
      <3>2. Place(p.shard) = ShardSize * g + i /\ Place(q.shard) = ShardSize * gq + iq
        BY <1>3, <3>1, PlaceIs
      <3>3. QED
        BY <3>1, <3>2 DEF FecInv, Together
    <2>4. MaxOutage \in Nat
      BY Numbers
    <2>5. (ShardSize * gq + iq) - heard' <= MaxOutage /\ heard' - (ShardSize * gq + iq) <= MaxDelay
      <3> DEFINE x == ShardSize * gq + iq
                 y == ShardSize * g + i
      <3> HIDE DEF x, y
      <3>1. x \in Nat /\ y \in Nat /\ y - x <= MaxDelay /\ x - heard <= MaxOutage /\ heard - x <= MaxDelay
            /\ (heard' = heard \/ heard' = y) /\ heard <= heard' /\ heard \in Nat
        BY <1>3, <1>6, <2>1, <2>2, <2>3 DEF x, y
      <3>2. x - heard' <= MaxOutage /\ heard' - x <= MaxDelay
        <4>1. CASE heard' = heard
          BY <3>1, <4>1
        <4>2. CASE heard' = y
          BY <2>4, <3>1, <4>2
        <4>3. QED
          BY <3>1, <4>1, <4>2
      <3>3. QED
        BY <3>2 DEF x
    <2>6. QED
      BY <1>5, <2>1, <2>5 DEF OnTheWay
  <1>8a. Together'
    BY <1>5 DEF FecInv, Together
  <1>9. Decoder'
    <2>1. CASE OldSet(g)[i] # NoShard
      <3>1. g <= Newest /\ Newest \in Nat
        BY <1>2, <2>1, OldHolds, ComesNear
      <3>2. Newest' = Newest
        BY <1>3, <1>6, <3>1
      <3>3. UNCHANGED <<decode_sets, newest_shard_id>>
        BY <1>4, <2>1
      <3>4. QED
        BY <3>2, <3>3 DEF FecInv, Decoder, Collecting, HoldsOf
    <2>2. CASE OldSet(g)[i] = NoShard
      BY <1>2, <1>4, <2>2, DecoderKept
    <2>3. QED
      BY <2>1, <2>2
  <1>10. output' \subseteq Given'
    BY <1>2, <1>4, <1>5, YieldsGiven DEF FecInv, Recent
  <1>11. QED
    BY <1>7, <1>8, <1>8a, <1>9, <1>10 DEF FecInv


(* What is under way, what is being collected and what came out, at every   *)
(* point of every run of encode and decode.                                 *)
THEOREM FecInvariant == Spec => []FecInv
  <1>1. FecInv /\ [Next]_vars => FecInv'
    <2>1. SUFFICES ASSUME FecInv, [Next]_vars PROVE FecInv'
      OBVIOUS
    <2>2. CASE UNCHANGED vars
      BY <2>1, <2>2 DEF FecInv, Encoder, OnTheWay, Together, Decoder, Collecting, HoldsOf, Given,
         Filling, NextPlace, Newest, vars, encoderVars, decoderVars
    <2>3. QED
      BY <2>1, <2>2, EncodeKept, DecodeKept DEF Next
  <1>2. QED
    BY <1>1, FecInit, PTL DEF Spec

(* decode gives KCP only packets that encode was given, across the wrap of  *)
(* the sequence numbers, whatever is lost, repeated or reordered.           *)
THEOREM FecGenuine == Spec => []Genuine
  <1>1. FecInv => Genuine
    BY DEF FecInv, Given, Filling, Genuine
  <1>2. QED
    BY <1>1, FecInvariant, PTL

-----------------------------------------------------------------------------
(* Recovery.  For each recent group: the data shards that arrived came out, *)
(* and as long as not all its data has, its set holds what arrived of it.   *)

RecentGroup(g) == g \in 0..Newest /\ g > Newest - MaxShardSets

ArrivedOf(g) == {i \in Indices : Shard(g, i) \in arrived}

AllOut(g) == \A i \in 0..(DataShards - 1) : Shard(g, i) \in output

Follows(g) ==
    /\ \A i \in ArrivedOf(g) : i < DataShards => Shard(g, i) \in output
    /\ Present(OldSet(g)) \subseteq ArrivedOf(g)
    /\ \/ AllOut(g)
       \/ Present(OldSet(g)) = ArrivedOf(g) /\ Cardinality(ArrivedOf(g)) < DataShards

RecoveryInv ==
    /\ arrived \subseteq {Shard(g, i) : g \in 0..Newest, i \in Indices}
    /\ \A g \in 0..Newest : RecentGroup(g) => Follows(g)

LEMMA EmptyPresent == Present(EmptySet) = {} /\ Cardinality({}) < DataShards
  BY FS_EmptySet, Numbers DEF Present, EmptySet

LEMMA ShardsEqual ==
    ASSUME NEW g, NEW h, NEW i, NEW j, Shard(g, i) = Shard(h, j)
    PROVE  g = h /\ i = j
  BY DEF Shard

\* Nothing is known of a group before its first datagram.
LEMMA NewGroup ==
    ASSUME RecoveryInv, Newest \in Nat, NEW g \in Nat, g > Newest, g % Sets \notin DOMAIN decode_sets
    PROVE  ArrivedOf(g) = {} /\ Present(OldSet(g)) = {} /\ Follows(g)
  <1>1. ArrivedOf(g) = {}
    <2>1. SUFFICES ASSUME NEW i \in Indices, Shard(g, i) \in arrived PROVE FALSE
      BY DEF ArrivedOf
    <2>2. PICK h \in 0..Newest, j \in Indices : Shard(g, i) = Shard(h, j)
      BY <2>1 DEF RecoveryInv
    <2>3. g = h
      BY <2>2, ShardsEqual
    <2>4. QED
      BY <2>3
  <1>2. Present(OldSet(g)) = {}
    BY EmptyPresent DEF OldSet
  <1>3. QED
    BY <1>1, <1>2, EmptyPresent DEF Follows

\* The set of another recent group is what it was.
LEMMA OthersKept ==
    ASSUME FecInv, RecoveryInv, NEW g, NEW i, Comes(g, i), Newest' = (IF g > Newest THEN g ELSE Newest),
           Newer(g) <=> g > Newest,
           decode_sets' = (IF Newer(g) THEN DiscardOldShards(SetsThen(g, i), g % Sets)
                                       ELSE SetsThen(g, i)),
           NEW h \in 0..Newest', h # g, h > Newest' - MaxShardSets
    PROVE  /\ h <= Newest => OldSet(h)' = OldSet(h)
           /\ h > Newest => h % Sets \notin DOMAIN decode_sets /\ OldSet(h)' = EmptySet
  <1>1. /\ g \in Nat /\ Newest \in Nat /\ h \in Nat /\ h <= Newest'
        /\ ShardSize * (g - Newest) <= MaxOutage + ShardSize
        /\ ShardSize * (Newest - g) <= MaxDelay + ShardSize
    BY ComesNear
  <1>2. /\ ShardSize \in Nat /\ ShardSize # 0 /\ MaxShardSets \in Nat
        /\ ShardSize * MaxShardSets \in Nat /\ MaxDelay \in Nat /\ MaxOutage \in Nat
        /\ Spread = MaxDelay + MaxOutage + ShardSize * MaxShardSets + 2 * ShardSize
        /\ MaxShardSets * ShardSize = ShardSize * MaxShardSets
    BY Numbers
  <1>3. /\ ShardSize * (g - h) \in Int /\ ShardSize * (h - g) \in Int
        /\ ShardSize * (g - Newest) \in Int /\ ShardSize * (Newest - g) \in Int
        /\ ShardSize * (Newest - h) \in Int
    BY <1>1, <1>2, Times
  <1>4. ShardSize * (g - h) <= Spread /\ ShardSize * (h - g) <= Spread
    <2>1. CASE h <= Newest
      <3>1. Newest - h <= MaxShardSets /\ h \in 0..Newest
        BY <1>1, <1>2, <2>1
      <3>2. ShardSize * (Newest - h) <= ShardSize * MaxShardSets
        BY <1>1, <1>2, <3>1, Times
      <3>3. ShardSize * (Newest - h) <= MaxDelay + ShardSize * MaxShardSets + ShardSize
        BY <1>2, <1>3, <3>2
      <3>4. QED
        BY <3>1, <3>3, ComesNear
    <2>2. CASE h > Newest
      <3>1. g - h <= g - Newest /\ h - g <= 0
        BY <1>1, <2>2
      <3>2. ShardSize * (g - h) <= ShardSize * (g - Newest) /\ ShardSize * (h - g) <= ShardSize * 0
        BY <1>1, <1>2, <3>1, Times
      <3>3. QED
        BY <1>1, <1>2, <1>3, <3>2
    <2>3. QED
      BY <1>1, <2>1, <2>2
  <1>5. h % Sets # g % Sets
    BY <1>1, <1>4, SameGroup
  <1>6. h % Sets \in DOMAIN SetsThen(g, i) <=> h % Sets \in DOMAIN decode_sets
    BY <1>5 DEF SetsThen, Restrict
  <1>7. h % Sets \in DOMAIN decode_sets => SetsThen(g, i)[h % Sets] = decode_sets[h % Sets]
    BY <1>5 DEF SetsThen, Restrict
  <1>8. CASE h > Newest
    <2>1. h % Sets \notin DOMAIN decode_sets
      <3>1. SUFFICES ASSUME h % Sets \in DOMAIN decode_sets PROVE FALSE
        OBVIOUS
      <3>2. PICK k \in 0..Newest : Collecting(k, h % Sets)
        BY <3>1 DEF FecInv, Decoder
      <3>3. k \in Nat /\ k < h /\ h <= g
        BY <1>1, <1>8
      <3>4. ShardSize * (g - k) <= Spread
        BY <3>2, ComesNear DEF Collecting
      <3>5. /\ ShardSize * (h - k) <= ShardSize * (g - k) /\ ShardSize * (k - h) <= ShardSize * 0
            /\ ShardSize * (h - k) \in Int /\ ShardSize * (g - k) \in Int /\ ShardSize * (k - h) \in Int
        <4>1. h - k <= g - k /\ k - h <= 0 /\ h - k \in Int /\ g - k \in Int /\ k - h \in Int
          BY <1>1, <3>3
        <4>2. QED
          BY <1>2, <4>1, Times
      <3>6. h % Sets = k % Sets
        BY <3>2 DEF Collecting
      <3>7. h = k
        BY <1>1, <1>2, <3>3, <3>4, <3>5, <3>6, SameGroup
      <3>8. QED
        BY <1>1, <3>3, <3>7
    <2>2. h % Sets \notin DOMAIN decode_sets'
      BY <1>6, <2>1 DEF DiscardOldShards, Restrict
    <2>3. QED
      BY <1>1, <1>8, <2>1, <2>2 DEF OldSet
  <1>9. CASE h <= Newest
    <2>1. CASE h % Sets \notin DOMAIN decode_sets
      <3>1. h % Sets \notin DOMAIN decode_sets'
        BY <1>6, <2>1 DEF DiscardOldShards, Restrict
      <3>2. QED
        BY <1>1, <1>9, <2>1, <3>1 DEF OldSet
    <2>2. CASE h % Sets \in DOMAIN decode_sets
      <3>1. Newer(g) => TimeDiff((g % Sets) * ShardSize, (h % Sets) * ShardSize) <= MaxShardSets * ShardSize
        <4>1. SUFFICES ASSUME g > Newest
                       PROVE  TimeDiff((g % Sets) * ShardSize, (h % Sets) * ShardSize) <= MaxShardSets * ShardSize
          OBVIOUS
        <4>2. h < g /\ g - h + 1 <= MaxShardSets
          BY <1>1, <1>2, <1>9, <4>1
        <4>3. ShardSize * ((g - h) + 1) <= ShardSize * MaxShardSets
          BY <1>1, <1>2, <4>2, Times
        <4>4. ShardSize * ((g - h) + 1) = ShardSize * (g - h) + ShardSize
          BY <1>1, <1>2, Times
        <4>5. TimeDiff((g % Sets) * ShardSize, (h % Sets) * ShardSize) <= ShardSize * (g - h) + ShardSize
          BY <1>1, <1>4, <4>2, LaterGroup
        <4> DEFINE t == TimeDiff((g % Sets) * ShardSize, (h % Sets) * ShardSize)
        <4>6. t \in Int
          BY <1>1, DiffInt
        <4> HIDE DEF t
        <4>7. t <= ShardSize * (g - h) + ShardSize
          BY <4>5 DEF t
        <4>8. t <= MaxShardSets * ShardSize
          BY <1>2, <1>3, <4>3, <4>4, <4>6, <4>7
        <4>9. QED
          BY <4>8 DEF t
      <3>2. h % Sets \in DOMAIN decode_sets' /\ decode_sets'[h % Sets] = decode_sets[h % Sets]
        BY <1>6, <1>7, <2>2, <3>1 DEF DiscardOldShards, Restrict
      <3>3. QED
        BY <1>1, <1>9, <2>2, <3>2 DEF OldSet
    <2>3. QED
      BY <2>1, <2>2
  <1>10. QED
    BY <1>1, <1>8, <1>9


\* What decode leaves of what arrived and of what came out, in recent groups.
LEMMA RecentKept ==
    ASSUME FecInv, NEW g, NEW i, Comes(g, i), heard' = HeardThen(g, i),
           arrived' = Recent(arrived \cup {Shard(g, i)}, HeardThen(g, i)),
           NEW h \in Nat, h > Newest' - MaxShardSets
    PROVE  /\ h # g => ArrivedOf(h)' = ArrivedOf(h)
           /\ h = g => ArrivedOf(h)' = ArrivedOf(h) \cup {i}
           /\ \A S, j : Shard(h, j) \in S => Shard(h, j) \in Recent(S, HeardThen(g, i))
  <1>1. Newest' = HeardThen(g, i) \div ShardSize
    BY DEF Newest
  <1>2. \A S, j : Shard(h, j) \in S => Shard(h, j) \in Recent(S, HeardThen(g, i))
    BY <1>1 DEF Recent, Shard
  <1>3. \A j : Shard(h, j) \in arrived' <=> Shard(h, j) \in arrived \/ Shard(h, j) = Shard(g, i)
    BY <1>2 DEF Recent
  <1>4. \A j : Shard(h, j) = Shard(g, i) <=> h = g /\ j = i
    BY ShardsEqual
  <1>5. i \in Indices
    BY DEF Comes
  <1>6. QED
    BY <1>2, <1>3, <1>4, <1>5 DEF ArrivedOf

\* The group of the datagram: it is recovered as soon as enough of it arrived.
LEMMA OwnGroup ==
    ASSUME FecInv, NEW g, NEW i, Comes(g, i), Follows(g), Newest' = (IF g > Newest THEN g ELSE Newest),
           heard' = HeardThen(g, i), g > Newest' - MaxShardSets,
           arrived' = Recent(arrived \cup {Shard(g, i)}, HeardThen(g, i)),
           OldSet(g)[i] = NoShard,
           output' = Recent(output \cup Yields(g, i), HeardThen(g, i))
                         \cup ((output \cup Yields(g, i)) \cap {Garbage}),
           decode_sets' = (IF Newer(g) THEN DiscardOldShards(SetsThen(g, i), g % Sets)
                                       ELSE SetsThen(g, i))
    PROVE  Follows(g)'
  <1>1. g \in Nat /\ i \in Indices
    BY ComesNear DEF Comes
  <1>2. /\ ArrivedOf(g)' = ArrivedOf(g) \cup {i}
        /\ \A S, j : Shard(g, j) \in S => Shard(g, j) \in Recent(S, HeardThen(g, i))
    BY <1>1, RecentKept
  <1>3. Present(NewSet(g, i)) = Present(OldSet(g)) \cup {i} /\ HoldsOf(g, NewSet(g, i))
    BY OldHolds
  <1>4. \A j : Shard(g, j) \in output \cup Yields(g, i) => Shard(g, j) \in output'
    BY <1>2
  <1>5. i < DataShards => Shard(g, i) \in Yields(g, i)
    BY DEF Yields, Direct
  <1>6. \A j \in ArrivedOf(g)' : j < DataShards => Shard(g, j) \in output'
    BY <1>2, <1>4, <1>5 DEF Follows
  <1>7. CASE Complete(g, i)
    <2>1. Recovered(NewSet(g, i)) = {Shard(g, j) : j \in (0..(DataShards - 1)) \ Present(NewSet(g, i))}
      BY <1>1, <1>3, <1>7, RecoveredIs DEF Complete
    <2>2. ASSUME NEW j \in 0..(DataShards - 1) PROVE Shard(g, j) \in output'
      <3>1. CASE j \in Present(NewSet(g, i))
        <4>1. j \in ArrivedOf(g)' /\ j < DataShards
          BY <1>2, <1>3, <3>1, Numbers DEF Follows
        <4>2. QED
          BY <1>6, <4>1
      <3>2. CASE j \notin Present(NewSet(g, i))
        <4>1. Shard(g, j) \in Recovered(NewSet(g, i))
          BY <2>1, <3>2
        <4>2. Shard(g, j) \in Yields(g, i)
          BY <1>7, <4>1 DEF Yields
        <4>3. QED
          BY <1>4, <4>2
      <3>3. QED
        BY <3>1, <3>2
    <2>3. g % Sets \notin DOMAIN decode_sets'
      BY <1>7 DEF SetsThen, DiscardOldShards, Restrict
    <2>4. Present(OldSet(g))' = {}
      <3>1. OldSet(g)' = EmptySet
        BY <2>3 DEF OldSet
      <3>2. QED
        BY <3>1, EmptyPresent DEF Present
    <2>5. AllOut(g)'
      BY <2>2 DEF AllOut
    <2>6. QED
      BY <1>6, <2>4, <2>5 DEF Follows
  <1>8. CASE ~Complete(g, i)
    <2>1. g % Sets \in DOMAIN SetsThen(g, i) /\ SetsThen(g, i)[g % Sets] = NewSet(g, i)
      BY <1>8 DEF SetsThen
    <2>2. TimeDiff((g % Sets) * ShardSize, (g % Sets) * ShardSize) <= MaxShardSets * ShardSize
      <3>1. g % Sets \in Nat /\ ShardSize \in Nat /\ MaxShardSets * ShardSize \in Nat
        BY <1>1, SetIdRange, Numbers
      <3>2. (g % Sets) * ShardSize \in Int
        BY <3>1, SMTT(20)
      <3>3. QED
        BY <3>1, <3>2, SameGroupDiff
    <2>3. g % Sets \in DOMAIN decode_sets' /\ decode_sets'[g % Sets] = NewSet(g, i)
      BY <2>1, <2>2 DEF DiscardOldShards, Restrict
    <2>4. OldSet(g)' = NewSet(g, i)
      BY <2>3 DEF OldSet
    <2>5. Present(OldSet(g))' = Present(OldSet(g)) \cup {i}
      BY <1>3, <2>4 DEF Present
    <2>6. Present(OldSet(g))' \subseteq ArrivedOf(g)'
      BY <1>2, <2>5 DEF Follows
    <2>7. CASE AllOut(g)
      <3>1. AllOut(g)'
        BY <1>4, <2>7 DEF AllOut
      <3>2. QED
        BY <1>6, <2>6, <3>1 DEF Follows
    <2>8. CASE ~AllOut(g)
      <3>1. Present(NewSet(g, i)) = ArrivedOf(g)' /\ Present(OldSet(g))' = ArrivedOf(g)'
        BY <1>2, <1>3, <2>5, <2>8 DEF Follows
      <3>2. Cardinality(Present(NewSet(g, i))) < DataShards
        <4>1. Cardinality(Present(NewSet(g, i))) \in Nat
          BY PresentFinite
        <4>2. QED
          BY <1>8, <4>1, Numbers DEF Complete
      <3>3. Cardinality(ArrivedOf(g)') < DataShards
        BY <3>1, <3>2
      <3>4. QED
        BY <1>6, <2>6, <3>1, <3>3 DEF Follows
    <2>9. QED
      BY <2>7, <2>8
  <1>9. QED
    BY <1>7, <1>8

LEMMA RecoveryInit == Init => RecoveryInv
  <1>1. SUFFICES ASSUME Init PROVE RecoveryInv
    OBVIOUS
  <1>2. arrived = {} /\ DOMAIN decode_sets = {}
    BY <1>1 DEF Init, Restrict
  <1>3. \A g : OldSet(g) = EmptySet /\ ArrivedOf(g) = {}
    BY <1>2 DEF OldSet, ArrivedOf
  <1>4. ASSUME NEW g PROVE Follows(g)
    <2>1. OldSet(g) = EmptySet /\ ArrivedOf(g) = {}
      BY <1>3
    <2>2. Present(OldSet(g)) = {}
      BY <2>1, EmptyPresent
    <2>3. Cardinality(ArrivedOf(g)) < DataShards
      BY <2>1, EmptyPresent, FS_EmptySet, Numbers
    <2>4. QED
      BY <2>1, <2>2, <2>3 DEF Follows
  <1>5. arrived \subseteq {Shard(g, i) : g \in 0..Newest, i \in Indices}
    BY <1>2
  <1>6. QED
    BY <1>4, <1>5 DEF RecoveryInv

LEMMA DecodeRecovers ==
    ASSUME FecInv, RecoveryInv, NEW p \in wire, Decode(p)
    PROVE  RecoveryInv'
  <1>1. PICK g \in 0..Filling, i \in Indices :
            /\ p = [seq |-> SeqOf(g, i), shard |-> Shard(g, i)]
            /\ (ShardSize * g + i) - heard <= MaxOutage
            /\ heard - (ShardSize * g + i) <= MaxDelay
    BY DEF FecInv, OnTheWay
  <1>2. Comes(g, i)
    BY <1>1 DEF Comes
  <1>3. g \in Nat /\ Newest \in Nat /\ i \in Indices /\ MaxShardSets \in Nat
    BY <1>2, ComesNear, Numbers
  <1>4. /\ heard' = HeardThen(g, i)
        /\ arrived' = Recent(arrived \cup {Shard(g, i)}, HeardThen(g, i))
        /\ \/ /\ OldSet(g)[i] # NoShard
              /\ output' = Recent(output \cup Direct(g, i), HeardThen(g, i))
                               \cup (output \cap {Garbage})
              /\ UNCHANGED <<decode_sets, newest_shard_id>>
           \/ /\ OldSet(g)[i] = NoShard
              /\ output' = Recent(output \cup Yields(g, i), HeardThen(g, i))
                               \cup ((output \cup Yields(g, i)) \cap {Garbage})
              /\ decode_sets' = IF Newer(g) THEN DiscardOldShards(SetsThen(g, i), g % Sets)
                                            ELSE SetsThen(g, i)
    BY <1>1, <1>3, DecodeDoes
  <1>5. Newest' = (IF g > Newest THEN g ELSE Newest) /\ (Newer(g) <=> g > Newest)
    BY <1>2, <1>4, NewestThen
  <1>6. arrived' \subseteq {Shard(h, j) : h \in 0..Newest', j \in Indices}
    <2>1. arrived' \subseteq arrived \cup {Shard(g, i)}
      BY <1>4 DEF Recent
    <2>2. 0..Newest \subseteq 0..Newest' /\ g \in 0..Newest'
      BY <1>3, <1>5
    <2>3. QED
      BY <1>3, <2>1, <2>2 DEF RecoveryInv
  <1>7. ASSUME NEW h \in 0..Newest', h > Newest' - MaxShardSets
        PROVE  Follows(h)'
    <2>1. h \in Nat
      BY <1>3, <1>5
    <2>2. \A S, j : Shard(h, j) \in S => Shard(h, j) \in Recent(S, HeardThen(g, i))
      BY <1>2, <1>4, <1>7, <2>1, RecentKept
    <2>3. \A j : Shard(h, j) \in output => Shard(h, j) \in output'
      BY <1>4, <2>2
    <2>4. h <= Newest => Follows(h)
      BY <1>3, <1>5, <1>7, <2>1 DEF RecoveryInv, RecentGroup
    <2>5. CASE h # g
      <3>1. ArrivedOf(h)' = ArrivedOf(h)
        BY <1>2, <1>4, <1>7, <2>1, <2>5, RecentKept
      <3>2. CASE h <= Newest
        <4>1. OldSet(h)' = OldSet(h)
          <5>1. CASE OldSet(g)[i] # NoShard
            BY <1>4, <5>1 DEF OldSet
          <5>2. CASE OldSet(g)[i] = NoShard
            BY <1>2, <1>4, <1>5, <1>7, <2>5, <3>2, <5>2, OthersKept
          <5>3. QED
            BY <5>1, <5>2
        <4>2. Present(OldSet(h))' = Present(OldSet(h))
          BY <4>1 DEF Present
        <4>3. AllOut(h) => AllOut(h)'
          BY <2>3 DEF AllOut
        <4>4. QED
          BY <2>3, <2>4, <3>1, <3>2, <4>2, <4>3 DEF Follows
      <3>3. CASE h > Newest
        <4>1. OldSet(g)[i] = NoShard
          <5>1. g > Newest
            BY <1>3, <1>5, <1>7, <3>3
          <5>2. QED
            BY <1>2, <1>3, <5>1, OldHolds
        <4>2. h % Sets \notin DOMAIN decode_sets /\ OldSet(h)' = EmptySet
          BY <1>2, <1>4, <1>5, <1>7, <2>5, <3>3, <4>1, OthersKept
        <4>3. ArrivedOf(h) = {}
          BY <1>3, <2>1, <3>3, <4>2, NewGroup
        <4>4. Present(OldSet(h))' = {}
          BY <4>2, EmptyPresent DEF Present
        <4>5. QED
          BY <3>1, <4>3, <4>4, EmptyPresent DEF Follows
      <3>4. QED
        BY <1>3, <2>1, <3>2, <3>3
    <2>6. CASE h = g
      <3>1. Follows(g)
        <4>1. CASE g <= Newest
          BY <2>4, <2>6, <4>1
        <4>2. CASE g > Newest
          <5>1. g % Sets \notin DOMAIN decode_sets
            BY <1>2, <1>3, <4>2, SetHasHolder
          <5>2. QED
            BY <1>3, <4>2, <5>1, NewGroup
        <4>3. QED
          BY <1>3, <4>1, <4>2
      <3>2. CASE OldSet(g)[i] # NoShard
        <4>1. i \in ArrivedOf(g)
          BY <1>3, <3>1, <3>2 DEF Follows, Present
        <4>2. ArrivedOf(g)' = ArrivedOf(g)
          <5>1. ArrivedOf(g)' = ArrivedOf(g) \cup {i}
            <6>1. g > Newest' - MaxShardSets
              BY <1>7, <2>6
            <6>2. QED
              BY <1>2, <1>3, <1>4, <6>1, RecentKept
          <5>2. QED
            BY <4>1, <5>1
        <4>3. Present(OldSet(g))' = Present(OldSet(g))
          BY <1>4, <3>2 DEF OldSet, Present
        <4>4. AllOut(g) => AllOut(g)'
          BY <2>3, <2>6 DEF AllOut
        <4>5. QED
          BY <2>3, <2>6, <3>1, <4>2, <4>3, <4>4 DEF Follows
      <3>3. CASE OldSet(g)[i] = NoShard
        BY <1>2, <1>4, <1>5, <1>7, <2>6, <3>1, <3>3, OwnGroup
      <3>4. QED
        BY <3>2, <3>3
    <2>7. QED
      BY <2>5, <2>6
  <1>8. QED
    BY <1>6, <1>7 DEF RecoveryInv, RecentGroup

LEMMA RecoveryKept == FecInv /\ RecoveryInv /\ [Next]_vars => RecoveryInv'
  <1>1. SUFFICES ASSUME FecInv, RecoveryInv, [Next]_vars PROVE RecoveryInv'
    OBVIOUS
  <1>2. CASE UNCHANGED decoderVars
    <2>1. UNCHANGED <<decode_sets, heard, arrived, output>>
      BY <1>2 DEF decoderVars
    <2>2. Newest' = Newest
      BY <2>1 DEF Newest
    <2>3. ASSUME NEW g, Follows(g) PROVE Follows(g)'
      <3>1. OldSet(g)' = OldSet(g)
        BY <2>1 DEF OldSet
      <3>2. Present(OldSet(g))' = Present(OldSet(g))
        BY <3>1 DEF Present
      <3>3. ArrivedOf(g)' = ArrivedOf(g)
        BY <2>1 DEF ArrivedOf
      <3>4. AllOut(g)' <=> AllOut(g)
        BY <2>1 DEF AllOut
      <3>5. QED
        BY <2>1, <2>3, <3>2, <3>3, <3>4 DEF Follows
    <2>4. QED
      BY <1>1, <2>1, <2>2, <2>3 DEF RecoveryInv, RecentGroup
  <1>3. CASE \E p \in wire : Decode(p)
    BY <1>1, <1>3, DecodeRecovers
  <1>4. QED
    BY <1>1, <1>2, <1>3 DEF Next, Encode, vars

\* As many shards of a group as have arrived, so many of its places have.
LEMMA AsManyPlaces ==
    ASSUME NEW g, arrived \subseteq {Shard(h, i) : h \in 0..Newest, i \in Indices}
    PROVE  /\ Cardinality({s \in arrived : s.group = g}) <= Cardinality(ArrivedOf(g))
           /\ Cardinality({s \in arrived : s.group = g}) \in Nat
  <1> DEFINE X == {s \in arrived : s.group = g}
             A == ArrivedOf(g)
             f == [s \in X |-> s.index]
  <1>1. ASSUME NEW s \in X PROVE s.index \in A /\ s = Shard(g, s.index)
    <2>1. PICK h \in 0..Newest, i \in Indices : s = Shard(h, i)
      OBVIOUS
    <2>2. s.group = h /\ s.index = i
      BY <2>1 DEF Shard
    <2>3. QED
      BY <2>1, <2>2 DEF ArrivedOf
  <1>2. IsFiniteSet(A)
    <2>1. IsFiniteSet(Indices)
      BY Numbers, FS_Interval DEF Indices
    <2>2. A \in SUBSET Indices
      BY DEF ArrivedOf
    <2>3. QED
      BY <2>1, <2>2, FS_Subset
  <1>3. f \in Injection(X, A)
    <2>1. f \in [X -> A]
      BY <1>1
    <2>2. ASSUME NEW s \in X, NEW t \in X, f[s] = f[t] PROVE s = t
      BY <1>1, <2>2
    <2>3. QED
      BY <2>1, <2>2 DEF Injection, IsInjective
  <1> HIDE DEF X, A, f
  <1>4. QED
    BY <1>2, <1>3, FS_Injection, FS_CardinalityType DEF X, A

(* decode has put out all packets of a group of which data_shards_ shards   *)
(* arrived while it was one of the last max_shard_sets.                     *)
THEOREM FecRecovery == Spec => []Recovery
  <1>1. FecInv /\ RecoveryInv => Recovery
    <2>1. SUFFICES ASSUME FecInv, RecoveryInv, NEW g \in 0..Newest, g > Newest - MaxShardSets,
                          Cardinality({s \in arrived : s.group = g}) >= DataShards
                   PROVE  AllOut(g)
      BY DEF Recovery, Newest, AllOut
    <2>2. Follows(g)
      BY <2>1 DEF RecoveryInv, RecentGroup
    <2>3. Cardinality({s \in arrived : s.group = g}) <= Cardinality(ArrivedOf(g))
      BY <2>1, AsManyPlaces DEF RecoveryInv
    <2>4. Cardinality(ArrivedOf(g)) \in Nat
      <3>1. IsFiniteSet(Indices) /\ ArrivedOf(g) \in SUBSET Indices
        BY Numbers, FS_Interval DEF Indices, ArrivedOf
      <3>2. QED
        BY <3>1, FS_Subset, FS_CardinalityType
    <2>5. Cardinality({s \in arrived : s.group = g}) \in Nat
      BY <2>1, AsManyPlaces DEF RecoveryInv
    <2>6. ~(Cardinality(ArrivedOf(g)) < DataShards)
      BY <2>1, <2>3, <2>4, <2>5, Numbers
    <2>7. QED
      BY <2>2, <2>6 DEF Follows
  <1>2. QED
    BY <1>1, FecInvariant, RecoveryInit, RecoveryKept, PTL DEF Spec

-----------------------------------------------------------------------------
(* QPP.  What a shuffle or a generator does step by step is a function over *)
(* the numbers of the steps.                                                *)

\* Induction, for a set of numbers.
LEMMA SetInduction ==
    ASSUME NEW M \in SUBSET Nat, 0 \in M, \A n \in M : n + 1 \in M
    PROVE  M = Nat
  <1>1. SUFFICES ASSUME Nat \ M # {} PROVE FALSE
    BY Zenon
  <1>2. PICK least \in Nat \ M : \A n \in Nat \ M : least <= n
    <2>1. Nat \ M \in SUBSET Nat
      OBVIOUS
    <2>2. QED
      BY <1>1, <2>1, LeastElement, Zenon
  <1>3. least # 0 /\ least \in Nat
    BY <1>2
  <1>4. least - 1 \in Nat /\ ~(least <= least - 1)
    BY <1>3
  <1>5. least - 1 \in M
    BY <1>2, <1>4
  <1>6. (least - 1) + 1 = least
    BY <1>3
  <1>7. QED
    BY <1>2, <1>5, <1>6

\* The first n steps from base, the k-th of which takes x to F[<<k, x>>].
Iterates(f, F, base, n) ==
    f[0] = base /\ \A k \in 1..n : f[k] = F[<<k, f[k - 1]>>]

LEMMA IteratesAgree ==
    ASSUME NEW F, NEW base, NEW f, NEW g, NEW n \in Nat, NEW m \in Nat,
           Iterates(f, F, base, n), Iterates(g, F, base, m)
    PROVE  \A k \in 0..n : k <= m => f[k] = g[k]
  <1> DEFINE M == {k \in Nat : k <= n /\ k <= m => f[k] = g[k]}
  <1>1. 0 \in M
    BY DEF Iterates
  <1>2. ASSUME NEW k \in M PROVE k + 1 \in M
    <2>1. SUFFICES ASSUME k + 1 <= n, k + 1 <= m PROVE f[k + 1] = g[k + 1]
      OBVIOUS
    <2>2. k \in Nat /\ k + 1 \in 1..n /\ k + 1 \in 1..m /\ (k + 1) - 1 = k /\ f[k] = g[k]
      BY <2>1
    <2>3. f[k + 1] = F[<<k + 1, f[(k + 1) - 1]>>] /\ g[k + 1] = F[<<k + 1, g[(k + 1) - 1]>>]
      BY <2>2, Zenon DEF Iterates
    <2>4. QED
      BY <2>2, <2>3, Zenon
  <1>3. M = Nat
    <2>1. M \in SUBSET Nat
      OBVIOUS
    <2> HIDE DEF M
    <2>2. QED
      BY <1>1, <1>2, <2>1, SetInduction, Zenon
  <1>4. QED
    BY <1>3

LEMMA IteratesExist ==
    ASSUME NEW S, NEW F \in [Nat \X S -> S], NEW base \in S, NEW n \in Nat
    PROVE  \E f \in [0..n -> S] : Iterates(f, F, base, n)
  <1> DEFINE M == {m \in Nat : \E f \in [0..m -> S] : Iterates(f, F, base, m)}
  <1>1. 0 \in M
    <2> DEFINE f == [k \in 0..0 |-> base]
    <2>1. f \in [0..0 -> S] /\ f[0] = base
      OBVIOUS
    <2>2. 1..0 = {}
      OBVIOUS
    <2> HIDE DEF f
    <2>3. Iterates(f, F, base, 0)
      BY <2>1, <2>2 DEF Iterates
    <2>4. QED
      BY <2>1, <2>3
  <1>2. ASSUME NEW m \in M PROVE m + 1 \in M
    <2>1. PICK f \in [0..m -> S] : Iterates(f, F, base, m)
      OBVIOUS
    <2>2. m \in Nat
      OBVIOUS
    <2>3. PICK x : x = F[<<m + 1, f[m]>>]
      OBVIOUS
    <2>4. x \in S
      <3>1. m \in 0..m
        BY <2>2
      <3>2. f[m] \in S
        BY <3>1
      <3>3. QED
        BY <2>2, <2>3, <3>2
    <2> DEFINE g == [k \in 0..(m + 1) |-> IF k = m + 1 THEN x ELSE f[k]]
    <2>5. g \in [0..(m + 1) -> S]
      <3>1. \A k \in 0..(m + 1) : k # m + 1 => k \in 0..m
        BY <2>2
      <3>2. QED
        BY <2>4, <3>1
    <2>6. g[m + 1] = x /\ \A k \in 0..m : g[k] = f[k]
      BY <2>2
    <2> HIDE DEF g
    <2>7. g[0] = base
      BY <2>1, <2>2, <2>6 DEF Iterates
    <2>8. ASSUME NEW k \in 1..(m + 1) PROVE g[k] = F[<<k, g[k - 1]>>]
      <3>1. CASE k = m + 1
        <4>1. (m + 1) - 1 = m /\ m \in 0..m
          BY <2>2
        <4>2. QED
          BY <2>3, <2>6, <3>1, <4>1, Zenon
      <3>2. CASE k # m + 1
        <4>1. k \in 1..m /\ k \in 0..m /\ k - 1 \in 0..m
          BY <2>2, <3>2
        <4>2. f[k] = F[<<k, f[k - 1]>>]
          BY <2>1, <4>1, Zenon DEF Iterates
        <4>3. QED
          BY <2>6, <4>1, <4>2, Zenon
      <3>3. QED
        BY <3>1, <3>2, Zenon
    <2>9. Iterates(g, F, base, m + 1)
      BY <2>7, <2>8, Zenon DEF Iterates
    <2>10. QED
      BY <2>2, <2>5, <2>9
  <1>3. M = Nat
    <2>1. M \in SUBSET Nat
      OBVIOUS
    <2> HIDE DEF M
    <2>2. QED
      BY <1>1, <1>2, <2>1, SetInduction, Zenon
  <1>4. QED
    BY <1>3

-----------------------------------------------------------------------------
(* Bytes.                                                                   *)

\* The pads: every byte is in one place.
Pads == {pad \in [Bytes -> Bytes] : \A i, j \in Bytes : pad[i] = pad[j] => i = j}

LEMMA SwapPad ==
    ASSUME NEW pad \in Pads, NEW i \in Bytes, NEW j \in Bytes
    PROVE  [pad EXCEPT ![i] = pad[j], ![j] = pad[i]] \in Pads
  <1>1. PICK new : new = [pad EXCEPT ![i] = pad[j], ![j] = pad[i]]
    BY Zenon
  <1>2. pad \in [Bytes -> Bytes] /\ \A a, b \in Bytes : pad[a] = pad[b] => a = b
    BY DEF Pads
  <1>3. new \in [Bytes -> Bytes]
    BY <1>1, <1>2
  <1>4. \A a \in Bytes : new[a] = IF a = j THEN pad[i] ELSE IF a = i THEN pad[j] ELSE pad[a]
    BY <1>1, <1>2
  <1>5. ASSUME NEW a \in Bytes, NEW b \in Bytes, new[a] = new[b] PROVE a = b
    BY <1>2, <1>4, <1>5
  <1>6. QED
    BY <1>1, <1>3, <1>5 DEF Pads

LEMMA ShufflePads ==
    ASSUME MatrixBytes \in Nat \ {0}, NEW draw,
           \A i \in 1..(MatrixBytes - 1) : draw[i] \in 0..i
    PROVE  ShufflePad(draw) \in Pads
  <1> DEFINE n == MatrixBytes - 1
             F == [p \in Nat \X Pads |->
                     IF p[1] \in 1..n
                     THEN [p[2] EXCEPT ![MatrixBytes - p[1]] = p[2][draw[MatrixBytes - p[1]]],
                                       ![draw[MatrixBytes - p[1]]] = p[2][MatrixBytes - p[1]]]
                     ELSE p[2]]
             Swapped(pad, i) == [pad EXCEPT ![i] = pad[draw[i]], ![draw[i]] = pad[i]]
             base == [b \in Bytes |-> b]
             Rec(f) == f = [k \in 0..n |-> IF k = 0 THEN base ELSE Swapped(f[k - 1], MatrixBytes - k)]
             R == CHOOSE f : Rec(f)
  <1>1. n \in Nat /\ base \in Pads
    BY DEF Pads
  <1>2. ASSUME NEW i \in 1..n PROVE i \in Bytes /\ draw[i] \in Bytes
    BY <1>2 DEF Bytes
  <1>3. \A k \in 1..n : MatrixBytes - k \in 1..n
    OBVIOUS
  <1>4. ASSUME NEW k \in Nat, NEW pad \in Pads
        PROVE  F[<<k, pad>>] = IF k \in 1..n THEN Swapped(pad, MatrixBytes - k) ELSE pad
    BY <1>4
  <1>5. F \in [Nat \X Pads -> Pads]
    <2>1. ASSUME NEW p \in Nat \X Pads PROVE F[p] \in Pads
      <3>1. PICK k \in Nat, pad \in Pads : p = <<k, pad>>
        BY <2>1
      <3>2. CASE k \in 1..n
        <4>1. MatrixBytes - k \in Bytes /\ draw[MatrixBytes - k] \in Bytes
          BY <1>2, <1>3, <3>2
        <4>2. Swapped(pad, MatrixBytes - k) \in Pads
          BY <4>1, SwapPad
        <4> HIDE DEF F, Swapped
        <4>3. QED
          BY <1>4, <3>1, <3>2, <4>2
      <3>3. CASE k \notin 1..n
        <4> HIDE DEF F, Swapped
        <4>1. QED
          BY <1>4, <3>1, <3>3
      <3>4. QED
        BY <3>2, <3>3
    <2>2. F = [p \in Nat \X Pads |-> F[p]]
      BY Zenon
    <2> HIDE DEF F
    <2>3. QED
      BY <2>1, <2>2
  <1> HIDE DEF F, base, n
  <1>6. PICK f \in [0..n -> Pads] : Iterates(f, F, base, n)
    BY <1>1, <1>5, IteratesExist, Zenon
  <1>7. \A k \in 0..n : f[k] = IF k = 0 THEN base ELSE Swapped(f[k - 1], MatrixBytes - k)
    <2>1. ASSUME NEW k \in 1..n PROVE f[k] = Swapped(f[k - 1], MatrixBytes - k)
      <3>1. k - 1 \in 0..n /\ k \in Nat
        BY <1>1
      <3>2. f[k - 1] \in Pads
        BY <3>1
      <3>3. f[k] = F[<<k, f[k - 1]>>]
        BY <1>6, Zenon DEF Iterates
      <3> HIDE DEF Swapped
      <3>4. QED
        BY <1>4, <3>1, <3>2, <3>3, Zenon
    <2>2. f[0] = base
      BY <1>6, Zenon DEF Iterates
    <2>3. \A k \in 0..n : k = 0 \/ k \in 1..n
      BY <1>1
    <2>4. \A k \in 1..n : k # 0
      BY <1>1
    <2> HIDE DEF Swapped
    <2>5. QED
      BY <2>1, <2>2, <2>3, <2>4, Zenon
  <1>8. Rec(f)
    <2> HIDE DEF Swapped
    <2>1. f = [k \in 0..n |-> f[k]]
      BY <1>6, Zenon
    <2>2. QED
      BY <1>7, <2>1, Zenon
  <1>9. Rec(R)
    <2> HIDE DEF Rec
    <2>1. QED
      BY <1>8, Zenon
  <1>10. ShufflePad(draw) = R[n]
    BY DEF ShufflePad, n, base
  <1> HIDE DEF R
  <1>11. R[0] = base /\ \A k \in 1..n : R[k] = Swapped(R[k - 1], MatrixBytes - k)
    <2>1. 0 \in 0..n /\ \A k \in 1..n : k \in 0..n /\ k # 0
      BY <1>1
    <2>2. \A k \in 0..n : R[k] = IF k = 0 THEN base ELSE Swapped(R[k - 1], MatrixBytes - k)
      BY <1>9, Zenon
    <2> HIDE DEF Swapped
    <2>3. QED
      BY <2>1, <2>2, Zenon
  <1> DEFINE M == {k \in Nat : k <= n => R[k] \in Pads}
  <1>12. 0 \in M
    BY <1>1, <1>11
  <1>13. ASSUME NEW k \in M PROVE k + 1 \in M
    <2>1. SUFFICES ASSUME k + 1 <= n PROVE R[k + 1] \in Pads
      OBVIOUS
    <2>2. k + 1 \in 1..n /\ (k + 1) - 1 = k /\ R[k] \in Pads
      BY <1>1, <2>1
    <2>3. R[k + 1] = Swapped(R[k], MatrixBytes - (k + 1))
      BY <1>11, <2>2, Zenon
    <2>4. MatrixBytes - (k + 1) \in 1..n
      BY <1>3, <2>2 DEF n
    <2>5. QED
      BY <1>2, <2>2, <2>3, <2>4, SwapPad
  <1>14. M = Nat
    <2>1. M \in SUBSET Nat
      OBVIOUS
    <2> HIDE DEF M
    <2>2. QED
      BY <1>12, <1>13, <2>1, SetInduction, Zenon
  <1>15. R[n] \in Pads
    BY <1>1, <1>14
  <1>16. QED
    BY <1>10, <1>15

Forever(f, F, base) == f[0] = base /\ \A k \in Nat : f[k + 1] = F[<<k + 1, f[k]>>]

LEMMA IteratesForever ==
    ASSUME NEW S, NEW F \in [Nat \X S -> S], NEW base \in S
    PROVE  \E f \in [Nat -> S] : Forever(f, F, base)
  <1> DEFINE G(n) == CHOOSE g : g \in [0..n -> S] /\ Iterates(g, F, base, n)
             f == [n \in Nat |-> G(n)[n]]
  <1>1. ASSUME NEW n \in Nat PROVE G(n) \in [0..n -> S] /\ Iterates(G(n), F, base, n)
    <2>1. \E g : g \in [0..n -> S] /\ Iterates(g, F, base, n)
      BY IteratesExist, Zenon
    <2>2. QED
      BY <2>1, Zenon
  <1> HIDE DEF G
  <1>2. \A n \in Nat : f[n] = G(n)[n]
    OBVIOUS
  <1>3. ASSUME NEW n \in Nat PROVE f[n] \in S
    <2>1. n \in 0..n
      OBVIOUS
    <2> HIDE DEF f
    <2>2. QED
      BY <1>1, <1>2, <2>1
  <1>4. f = [n \in Nat |-> f[n]]
    BY Zenon
  <1> HIDE DEF f
  <1>5. f \in [Nat -> S]
    BY <1>3, <1>4
  <1>6. f[0] = base
    <2>1. Iterates(G(0), F, base, 0)
      BY <1>1
    <2>2. QED
      BY <1>2, <2>1 DEF Iterates
  <1>7. ASSUME NEW k \in Nat PROVE f[k + 1] = F[<<k + 1, f[k]>>]
    <2>1. k + 1 \in Nat /\ k + 1 \in 1..(k + 1) /\ (k + 1) - 1 = k /\ k \in 0..k /\ k <= k + 1
      OBVIOUS
    <2>2. Iterates(G(k), F, base, k) /\ Iterates(G(k + 1), F, base, k + 1)
      BY <1>1, <2>1, Zenon
    <2>3. G(k + 1)[k + 1] = F[<<k + 1, G(k + 1)[(k + 1) - 1]>>]
      BY <2>1, <2>2, Zenon DEF Iterates
    <2>4. G(k)[k] = G(k + 1)[k]
      <3>1. PICK a, b, m : a = G(k) /\ b = G(k + 1) /\ m = k + 1
        OBVIOUS
      <3>2. Iterates(a, F, base, k) /\ Iterates(b, F, base, m) /\ m \in Nat
        BY <2>1, <2>2, <3>1, Zenon
      <3>3. \A j \in 0..k : j <= m => a[j] = b[j]
        BY <3>2, IteratesAgree
      <3>4. QED
        BY <2>1, <3>1, <3>3, Zenon
    <2>5. QED
      BY <1>2, <2>1, <2>3, <2>4, Zenon
  <1>8. QED
    BY <1>5, <1>6, <1>7, Zenon DEF Forever

\* Generators: the next byte of the current word is in that word.
Rands == [drawn : Nat, count : 0..(WordBytes - 1)]

LEMMA AdvanceRand ==
    ASSUME WordBytes \in Nat \ {0, 1}, NEW rand \in Rands
    PROVE  Advance(rand) \in Rands /\ Advance(rand).drawn <= rand.drawn + 1
  <1>1. rand.drawn \in Nat /\ rand.count \in 0..(WordBytes - 1)
    BY DEF Rands
  <1>2. CASE rand.count + 1 = WordBytes
    <2>1. Advance(rand) = [drawn |-> rand.drawn + 1, count |-> 0]
      BY <1>2 DEF Advance
    <2>2. QED
      BY <1>1, <2>1 DEF Rands
  <1>3. CASE rand.count + 1 # WordBytes
    <2>1. Advance(rand) = [rand EXCEPT !.count = rand.count + 1]
      BY <1>3 DEF Advance
    <2>2. PICK c : c = rand.count + 1
      OBVIOUS
    <2>3. c \in 0..(WordBytes - 1)
      BY <1>1, <1>3, <2>2
    <2>4. Advance(rand) = [rand EXCEPT !.count = c]
      BY <2>1, <2>2, Zenon
    <2>5. QED
      BY <1>1, <2>3, <2>4 DEF Rands
  <1>4. QED
    BY <1>2, <1>3

LEMMA AdvancedIs ==
    ASSUME NEW f, \A k \in Nat : f[k + 1] = Advance(f[k]), NEW n \in Nat
    PROVE  Advanced(f[0], n) = f[n]
  <1> DEFINE rand == f[0]
             Rec(g) == g = [k \in 0..n |-> IF k = 0 THEN rand ELSE Advance(g[k - 1])]
             R == CHOOSE g : Rec(g)
             h == [k \in 0..n |-> f[k]]
  <1>1. \A k \in 1..n : f[k] = Advance(f[k - 1])
    <2>1. SUFFICES ASSUME NEW k \in 1..n PROVE f[k] = Advance(f[k - 1])
      OBVIOUS
    <2>2. k - 1 \in Nat /\ (k - 1) + 1 = k
      OBVIOUS
    <2>3. QED
      BY <2>2, Zenon
  <1>2. \A k \in 0..n : k = 0 \/ (k # 0 /\ k \in 1..n /\ k - 1 \in 0..n)
    OBVIOUS
  <1>3. \A k \in 0..n : h[k] = f[k]
    BY Zenon
  <1>4. \A k \in 0..n : h[k] = IF k = 0 THEN rand ELSE Advance(h[k - 1])
    BY <1>1, <1>2, <1>3, Zenon
  <1>5. h = [k \in 0..n |-> h[k]]
    BY Zenon
  <1> HIDE DEF h, rand
  <1>6. Rec(h)
    BY <1>4, <1>5, Zenon
  <1>7. Rec(R)
    <2> HIDE DEF Rec
    <2>1. QED
      BY <1>6, Zenon
  <1>8. Advanced(rand, n) = R[n]
    BY DEF Advanced
  <1> HIDE DEF R
  <1>9. \A k \in 0..n : R[k] = IF k = 0 THEN rand ELSE Advance(R[k - 1])
    BY <1>7, Zenon
  <1> DEFINE M == {k \in Nat : k <= n => R[k] = f[k]}
  <1>10. 0 \in M
    BY <1>9 DEF rand
  <1>11. ASSUME NEW k \in M PROVE k + 1 \in M
    <2>1. SUFFICES ASSUME k + 1 <= n PROVE R[k + 1] = f[k + 1]
      OBVIOUS
    <2>2. k \in Nat /\ k + 1 \in 0..n /\ k + 1 # 0 /\ (k + 1) - 1 = k /\ R[k] = f[k]
      BY <2>1
    <2>3. QED
      BY <1>9, <2>2, Zenon
  <1>12. M = Nat
    <2>1. M \in SUBSET Nat
      OBVIOUS
    <2> HIDE DEF M
    <2>2. QED
      BY <1>10, <1>11, <2>1, SetInduction, Zenon
  <1>13. QED
    BY <1>8, <1>12 DEF rand

\* Where a generator stands after t bytes.
Stand(t) == Advanced(CreatePrng, t)

\* However many bytes it is advanced by at a time, it stands where it should,
\* and has drawn no more words than it used bytes, and one.
LEMMA Stands ==
    ASSUME WordBytes \in Nat \ {0, 1}
    PROVE  /\ Stand(0) = CreatePrng
           /\ \A t \in Nat : Stand(t) \in Rands /\ Stand(t).drawn \in 1..(t + 1)
           /\ \A t, n \in Nat : Advanced(Stand(t), n) = Stand(t + n)
  <1> DEFINE F == [p \in Nat \X Rands |-> Advance(p[2])]
  <1>0. CreatePrng.drawn = 1
    BY DEF CreatePrng
  <1>1. CreatePrng \in Rands
    BY DEF CreatePrng, Rands
  <1>2. F \in [Nat \X Rands -> Rands]
    BY AdvanceRand
  <1>3. \A k \in Nat, rand \in Rands : F[<<k, rand>>] = Advance(rand)
    OBVIOUS
  <1> HIDE DEF F
  <1>4. PICK f \in [Nat -> Rands] : f[0] = CreatePrng /\ \A k \in Nat : f[k + 1] = F[<<k + 1, f[k]>>]
    <2>1. PICK f \in [Nat -> Rands] : Forever(f, F, CreatePrng)
      BY <1>1, <1>2, IteratesForever, Zenon
    <2>2. QED
      BY <2>1, Zenon DEF Forever
  <1>5. \A k \in Nat : f[k + 1] = Advance(f[k])
    <2>1. SUFFICES ASSUME NEW k \in Nat PROVE f[k + 1] = Advance(f[k])
      OBVIOUS
    <2>2. f[k] \in Rands /\ k + 1 \in Nat
      OBVIOUS
    <2>3. QED
      BY <1>3, <1>4, <2>2, Zenon
  <1>6. \A t \in Nat : Stand(t) = f[t]
    BY <1>4, <1>5, AdvancedIs, Zenon DEF Stand
  <1>7. \A t, n \in Nat : Advanced(Stand(t), n) = Stand(t + n)
    <2>1. SUFFICES ASSUME NEW t \in Nat, NEW n \in Nat PROVE Advanced(Stand(t), n) = Stand(t + n)
      OBVIOUS
    <2> DEFINE g == [k \in Nat |-> f[t + k]]
    <2>2. \A k \in Nat : g[k] = f[t + k]
      OBVIOUS
    <2> HIDE DEF g
    <2>3. ASSUME NEW k \in Nat PROVE g[k + 1] = Advance(g[k])
      <3>1. t + k \in Nat /\ t + (k + 1) = (t + k) + 1 /\ k + 1 \in Nat
        OBVIOUS
      <3>2. QED
        BY <1>5, <2>2, <3>1, Zenon
    <2>4. Advanced(g[0], n) = g[n]
      BY <2>3, AdvancedIs, Zenon
    <2>5. g[0] = f[t] /\ g[n] = f[t + n]
      BY <2>2
    <2>6. t + n \in Nat
      OBVIOUS
    <2>7. QED
      BY <1>6, <2>4, <2>5, <2>6, Zenon
  <1> DEFINE M == {t \in Nat : f[t].drawn \in 1..(t + 1)}
  <1>8. 0 \in M
    BY <1>0, <1>4
  <1>9. ASSUME NEW t \in M PROVE t + 1 \in M
    <2>1. PICK r : r = f[t]
      OBVIOUS
    <2>2. r \in Rands /\ r.drawn \in 1..(t + 1) /\ f[t + 1] = Advance(r)
      BY <1>5, <2>1
    <2>3. Advance(r).drawn \in {r.drawn, r.drawn + 1}
      BY <2>2 DEF Advance, Rands
    <2>4. Advance(r).drawn \in 1..((t + 1) + 1)
      BY <2>2, <2>3
    <2>5. QED
      BY <2>2, <2>4
  <1>10. M = Nat
    <2>1. M \in SUBSET Nat
      OBVIOUS
    <2> HIDE DEF M
    <2>2. QED
      BY <1>8, <1>9, <2>1, SetInduction, Zenon
  <1>11. \A t \in Nat : f[t] \in Rands /\ f[t].drawn \in 1..(t + 1)
    BY <1>10
  <1>12. Stand(0) = CreatePrng
    BY <1>4, <1>6
  <1>13. QED
    BY <1>6, <1>7, <1>11, <1>12, Zenon

\* A word of the generator, and a byte that is scrambled with one.
LEMMA ByteDecrypts ==
    ASSUME QppConstants, key \in Keys, NEW rand \in Rands, NEW b \in Bytes,
           key.words[rand.drawn] \in [1..WordBytes -> Bytes]
    PROVE  /\ EncryptByte(rand, b) \in Bytes
           /\ DecryptByte(rand, EncryptByte(rand, b)) = b
  <1>1. PICK word : word = key.words[rand.drawn]
    OBVIOUS
  <1>2. Seed64(rand) = word /\ word \in [1..WordBytes -> Bytes]
    BY <1>1 DEF Seed64
  <1>3. rand.count + 1 \in 1..WordBytes /\ 1 \in 1..WordBytes /\ 2 \in 1..WordBytes
    BY DEF QppConstants, Rands
  <1>4. PICK r : r = Rr(rand)
    OBVIOUS
  <1>5. r \in Bytes
    BY <1>2, <1>3, <1>4 DEF Rr
  <1>6. PadIndex(rand) + 1 \in 1..NumPads
    <2>1. PICK low, high : low = word[1] /\ high = word[2]
      OBVIOUS
    <2>2. low \in Nat /\ high \in Nat /\ MatrixBytes \in Nat \ {0} /\ NumPads \in Nat \ {0}
      BY <1>2, <1>3, <2>1 DEF Bytes, QppConstants
    <2>3. PICK n : n = low + MatrixBytes * high
      OBVIOUS
    <2>4. n \in Nat
      BY <2>2, <2>3
    <2>5. n % NumPads \in 0..(NumPads - 1)
      BY <2>2, <2>4
    <2>6. PadIndex(rand) = n % NumPads
      BY <1>2, <2>1, <2>3 DEF PadIndex
    <2>7. QED
      BY <2>2, <2>5, <2>6
  <1>7. PICK pad : pad = Pad(rand)
    OBVIOUS
  <1>8. pad \in Pads
    <2>1. PICK draw : draw = key.draws[PadIndex(rand) + 1]
      OBVIOUS
    <2>2. \A i \in 1..(MatrixBytes - 1) : draw[i] \in 0..i
      BY <1>6, <2>1, Zenon DEF QppConstants
    <2>3. MatrixBytes \in Nat \ {0}
      BY DEF QppConstants
    <2>4. ShufflePad(draw) \in Pads
      BY <2>2, <2>3, ShufflePads, Zenon
    <2>5. QED
      BY <1>7, <2>1, <2>4, Zenon DEF Pad
  <1>9. pad \in [Bytes -> Bytes] /\ \A i, j \in Bytes : pad[i] = pad[j] => i = j
    BY <1>8 DEF Pads
  <1>10. PICK x : x = Xor(b, r)
    OBVIOUS
  <1>11. x \in Bytes /\ Xor(x, r) = b
    BY <1>5, <1>10, Zenon DEF QppConstants
  <1>12. EncryptByte(rand, b) = pad[x]
    BY <1>4, <1>7, <1>10, Zenon DEF EncryptByte
  <1>13. pad[x] \in Bytes
    BY <1>9, <1>11
  <1>14. ReversePad(pad)[pad[x]] = x
    <2>1. PICK y : y = pad[x]
      OBVIOUS
    <2>2. ReversePad(pad)[y] = CHOOSE i \in Bytes : pad[i] = y
      BY <1>13, <2>1, Zenon DEF ReversePad
    <2>3. \A i \in Bytes : pad[i] = y => i = x
      BY <1>9, <1>11, <2>1, Zenon
    <2>4. QED
      BY <1>11, <2>1, <2>2, <2>3, Zenon
  <1>15. DecryptByte(rand, pad[x]) = Xor(ReversePad(pad)[pad[x]], r)
    BY <1>4, <1>7, Zenon DEF DecryptByte
  <1>16. QED
    BY <1>11, <1>12, <1>13, <1>14, <1>15, Zenon

-----------------------------------------------------------------------------
(* Frames on their way.                                                     *)

\* The bytes of t from one position to another, scrambled.
Coded(t, from, to) == [k \in 1..(to - from) |-> EncryptByte(Stand(from + k - 1), t[from + k])]

\* The generator has a word for each byte of t.
Covered(t) == \A n \in 1..Len(t) : key.words[n] \in [1..WordBytes -> Bytes]

\* What one end writes and the generator of it is what encrypt computes.
LEMMA EncryptIs ==
    ASSUME WordBytes \in Nat \ {0, 1}, NEW t \in Seq(Bytes), NEW from \in Nat, NEW n \in Nat,
           from + n <= Len(t)
    PROVE  Encrypt(SubSeq(t, from + 1, from + n), Stand(from))
              = [out |-> Coded(t, from, from + n), rand |-> Stand(from + n)]
  <1>1. PICK data, to : data = SubSeq(t, from + 1, from + n) /\ to = from + n
    OBVIOUS
  <1>2. Len(data) = n /\ DOMAIN data = 1..n /\ \A k \in 1..n : data[k] = t[from + k]
    BY <1>1, SubSeqProperties
  <1>3. to - from = n /\ to \in Nat
    BY <1>1
  <1>4. ASSUME NEW k \in 1..n PROVE Advanced(Stand(from), k - 1) = Stand(from + k - 1)
    <2>1. k - 1 \in Nat /\ from + (k - 1) = from + k - 1
      BY <1>4
    <2>2. QED
      BY <2>1, Stands
  <1>5. Advanced(Stand(from), n) = Stand(to)
    BY <1>1, Stands
  <1>6. Coded(t, from, to) = [k \in 1..n |-> EncryptByte(Stand(from + k - 1), t[from + k])]
    BY <1>3 DEF Coded
  <1>7. [k \in DOMAIN data |-> EncryptByte(Advanced(Stand(from), k - 1), data[k])] = Coded(t, from, to)
    BY <1>2, <1>4, <1>6, Zenon
  <1>8. Encrypt(data, Stand(from))
          = [out |-> [k \in DOMAIN data |-> EncryptByte(Advanced(Stand(from), k - 1), data[k])],
             rand |-> Advanced(Stand(from), Len(data))]
    BY DEF Encrypt
  <1>9. QED
    BY <1>1, <1>2, <1>5, <1>7, <1>8, Zenon

LEMMA CodedBytes ==
    ASSUME QppConstants, key \in Keys, NEW t \in Seq(Bytes), Covered(t),
           NEW from \in Nat, NEW to \in Nat, from <= to, to <= Len(t)
    PROVE  /\ Coded(t, from, to) \in [1..(to - from) -> Bytes]
           /\ \A k \in 1..(to - from) :
                 /\ Coded(t, from, to)[k] = EncryptByte(Stand(from + k - 1), t[from + k])
                 /\ DecryptByte(Stand(from + k - 1), Coded(t, from, to)[k]) = t[from + k]
  <1>1. ASSUME NEW k \in 1..(to - from)
        PROVE  /\ EncryptByte(Stand(from + k - 1), t[from + k]) \in Bytes
               /\ DecryptByte(Stand(from + k - 1), EncryptByte(Stand(from + k - 1), t[from + k])) = t[from + k]
    <2>1. PICK rand, b, at : rand = Stand(from + k - 1) /\ b = t[from + k] /\ at = from + k - 1
      OBVIOUS
    <2>2. at \in Nat /\ at + 1 <= Len(t) /\ from + k \in 1..Len(t) /\ WordBytes \in Nat \ {0, 1}
      BY <1>1, <2>1 DEF QppConstants
    <2>3. b \in Bytes
      BY <2>1, <2>2, ElementOfSeq
    <2>4. rand \in Rands /\ rand.drawn \in 1..(at + 1)
      BY <2>1, <2>2, Stands
    <2>5. rand.drawn \in 1..Len(t)
      BY <2>2, <2>4
    <2>6. key.words[rand.drawn] \in [1..WordBytes -> Bytes]
      BY <2>5, Zenon DEF Covered
    <2>7. QED
      BY <2>1, <2>3, <2>4, <2>6, ByteDecrypts, Zenon
  <1>2. PICK n : n = to - from
    OBVIOUS
  <1>3. Coded(t, from, to) = [k \in 1..n |-> EncryptByte(Stand(from + k - 1), t[from + k])]
    BY <1>2, Zenon DEF Coded
  <1>4. QED
    BY <1>1, <1>2, <1>3, Zenon

\* What the other end reads and its generator is what was written.
LEMMA DecryptIs ==
    ASSUME QppConstants, key \in Keys, NEW t \in Seq(Bytes), Covered(t),
           NEW from \in Nat, NEW to \in Nat, from <= to, to <= Len(t)
    PROVE  Decrypt(Coded(t, from, to), Stand(from))
              = [out |-> SubSeq(t, from + 1, to), rand |-> Stand(to)]
  <1>1. PICK data, n : data = Coded(t, from, to) /\ n = to - from
    OBVIOUS
  <1>2. n \in Nat /\ from + n = to /\ WordBytes \in Nat \ {0, 1}
    BY <1>1 DEF QppConstants
  <1>3. /\ data \in [1..n -> Bytes]
        /\ \A k \in 1..n : DecryptByte(Stand(from + k - 1), data[k]) = t[from + k]
    BY <1>1, CodedBytes, Zenon
  <1>4. Len(data) = n /\ DOMAIN data = 1..n
    <2>1. data \in Seq(Bytes)
      BY <1>2, <1>3
    <2>2. DOMAIN data = 1..n
      BY <1>3
    <2>3. QED
      BY <1>2, <2>1, <2>2, LenProperties
  <1>5. ASSUME NEW k \in 1..n PROVE Advanced(Stand(from), k - 1) = Stand(from + k - 1)
    <2>1. k - 1 \in Nat /\ from + (k - 1) = from + k - 1
      BY <1>5
    <2>2. QED
      BY <1>2, <2>1, Stands
  <1>6. Advanced(Stand(from), n) = Stand(to)
    BY <1>2, Stands
  <1>7. SubSeq(t, from + 1, to) = [k \in 1..n |-> t[from + k]]
    <2>1. PICK s : s = SubSeq(t, from + 1, to)
      OBVIOUS
    <2>2. /\ s \in Seq(Bytes)
          /\ Len(s) = IF from + 1 <= to THEN to - (from + 1) + 1 ELSE 0
          /\ \A k \in 1..(to - (from + 1) + 1) : s[k] = t[(from + 1) + k - 1]
      <3>1. \A k \in (from + 1)..to : t[k] \in Bytes
        BY ElementOfSeq
      <3>2. from + 1 \in Int /\ to \in Int
        OBVIOUS
      <3>3. QED
        BY <2>1, <3>1, <3>2, SubSeqProperties
    <2>3. Len(s) = n /\ to - (from + 1) + 1 = n /\ \A k \in 1..n : (from + 1) + k - 1 = from + k
      BY <1>1, <1>2, <2>2
    <2>4. s = [k \in 1..n |-> s[k]]
      BY <2>2, <2>3, LenProperties
    <2>5. QED
      BY <2>1, <2>2, <2>3, <2>4, Zenon
  <1>8. [k \in DOMAIN data |-> DecryptByte(Advanced(Stand(from), k - 1), data[k])]
          = [k \in 1..n |-> t[from + k]]
    BY <1>3, <1>4, <1>5, Zenon
  <1>9. Decrypt(data, Stand(from))
          = [out |-> [k \in DOMAIN data |-> DecryptByte(Advanced(Stand(from), k - 1), data[k])],
             rand |-> Advanced(Stand(from), Len(data))]
    BY DEF Decrypt
  <1>10. QED
    BY <1>1, <1>4, <1>6, <1>7, <1>8, <1>9, Zenon

\* The frames q under way carry, in order, the bytes of t from one position to
\* another; cut[k] is where the k-th of them ends.
Carries(q, t, from, to) ==
    \E cut \in [0..Len(q) -> 0..to] :
        /\ cut[0] = from /\ cut[Len(q)] = to
        /\ \A k \in 1..Len(q) : cut[k - 1] <= cut[k] /\ q[k] = Coded(t, cut[k - 1], cut[k])

LEMMA CarriesNothing ==
    ASSUME NEW t PROVE Carries(<<>>, t, 0, 0)
  <1> DEFINE cut == [k \in 0..0 |-> 0]
  <1>1. Len(<<>>) = 0 /\ 1..0 = {}
    OBVIOUS
  <1>2. cut \in [0..0 -> 0..0] /\ cut[0] = 0
    OBVIOUS
  <1> HIDE DEF cut
  <1>3. QED
    BY <1>1, <1>2 DEF Carries

LEMMA CarriesMore ==
    ASSUME NEW q \in Seq(Seq(Bytes)), NEW t, NEW from, NEW mid \in Nat, NEW to \in Nat, mid <= to,
           Carries(q, t, from, mid), NEW f \in Seq(Bytes), f = Coded(t, mid, to)
    PROVE  Carries(Append(q, f), t, from, to)
  <1>1. PICK cut \in [0..Len(q) -> 0..mid] :
            /\ cut[0] = from /\ cut[Len(q)] = mid
            /\ \A k \in 1..Len(q) : cut[k - 1] <= cut[k] /\ q[k] = Coded(t, cut[k - 1], cut[k])
    BY Zenon DEF Carries
  <1>2. PICK p, n : p = Append(q, f) /\ n = Len(q)
    OBVIOUS
  <1>3. /\ n \in Nat /\ Len(p) = n + 1 /\ p[n + 1] = f
        /\ \A k \in 1..n : p[k] = q[k]
    BY <1>2, AppendProperties
  <1> DEFINE new == [k \in 0..(n + 1) |-> IF k = n + 1 THEN to ELSE cut[k]]
  <1>4. \A k \in 0..n : cut[k] \in 0..mid
    BY <1>1, <1>2
  <1>5. \A k \in 0..(n + 1) : new[k] \in 0..to
    <2>1. SUFFICES ASSUME NEW k \in 0..(n + 1) PROVE new[k] \in 0..to
      BY Zenon
    <2>2. CASE k = n + 1
      BY <2>2
    <2>3. CASE k # n + 1
      <3>1. k \in 0..n /\ new[k] = cut[k]
        BY <1>3, <2>3
      <3>2. QED
        BY <1>4, <3>1
    <2>4. QED
      BY <2>2, <2>3
  <1>6. new[n + 1] = to /\ \A k \in 0..n : new[k] = cut[k]
    BY <1>3
  <1>7. new = [k \in 0..(n + 1) |-> new[k]]
    BY Zenon
  <1> HIDE DEF new
  <1>8. new \in [0..(n + 1) -> 0..to]
    BY <1>5, <1>7
  <1>9. ASSUME NEW k \in 1..(n + 1)
        PROVE  new[k - 1] <= new[k] /\ p[k] = Coded(t, new[k - 1], new[k])
    <2>1. CASE k = n + 1
      <3>1. k - 1 = n /\ n \in 0..n
        BY <1>3, <2>1
      <3>2. new[k - 1] = mid /\ new[k] = to /\ p[k] = f
        BY <1>1, <1>2, <1>3, <1>6, <2>1, <3>1, Zenon
      <3>3. QED
        BY <3>2, Zenon
    <2>2. CASE k # n + 1
      <3>1. k \in 1..n /\ k \in 0..n /\ k - 1 \in 0..n
        BY <1>3, <2>2
      <3>2. QED
        BY <1>1, <1>2, <1>3, <1>6, <3>1, Zenon
    <2>3. QED
      BY <2>1, <2>2, Zenon
  <1>10. new[0] = from
    <2>1. 0 \in 0..n
      BY <1>3
    <2>2. QED
      BY <1>1, <1>6, <2>1, Zenon
  <1>11. Carries(p, t, from, to)
    BY <1>3, <1>6, <1>8, <1>9, <1>10, Zenon DEF Carries
  <1>12. QED
    BY <1>2, <1>11, Zenon

LEMMA CarriesFirst ==
    ASSUME NEW q \in Seq(Seq(Bytes)), q # <<>>, NEW t, NEW from, NEW to \in Nat,
           Carries(q, t, from, to)
    PROVE  \E mid \in 0..to : /\ from \in Nat /\ from <= mid /\ Head(q) = Coded(t, from, mid)
                              /\ Carries(Tail(q), t, mid, to)
  <1>1. PICK cut \in [0..Len(q) -> 0..to] :
            /\ cut[0] = from /\ cut[Len(q)] = to
            /\ \A k \in 1..Len(q) : cut[k - 1] <= cut[k] /\ q[k] = Coded(t, cut[k - 1], cut[k])
    BY Zenon DEF Carries
  <1>2. PICK p, n, h : p = Tail(q) /\ n = Len(q) /\ h = Head(q)
    OBVIOUS
  <1>3. /\ n \in Nat \ {0} /\ Len(p) = n - 1 /\ h = q[1]
        /\ \A k \in 1..(n - 1) : p[k] = q[k + 1]
    BY <1>2, HeadTailProperties, EmptySeq
  <1>4. \A k \in 0..n : cut[k] \in 0..to
    BY <1>1, <1>2
  <1>5. 0 \in 0..n /\ 1 \in 0..n /\ 1 \in 1..n /\ 1 - 1 = 0
    BY <1>3
  <1>6. cut[1] \in 0..to /\ from \in Nat /\ from <= cut[1] /\ h = Coded(t, from, cut[1])
    <2>1. cut[0] \in Nat
      BY <1>4, <1>5
    <2>2. cut[1 - 1] <= cut[1] /\ q[1] = Coded(t, cut[1 - 1], cut[1])
      BY <1>1, <1>2, <1>5, Zenon
    <2>3. QED
      BY <1>1, <1>3, <1>4, <1>5, <2>1, <2>2, Zenon
  <1> DEFINE new == [k \in 0..(n - 1) |-> cut[k + 1]]
  <1>7. \A k \in 0..(n - 1) : new[k] = cut[k + 1] /\ k + 1 \in 0..n
    BY <1>3
  <1>8. new = [k \in 0..(n - 1) |-> new[k]]
    BY Zenon
  <1> HIDE DEF new
  <1>9. new \in [0..(n - 1) -> 0..to]
    BY <1>4, <1>7, <1>8
  <1>10. new[0] = cut[1] /\ new[n - 1] = to
    <2>1. 0 \in 0..(n - 1) /\ n - 1 \in 0..(n - 1) /\ 0 + 1 = 1 /\ (n - 1) + 1 = n
      BY <1>3
    <2>2. QED
      BY <1>1, <1>2, <1>7, <2>1, Zenon
  <1>11. ASSUME NEW k \in 1..(n - 1)
         PROVE  new[k - 1] <= new[k] /\ p[k] = Coded(t, new[k - 1], new[k])
    <2>1. k - 1 \in 0..(n - 1) /\ k \in 0..(n - 1) /\ k + 1 \in 1..n /\ (k - 1) + 1 = (k + 1) - 1
      BY <1>3
    <2>2. new[k - 1] = cut[(k + 1) - 1] /\ new[k] = cut[k + 1] /\ p[k] = q[k + 1]
      BY <1>3, <1>7, <2>1, Zenon
    <2>3. QED
      BY <1>1, <1>2, <2>1, <2>2, Zenon
  <1>12. Carries(p, t, cut[1], to)
    BY <1>3, <1>9, <1>10, <1>11, Zenon DEF Carries
  <1>13. QED
    BY <1>2, <1>6, <1>12, Zenon

-----------------------------------------------------------------------------
(* Each generator stands where its direction's bytes are: the writing one   *)
(* after what was taken, the reading one after what was received, and the   *)
(* frames under way carry what is between.                                  *)
QppTypes ==
    /\ key \in Keys /\ text \in Texts
    /\ taken \in [Ends -> Nat] /\ frames \in [Ends -> Seq(Seq(Bytes))]
    /\ received \in [Ends -> Seq(Bytes)]
    /\ write_rand \in [Ends -> Rands] /\ read_rand \in [Ends -> Rands]

\* One direction: what end e writes.
Direction(e) ==
    /\ taken[e] <= Len(text[e])
    /\ write_rand[e] = Stand(taken[e])
    /\ read_rand[Peer(e)] = Stand(Len(received[Peer(e)]))
    /\ received[Peer(e)] = SubSeq(text[e], 1, Len(received[Peer(e)]))
    /\ Carries(frames[e], text[e], Len(received[Peer(e)]), taken[e])

QppInv == QppTypes /\ \A e \in Ends : Direction(e)

LEMMA EndsPeer ==
    \A e \in Ends : Peer(e) \in Ends /\ Peer(e) # e /\ Peer(Peer(e)) = e
  BY DEF Ends, Peer

LEMMA QppInitially == QppConstants /\ QppInit => QppInv
  <1>1. SUFFICES ASSUME QppConstants, QppInit PROVE QppInv
    OBVIOUS
  <1>2. WordBytes \in Nat \ {0, 1} /\ Texts \subseteq [Ends -> Seq(Bytes)]
    BY <1>1 DEF QppConstants
  <1>3. CreatePrng \in Rands
    BY <1>2 DEF CreatePrng, Rands
  <1>4. QppTypes
    <2>1. <<>> \in Seq(Bytes) /\ <<>> \in Seq(Seq(Bytes))
      BY EmptySeq
    <2>2. QED
      BY <1>1, <1>3, <2>1, Zenon DEF QppInit, QppTypes
  <1>5. ASSUME NEW e \in Ends PROVE Direction(e)
    <2>1. /\ taken[e] = 0 /\ frames[e] = <<>> /\ received[Peer(e)] = <<>>
          /\ write_rand[e] = CreatePrng /\ read_rand[Peer(e)] = CreatePrng
      BY <1>1, EndsPeer, Zenon DEF QppInit
    <2>2. PICK t : t = text[e]
      OBVIOUS
    <2>3. t \in Seq(Bytes)
      BY <1>1, <1>2, <2>2 DEF QppInit
    <2>4. Len(t) \in Nat /\ 0 <= Len(t)
      BY <2>3, LenProperties
    <2>5. Len(<<>>) = 0
      OBVIOUS
    <2>6. SubSeq(t, 1, 0) = <<>>
      BY SubSeqEmpty
    <2>7. Stand(0) = CreatePrng
      BY <1>2, Stands
    <2>8. QED
      BY <2>1, <2>2, <2>4, <2>5, <2>6, <2>7, CarriesNothing, Zenon DEF Direction
  <1>6. QED
    BY <1>4, <1>5, Zenon DEF QppInv

\* What holds of one direction.
LEMMA DirectionFacts ==
    ASSUME QppConstants, QppInv, NEW e \in Ends
    PROVE  /\ text[e] \in Seq(Bytes) /\ Covered(text[e])
           /\ taken[e] \in Nat /\ taken[e] <= Len(text[e]) /\ Len(text[e]) \in Nat
           /\ frames[e] \in Seq(Seq(Bytes)) /\ received[Peer(e)] \in Seq(Bytes)
           /\ Len(received[Peer(e)]) \in Nat
           /\ WordBytes \in Nat \ {0, 1} /\ key \in Keys
  <1>1. text[e] \in Seq(Bytes)
    BY Zenon DEF QppConstants, QppInv, QppTypes
  <1>2. Covered(text[e])
    BY Zenon DEF QppConstants, QppInv, QppTypes, Covered
  <1>3. taken[e] \in Nat /\ frames[e] \in Seq(Seq(Bytes)) /\ key \in Keys
    BY Zenon DEF QppInv, QppTypes
  <1>4. received[Peer(e)] \in Seq(Bytes)
    BY EndsPeer, Zenon DEF QppInv, QppTypes
  <1>5. taken[e] <= Len(text[e]) /\ WordBytes \in Nat \ {0, 1}
    BY Zenon DEF QppInv, Direction, QppConstants
  <1>6. QED
    BY <1>1, <1>2, <1>3, <1>4, <1>5, LenProperties, Zenon

\* What frames carry depends on the key, which stays.
LEMMA CarriesSame ==
    ASSUME UNCHANGED key
    PROVE  \A q, t, from, to : Carries(q, t, from, to)' <=> Carries(q, t, from, to)
  <1>1. ASSUME NEW rand PROVE /\ Seed64(rand)' = Seed64(rand)
                              /\ key.draws' = key.draws
    BY DEF Seed64
  <1>2. ASSUME NEW rand PROVE Pad(rand)' = Pad(rand) /\ Rr(rand)' = Rr(rand)
    BY <1>1 DEF Pad, PadIndex, Rr
  <1>3. ASSUME NEW rand, NEW b PROVE EncryptByte(rand, b)' = EncryptByte(rand, b)
    BY <1>2 DEF EncryptByte
  <1>4. ASSUME NEW t, NEW x, NEW y PROVE Coded(t, x, y)' = Coded(t, x, y)
    BY <1>3, Zenon DEF Coded
  <1>5. SUFFICES ASSUME NEW q, NEW t, NEW from, NEW to
                 PROVE  Carries(q, t, from, to)' <=> Carries(q, t, from, to)
    BY Zenon
  <1>6. ASSUME NEW cut, NEW k
        PROVE  Coded(t, cut[k - 1], cut[k])' = Coded(t, cut[k - 1], cut[k])
    BY <1>4, Zenon
  <1>7. ASSUME Carries(q, t, from, to) PROVE Carries(q, t, from, to)'
    BY <1>6, <1>7, Zenon DEF Carries
  <1>8. ASSUME Carries(q, t, from, to)' PROVE Carries(q, t, from, to)
    BY <1>6, <1>8, Zenon DEF Carries
  <1>9. QED
    BY <1>7, <1>8

LEMMA QppSendKeeps ==
    ASSUME QppConstants, QppInv, NEW e \in Ends, NEW n \in 1..MaxFrame, Send(e, n)
    PROVE  QppInv'
  <1>1. PICK t, from, to, f, q :
            t = text[e] /\ from = taken[e] /\ to = taken[e] + n /\ f = Coded(t, from, to) /\ q = frames[e]
    OBVIOUS
  <1>2. n \in Nat
    BY DEF QppConstants
  <1>3. /\ t \in Seq(Bytes) /\ Covered(t) /\ from \in Nat /\ q \in Seq(Seq(Bytes))
        /\ WordBytes \in Nat \ {0, 1} /\ key \in Keys
    BY <1>1, DirectionFacts, Zenon
  <1>4. to \in Nat /\ from <= to /\ to <= Len(t) /\ to = from + n
    BY <1>1, <1>2, <1>3 DEF Send
  <1>5. write_rand[e] = Stand(from)
    BY <1>1, Zenon DEF QppInv, Direction
  <1>6. Encrypt(SubSeq(t, from + 1, from + n), Stand(from)) = [out |-> f, rand |-> Stand(to)]
    <2>1. from + n <= Len(t)
      BY <1>4, Zenon
    <2>2. Encrypt(SubSeq(t, from + 1, from + n), Stand(from))
            = [out |-> Coded(t, from, from + n), rand |-> Stand(from + n)]
      BY <1>2, <1>3, <2>1, EncryptIs, Zenon
    <2>3. f = Coded(t, from, to)
      BY <1>1, Zenon
    <2>4. QED
      BY <1>4, <2>2, <2>3, Zenon
  <1>7. /\ taken' = [taken EXCEPT ![e] = to]
        /\ frames' = [frames EXCEPT ![e] = Append(q, f)]
        /\ write_rand' = [write_rand EXCEPT ![e] = Stand(to)]
        /\ UNCHANGED <<key, text, received, read_rand>>
    <2>1. PICK run : run = Encrypt(SubSeq(text[e], taken[e] + 1, taken[e] + n), write_rand[e])
      OBVIOUS
    <2>2. run.out = f /\ run.rand = Stand(to)
      BY <1>1, <1>5, <1>6, <2>1
    <2>3. /\ taken' = [taken EXCEPT ![e] = taken[e] + n]
          /\ frames' = [frames EXCEPT ![e] = Append(frames[e], run.out)]
          /\ write_rand' = [write_rand EXCEPT ![e] = run.rand]
          /\ UNCHANGED <<key, text, received, read_rand>>
      BY <2>1, Zenon DEF Send
    <2>4. QED
      BY <1>1, <2>2, <2>3, Zenon
  <1>8. f \in Seq(Bytes)
    <2>1. f \in [1..(to - from) -> Bytes]
      BY <1>1, <1>3, <1>4, CodedBytes, Zenon
    <2>2. to - from \in Nat
      BY <1>3, <1>4
    <2>3. QED
      BY <2>1, <2>2
  <1>9. Append(q, f) \in Seq(Seq(Bytes)) /\ Stand(to) \in Rands
    BY <1>3, <1>4, <1>8, AppendProperties, Stands
  <1>10. QppTypes'
    BY <1>4, <1>7, <1>9 DEF QppInv, QppTypes
  <1>11. ASSUME NEW d \in Ends PROVE Direction(d)'
    <2>1. Direction(d) /\ Peer(d) \in Ends
      BY EndsPeer, Zenon DEF QppInv
    <2>2. \A a, b, x, y : Carries(a, b, x, y)' <=> Carries(a, b, x, y)
      BY <1>7, CarriesSame
    <2>3. CASE d # e
      <3>1. taken'[d] = taken[d] /\ frames'[d] = frames[d] /\ write_rand'[d] = write_rand[d]
        BY <1>7, <2>3, Zenon DEF QppInv, QppTypes
      <3>2. QED
        BY <1>7, <2>1, <2>2, <3>1, Zenon DEF Direction
    <2>4. CASE d = e
      <3>1. taken'[e] = to /\ frames'[e] = Append(q, f) /\ write_rand'[e] = Stand(to)
        BY <1>7, Zenon DEF QppInv, QppTypes
      <3>2. Carries(q, t, Len(received[Peer(e)]), from)
        BY <1>1, <2>1, <2>4, Zenon DEF Direction
      <3>3. Carries(Append(q, f), t, Len(received[Peer(e)]), to)
        BY <1>1, <1>3, <1>4, <1>8, <3>2, CarriesMore, Zenon
      <3>4. QED
        BY <1>1, <1>4, <1>7, <2>1, <2>2, <2>4, <3>1, <3>3, Zenon DEF Direction
    <2>5. QED
      BY <2>3, <2>4, Zenon
  <1>12. QED
    BY <1>10, <1>11, Zenon DEF QppInv

LEMMA QppReceiveKeeps ==
    ASSUME QppConstants, QppInv, NEW r \in Ends, Receive(r)
    PROVE  QppInv'
  <1>1. PICK e : e = Peer(r)
    OBVIOUS
  <1>2. e \in Ends /\ Peer(e) = r /\ e # r
    BY <1>1, EndsPeer, Zenon
  <1>3. PICK t, from, to, q : t = text[e] /\ from = Len(received[r]) /\ to = taken[e] /\ q = frames[e]
    OBVIOUS
  <1>4. /\ t \in Seq(Bytes) /\ Covered(t) /\ from \in Nat /\ to \in Nat /\ to <= Len(t)
        /\ Len(t) \in Nat /\ q \in Seq(Seq(Bytes)) /\ key \in Keys /\ WordBytes \in Nat \ {0, 1}
    BY <1>2, <1>3, DirectionFacts, Zenon
  <1>5. q # <<>>
    BY <1>1, <1>3, Zenon DEF Receive
  <1>6. /\ Carries(q, t, from, to) /\ received[r] = SubSeq(t, 1, from)
        /\ read_rand[r] = Stand(from)
    BY <1>2, <1>3, Zenon DEF QppInv, Direction
  <1>7. PICK mid \in 0..to : from <= mid /\ Head(q) = Coded(t, from, mid) /\ Carries(Tail(q), t, mid, to)
    BY <1>4, <1>5, <1>6, CarriesFirst, Zenon
  <1>8. mid \in Nat /\ mid <= Len(t)
    BY <1>4, <1>7
  <1>9. Decrypt(Head(q), Stand(from)) = [out |-> SubSeq(t, from + 1, mid), rand |-> Stand(mid)]
    <2>1. Decrypt(Coded(t, from, mid), Stand(from)) = [out |-> SubSeq(t, from + 1, mid), rand |-> Stand(mid)]
      BY <1>4, <1>7, <1>8, DecryptIs, Zenon
    <2>2. QED
      BY <1>7, <2>1, Zenon
  <1>10. SubSeq(t, 1, from) \o SubSeq(t, from + 1, mid) = SubSeq(t, 1, mid)
    <2>1. 1 \in Int /\ from + 1 \in Int /\ from \in Int /\ mid \in Int
          /\ \A k \in 1..from : k \in 1..Len(t)
      BY <1>4, <1>7, <1>8
    <2>2. PICK a, b, c : a = SubSeq(t, 1, from) /\ b = SubSeq(t, from + 1, mid) /\ c = SubSeq(t, 1, mid)
      OBVIOUS
    <2>3. \A k \in 1..Len(t) : t[k] \in Bytes
      BY <1>4, ElementOfSeq
    <2>4. a \in Seq(Bytes) /\ Len(a) = from /\ \A k \in 1..from : a[k] = t[k]
      <3>1. \A k \in 1..from : t[k] \in Bytes
        BY <2>1, <2>3
      <3>2. /\ a \in Seq(Bytes) /\ Len(a) = IF 1 <= from THEN from - 1 + 1 ELSE 0
            /\ \A k \in 1..(from - 1 + 1) : a[k] = t[1 + k - 1]
        BY <2>1, <2>2, <3>1, SubSeqProperties
      <3>3. QED
        BY <1>4, <3>2
    <2>5. b \in Seq(Bytes) /\ Len(b) = mid - from /\ \A k \in 1..(mid - from) : b[k] = t[from + k]
      <3>1. \A k \in (from + 1)..mid : t[k] \in Bytes
        BY <1>4, <1>8, <2>3
      <3>2. /\ b \in Seq(Bytes)
            /\ Len(b) = IF from + 1 <= mid THEN mid - (from + 1) + 1 ELSE 0
            /\ \A k \in 1..(mid - (from + 1) + 1) : b[k] = t[(from + 1) + k - 1]
        BY <2>1, <2>2, <3>1, SubSeqProperties
      <3>3. mid - (from + 1) + 1 = mid - from /\ \A k \in 1..(mid - from) : (from + 1) + k - 1 = from + k
        BY <1>4, <1>8
      <3>4. Len(b) = mid - from
        BY <1>4, <1>7, <1>8, <3>2
      <3>5. QED
        BY <3>2, <3>3, <3>4, Zenon
    <2>6. c \in Seq(Bytes) /\ Len(c) = mid /\ \A k \in 1..mid : c[k] = t[k]
      <3>1. \A k \in 1..mid : t[k] \in Bytes
        BY <1>8, <1>4, <2>3
      <3>2. /\ c \in Seq(Bytes) /\ Len(c) = IF 1 <= mid THEN mid - 1 + 1 ELSE 0
            /\ \A k \in 1..(mid - 1 + 1) : c[k] = t[1 + k - 1]
        BY <2>1, <2>2, <3>1, SubSeqProperties
      <3>3. QED
        BY <1>8, <3>2
    <2>7. PICK d : d = a \o b
      OBVIOUS
    <2>8. /\ d \in Seq(Bytes) /\ Len(d) = Len(a) + Len(b)
          /\ \A k \in 1..(Len(a) + Len(b)) : d[k] = IF k <= Len(a) THEN a[k] ELSE b[k - Len(a)]
      BY <2>4, <2>5, <2>7, ConcatProperties
    <2>9. Len(d) = mid
      BY <1>4, <1>8, <2>4, <2>5, <2>8
    <2>10. ASSUME NEW k \in 1..mid PROVE d[k] = c[k]
      <3>1. CASE k <= from
        <4>1. k \in 1..from /\ d[k] = a[k]
          BY <1>4, <1>8, <2>4, <2>5, <2>8, <3>1
        <4>2. QED
          BY <2>4, <2>6, <4>1
      <3>2. CASE ~(k <= from)
        <4>1. k - from \in 1..(mid - from) /\ from + (k - from) = k /\ d[k] = b[k - from]
          BY <1>4, <1>8, <2>4, <2>5, <2>8, <3>2
        <4>2. QED
          BY <2>5, <2>6, <4>1
      <3>3. QED
        BY <3>1, <3>2
    <2>11. d = c
      BY <2>6, <2>8, <2>9, <2>10, SeqEqual
    <2>12. QED
      BY <2>2, <2>7, <2>11, Zenon
  <1>11. PICK s : s = SubSeq(t, 1, mid)
    OBVIOUS
  <1>12. s \in Seq(Bytes) /\ Len(s) = mid
    <2>1. \A k \in 1..mid : t[k] \in Bytes
      BY <1>4, <1>8, ElementOfSeq
    <2>2. s \in Seq(Bytes) /\ Len(s) = IF 1 <= mid THEN mid - 1 + 1 ELSE 0
      BY <1>8, <1>11, <2>1, SubSeqProperties
    <2>3. QED
      BY <1>8, <2>2
  <1>13. /\ received' = [received EXCEPT ![r] = s]
         /\ read_rand' = [read_rand EXCEPT ![r] = Stand(mid)]
         /\ frames' = [frames EXCEPT ![e] = Tail(q)]
         /\ UNCHANGED <<key, text, taken, write_rand>>
    <2>1. PICK run : run = Decrypt(Head(frames[Peer(r)]), read_rand[r])
      OBVIOUS
    <2>2. run.out = SubSeq(t, from + 1, mid) /\ run.rand = Stand(mid)
      <3>1. run = [out |-> SubSeq(t, from + 1, mid), rand |-> Stand(mid)]
        BY <1>1, <1>3, <1>6, <1>9, <2>1, Zenon
      <3>2. QED
        BY <3>1, Zenon
    <2>3. /\ received' = [received EXCEPT ![r] = received[r] \o run.out]
          /\ read_rand' = [read_rand EXCEPT ![r] = run.rand]
          /\ frames' = [frames EXCEPT ![Peer(r)] = Tail(frames[Peer(r)])]
          /\ UNCHANGED <<key, text, taken, write_rand>>
      BY <2>1, Zenon DEF Receive
    <2>4. received[r] \o run.out = s
      BY <1>6, <1>10, <1>11, <2>2, Zenon
    <2>5. QED
      BY <1>1, <1>3, <2>2, <2>3, <2>4, Zenon
  <1>14. QppTypes'
    <2>1. Tail(q) \in Seq(Seq(Bytes)) /\ Stand(mid) \in Rands
      BY <1>4, <1>5, <1>8, HeadTailProperties, Stands
    <2>2. QED
      BY <1>12, <1>13, <2>1 DEF QppInv, QppTypes
  <1>15. ASSUME NEW d \in Ends PROVE Direction(d)'
    <2>1. Direction(d) /\ Peer(d) \in Ends
      BY EndsPeer, Zenon DEF QppInv
    <2>2. \A a, b, x, y : Carries(a, b, x, y)' <=> Carries(a, b, x, y)
      BY <1>13, CarriesSame
    <2>3. CASE d # e
      <3>1. Peer(d) # r
        BY <1>2, <2>3, EndsPeer, Zenon
      <3>2. frames'[d] = frames[d] /\ received'[Peer(d)] = received[Peer(d)] /\ read_rand'[Peer(d)] = read_rand[Peer(d)]
        BY <1>13, <2>1, <2>3, <3>1, Zenon DEF QppInv, QppTypes
      <3>3. QED
        BY <1>13, <2>1, <2>2, <3>2, Zenon DEF Direction
    <2>4. CASE d = e
      <3>1. frames'[e] = Tail(q) /\ received'[r] = s /\ read_rand'[r] = Stand(mid)
        BY <1>2, <1>13, Zenon DEF QppInv, QppTypes
      <3>2. Carries(Tail(q), t, Len(s), to) /\ s = SubSeq(t, 1, Len(s)) /\ Stand(mid) = Stand(Len(s))
        BY <1>7, <1>11, <1>12, Zenon
      <3>3. QED
        BY <1>2, <1>3, <1>13, <2>1, <2>2, <2>4, <3>1, <3>2, Zenon DEF Direction
    <2>5. QED
      BY <2>3, <2>4, Zenon
  <1>16. QED
    BY <1>14, <1>15, Zenon DEF QppInv

LEMMA QppStutters == QppInv /\ UNCHANGED qppVars => QppInv'
  <1>1. SUFFICES ASSUME QppInv, UNCHANGED qppVars PROVE QppInv'
    OBVIOUS
  <1>2. UNCHANGED <<key, text, taken, frames, received, write_rand, read_rand>>
    BY <1>1 DEF qppVars
  <1>3. QppTypes'
    BY <1>1, <1>2 DEF QppInv, QppTypes
  <1>4. ASSUME NEW e \in Ends PROVE Direction(e)'
    <2>1. Direction(e) /\ \A a, b, x, y : Carries(a, b, x, y)' <=> Carries(a, b, x, y)
      BY <1>1, <1>2, CarriesSame DEF QppInv
    <2>2. QED
      BY <1>2, <2>1, Zenon DEF Direction
  <1>5. QED
    BY <1>3, <1>4, Zenon DEF QppInv

LEMMA QppInvInStep == QppConstants /\ QppInv => QppInStep
  <1>1. SUFFICES ASSUME QppConstants, QppInv, NEW r \in Ends
                 PROVE  /\ received[r] = SubSeq(text[Peer(r)], 1, Len(received[r]))
                        /\ frames[Peer(r)] = <<>> => read_rand[r] = write_rand[Peer(r)]
    BY Zenon DEF QppInStep
  <1>2. PICK e : e = Peer(r) /\ e \in Ends /\ Peer(e) = r
    BY EndsPeer, Zenon
  <1>3. Direction(e)
    BY <1>1, <1>2, Zenon DEF QppInv
  <1>4. received[r] = SubSeq(text[e], 1, Len(received[r]))
    BY <1>2, <1>3, Zenon DEF Direction
  <1>5. ASSUME frames[e] = <<>> PROVE read_rand[r] = write_rand[e]
    <2>1. PICK cut : cut[0] = Len(received[r]) /\ cut[Len(<<>>)] = taken[e]
      BY <1>2, <1>3, <1>5, Zenon DEF Direction, Carries
    <2>2. Len(<<>>) = 0
      OBVIOUS
    <2>3. Len(received[r]) = taken[e]
      BY <2>1, <2>2, Zenon
    <2>4. QED
      BY <1>2, <1>3, <2>3, Zenon DEF Direction
  <1>6. QED
    BY <1>2, <1>4, <1>5, Zenon

LEMMA QppNextKeeps == QppConstants /\ QppInv /\ [QppNext]_qppVars => QppInv'
  <1>1. SUFFICES ASSUME QppConstants, QppInv, QppNext PROVE QppInv'
    BY QppStutters
  <1>2. PICK e \in Ends : Receive(e) \/ \E n \in 1..MaxFrame : Send(e, n)
    BY <1>1 DEF QppNext
  <1>3. CASE Receive(e)
    BY <1>1, <1>3, QppReceiveKeeps
  <1>4. CASE \E n \in 1..MaxFrame : Send(e, n)
    BY <1>1, <1>4, QppSendKeeps
  <1>5. QED
    BY <1>2, <1>3, <1>4

(* Every frame under way carries the bytes after those before it, scrambled *)
(* from where the writing generator stood, and the reading generator stands *)
(* where the next frame begins.                                             *)
THEOREM QppInvariant ==
    ASSUME QppConstants PROVE QppSpec => []QppInv
  <1>1. QppInit => QppInv
    BY QppInitially
  <1>2. QppInv /\ [QppNext]_qppVars => QppInv'
    BY QppNextKeeps
  <1>3. QED
    BY <1>1, <1>2, PTL DEF QppSpec

(* on_data unscrambles what try_flush_outbound scrambled, however the bytes *)
(* are cut into frames and however the two directions interleave, and the   *)
(* two generators of a direction stay in step.                              *)
THEOREM QppStaysInStep ==
    ASSUME QppConstants PROVE QppSpec => []QppInStep
  <1>1. QppInv => QppInStep
    BY QppInvInStep
  <1>2. QED
    BY <1>1, QppInvariant, PTL

-----------------------------------------------------------------------------
(* Pairs of sequences that are made of units: bytes and what they say.       *)

\* Concatenation is associative, as Zenon can use it.
LEMMA Associative ==
    \A S : \A a \in Seq(S), b \in Seq(S), c \in Seq(S) : (a \o b) \o c = a \o (b \o c)
  BY ConcatAssociative, Zenon

\* R holds the empty pair, and with a pair that with any unit before it.
Closed(U, R) ==
    /\ <<<<>>, <<>>>> \in R
    /\ \A a, p, b, q : <<a, p>> \in U /\ <<b, q>> \in R => <<a \o b, p \o q>> \in R

\* The least set that has the empty pair and is closed under putting a unit first.
Composed(S, T, U) ==
    {x \in Seq(S) \X Seq(T) : \A R \in SUBSET (Seq(S) \X Seq(T)) : Closed(U, R) => x \in R}

\* What Composed relates are sequences over S and over T.
LEMMA ComposedPair ==
    ASSUME NEW S, NEW T, NEW U \in SUBSET (Seq(S) \X Seq(T)), NEW b, NEW q,
           <<b, q>> \in Composed(S, T, U)
    PROVE  b \in Seq(S) /\ q \in Seq(T)
  BY DEF Composed

\* No units say nothing.
LEMMA ComposedNothing ==
    ASSUME NEW S, NEW T, NEW U \in SUBSET (Seq(S) \X Seq(T))
    PROVE  <<<<>>, <<>>>> \in Composed(S, T, U)
  <1>1. <<>> \in Seq(S) /\ <<>> \in Seq(T)
    BY EmptySeq
  <1>2. <<<<>>, <<>>>> \in Seq(S) \X Seq(T)
    BY <1>1
  <1>3. QED
    BY <1>2, Zenon DEF Composed, Closed

\* A unit may be put before what is composed.
LEMMA ComposedMore ==
    ASSUME NEW S, NEW T, NEW U \in SUBSET (Seq(S) \X Seq(T)), NEW a, NEW p, NEW b, NEW q,
           <<a, p>> \in U, <<b, q>> \in Composed(S, T, U)
    PROVE  <<a \o b, p \o q>> \in Composed(S, T, U)
  <1>1. a \in Seq(S) /\ p \in Seq(T) /\ b \in Seq(S) /\ q \in Seq(T)
    BY ComposedPair
  <1>2. a \o b \in Seq(S) /\ p \o q \in Seq(T)
    BY <1>1, ConcatProperties
  <1>3. <<a \o b, p \o q>> \in Seq(S) \X Seq(T)
    BY <1>2
  <1>4. ASSUME NEW R \in SUBSET (Seq(S) \X Seq(T)), Closed(U, R)
        PROVE  <<a \o b, p \o q>> \in R
    <2>1. <<b, q>> \in R
      BY <1>4, Zenon DEF Composed
    <2>2. QED
      BY <1>4, <2>1, Zenon DEF Closed
  <1>5. QED
    BY <1>3, <1>4, Zenon DEF Composed

\* What holds of nothing, and with a unit more if it held without, holds of
\* whatever is composed.
LEMMA ComposedInduction ==
    ASSUME NEW S, NEW T, NEW U \in SUBSET (Seq(S) \X Seq(T)),
           NEW R \in SUBSET (Seq(S) \X Seq(T)), Closed(U, R)
    PROVE  Composed(S, T, U) \subseteq R
  BY Zenon DEF Composed

\* A unit alone is composed.
LEMMA ComposedUnit ==
    ASSUME NEW S, NEW T, NEW U \in SUBSET (Seq(S) \X Seq(T)), NEW a, NEW p, <<a, p>> \in U
    PROVE  <<a, p>> \in Composed(S, T, U)
  <1>1. a \in Seq(S) /\ p \in Seq(T)
    OBVIOUS
  <1>2. <<a \o <<>>, p \o <<>>>> \in Composed(S, T, U)
    BY ComposedNothing, ComposedMore
  <1>3. a \o <<>> = a /\ p \o <<>> = p
    BY <1>1, ConcatEmptySeq
  <1>4. QED
    BY <1>2, <1>3

\* The pair is a unit and what is composed behind it.
StartsWithUnit(S, T, U, b, q) ==
    \E a, p, c, r : /\ <<a, p>> \in U /\ <<c, r>> \in Composed(S, T, U)
                    /\ b = a \o c /\ q = p \o r

\* What is composed is empty or starts with a unit.
LEMMA ComposedInversion ==
    ASSUME NEW S, NEW T, NEW U \in SUBSET (Seq(S) \X Seq(T)), NEW b, NEW q,
           <<b, q>> \in Composed(S, T, U)
    PROVE  (b = <<>> /\ q = <<>>) \/ StartsWithUnit(S, T, U, b, q)
  <1> DEFINE C == Composed(S, T, U)
             Made(x, y) == \/ x = <<>> /\ y = <<>>
                           \/ \E a, p, c, r : <<a, p>> \in U /\ <<c, r>> \in C /\ x = a \o c /\ y = p \o r
             R == {z \in C : Made(z[1], z[2])}
  <1> HIDE DEF C, Made
  <1>1. \A x, y : <<x, y>> \in R <=> <<x, y>> \in C /\ Made(x, y)
    OBVIOUS
  <1> USE DEF C, Made
  <1>2. R \in SUBSET (Seq(S) \X Seq(T))
    BY DEF Composed
  <1> HIDE DEF R
  <1>3. Closed(U, R)
    <2>1. <<<<>>, <<>>>> \in R
      BY <1>1, ComposedNothing
    <2>2. ASSUME NEW a, NEW p, NEW c, NEW r, <<a, p>> \in U, <<c, r>> \in R
          PROVE  <<a \o c, p \o r>> \in R
      <3>1. <<c, r>> \in C
        BY <1>1, <2>2
      <3>2. <<a \o c, p \o r>> \in C
        BY <2>2, <3>1, ComposedMore
      <3>3. Made(a \o c, p \o r)
        BY <2>2, <3>1
      <3>4. QED
        BY <1>1, <3>2, <3>3
    <2>3. QED
      BY <2>1, <2>2, Zenon DEF Closed
  <1>4. <<b, q>> \in R
    BY <1>2, <1>3, ComposedInduction
  <1> HIDE DEF Made, C
  <1>5. Made(b, q)
    BY <1>1, <1>4, Zenon
  <1>6. QED
    BY <1>5, Zenon DEF Made, C, StartsWithUnit

\* One composition behind another is a composition.
LEMMA ComposedConcat ==
    ASSUME NEW S, NEW T, NEW U \in SUBSET (Seq(S) \X Seq(T)), NEW a, NEW p, NEW b, NEW q,
           <<a, p>> \in Composed(S, T, U), <<b, q>> \in Composed(S, T, U)
    PROVE  <<a \o b, p \o q>> \in Composed(S, T, U)
  <1> DEFINE C == Composed(S, T, U)
             R == {z \in C : <<z[1] \o b, z[2] \o q>> \in C}
  <1>1. \A x, y : <<x, y>> \in R <=> <<x, y>> \in C /\ <<x \o b, y \o q>> \in C
    OBVIOUS
  <1>2. R \in SUBSET (Seq(S) \X Seq(T))
    BY DEF Composed
  <1>3. b \in Seq(S) /\ q \in Seq(T)
    BY ComposedPair
  <1>6. \A x \in Seq(S), y \in Seq(S), z \in Seq(S) : (x \o y) \o z = x \o (y \o z)
    BY Associative
  <1>7. \A x \in Seq(T), y \in Seq(T), z \in Seq(T) : (x \o y) \o z = x \o (y \o z)
    BY Associative
  <1> HIDE DEF R
  <1>4. Closed(U, R)
    <2>1. <<<<>>, <<>>>> \in R
      <3>1. <<>> \o b = b /\ <<>> \o q = q
        BY <1>3, ConcatEmptySeq
      <3>2. QED
        BY <1>1, <3>1, ComposedNothing
    <2>2. ASSUME NEW x, NEW y, NEW c, NEW r, <<x, y>> \in U, <<c, r>> \in R
          PROVE  <<x \o c, y \o r>> \in R
      <3>1. <<c, r>> \in C /\ <<c \o b, r \o q>> \in C
        BY <1>1, <2>2
      <3>2. <<x \o c, y \o r>> \in C /\ <<x \o (c \o b), y \o (r \o q)>> \in C
        BY <2>2, <3>1, ComposedMore
      <3>3. x \in Seq(S) /\ y \in Seq(T) /\ c \in Seq(S) /\ r \in Seq(T)
        BY <2>2, <3>1, ComposedPair
      <3>4. (x \o c) \o b = x \o (c \o b)
        BY <1>3, <3>3, <1>6, <1>7, Zenon
      <3>5. (y \o r) \o q = y \o (r \o q)
        BY <1>3, <3>3, <1>6, <1>7, Zenon
      <3>6. QED
        BY <1>1, <3>2, <3>4, <3>5
    <2>3. QED
      BY <2>1, <2>2, Zenon DEF Closed
  <1>5. <<a, p>> \in R
    BY <1>2, <1>4, ComposedInduction
  <1>8. QED
    BY <1>1, <1>5

-----------------------------------------------------------------------------
(* Sequences.                                                               *)

\* What is left of a behind p, and before x, is y.
Leaves(S, a, x, p, y) ==
    /\ SubSeq(a, Len(p) + 1, Len(a)) \in Seq(S)
    /\ Len(SubSeq(a, Len(p) + 1, Len(a))) = Len(a) - Len(p)
    /\ a = p \o SubSeq(a, Len(p) + 1, Len(a))
    /\ SubSeq(a, Len(p) + 1, Len(a)) \o x = y

\* Two ways to cut a sequence in two.
LEMMA CutTwice ==
    ASSUME NEW S, NEW a \in Seq(S), NEW x \in Seq(S), NEW p \in Seq(S), NEW y \in Seq(S),
           a \o x = p \o y, Len(p) <= Len(a)
    PROVE  Leaves(S, a, x, p, y)
  <1>1. /\ Len(a) \in Nat /\ Len(x) \in Nat /\ Len(p) \in Nat /\ Len(y) \in Nat
        /\ \A i \in 1..Len(a) : a[i] \in S
    BY LenProperties, ElementOfSeq
  <1>2. PICK d : d = SubSeq(a, Len(p) + 1, Len(a))
    OBVIOUS
  <1>3. d \in Seq(S) /\ Len(d) = Len(a) - Len(p) /\ \A i \in 1..Len(d) : d[i] = a[Len(p) + i]
    <2>1. \A i \in (Len(p) + 1)..Len(a) : a[i] \in S
      BY <1>1
    <2>2. /\ d \in Seq(S)
          /\ Len(d) = IF Len(p) + 1 <= Len(a) THEN Len(a) - (Len(p) + 1) + 1 ELSE 0
          /\ \A i \in 1..(Len(a) - (Len(p) + 1) + 1) : d[i] = a[(Len(p) + 1) + i - 1]
      BY <1>1, <1>2, <2>1, SubSeqProperties
    <2>3. Len(d) = Len(a) - Len(p)
      BY <1>1, <2>2
    <2>4. ASSUME NEW i \in 1..Len(d) PROVE d[i] = a[Len(p) + i]
      <3>1. i \in 1..(Len(a) - (Len(p) + 1) + 1) /\ (Len(p) + 1) + i - 1 = Len(p) + i
        BY <1>1, <2>3
      <3>2. QED
        BY <2>2, <3>1
    <2>5. QED
      BY <2>2, <2>3, <2>4
  <1>4. PICK w : w = a \o x /\ w = p \o y
    OBVIOUS
  <1>5. /\ Len(w) = Len(a) + Len(x)
        /\ \A i \in 1..(Len(a) + Len(x)) : w[i] = IF i <= Len(a) THEN a[i] ELSE x[i - Len(a)]
    BY <1>4, ConcatProperties
  <1>6. /\ Len(w) = Len(p) + Len(y)
        /\ \A i \in 1..(Len(p) + Len(y)) : w[i] = IF i <= Len(p) THEN p[i] ELSE y[i - Len(p)]
    BY <1>4, ConcatProperties
  <1>7. a = p \o d
    <2>1. PICK e : e = p \o d
      OBVIOUS
    <2>2. /\ e \in Seq(S) /\ Len(e) = Len(p) + Len(d)
          /\ \A i \in 1..(Len(p) + Len(d)) : e[i] = IF i <= Len(p) THEN p[i] ELSE d[i - Len(p)]
      BY <1>3, <2>1, ConcatProperties
    <2>3. Len(e) = Len(a)
      BY <1>1, <1>3, <2>2
    <2>4. ASSUME NEW i \in 1..Len(e) PROVE e[i] = a[i]
      <3>1. CASE i <= Len(p)
        <4>1. e[i] = p[i] /\ w[i] = a[i] /\ w[i] = p[i]
          BY <1>1, <1>5, <1>6, <2>2, <2>3, <3>1
        <4>2. QED
          BY <4>1
      <3>2. CASE ~(i <= Len(p))
        <4>1. i \in Nat /\ i <= Len(a) /\ i > Len(p)
          BY <1>1, <2>3, <3>2
        <4>2. PICK j : j = i - Len(p)
          OBVIOUS
        <4>3. j \in 1..Len(d) /\ Len(p) + j = i
          BY <1>1, <1>3, <4>1, <4>2
        <4>4. e[i] = d[j]
          BY <2>2, <2>3, <3>2, <4>2
        <4>5. d[j] = a[i]
          BY <1>3, <4>3
        <4>6. QED
          BY <4>4, <4>5
      <3>3. QED
        BY <3>1, <3>2
    <2>5. QED
      BY <2>1, <2>2, <2>3, <2>4, SeqEqual
  <1>8. d \o x = y
    <2>1. PICK e : e = d \o x
      OBVIOUS
    <2>2. /\ e \in Seq(S) /\ Len(e) = Len(d) + Len(x)
          /\ \A i \in 1..(Len(d) + Len(x)) : e[i] = IF i <= Len(d) THEN d[i] ELSE x[i - Len(d)]
      BY <1>3, <2>1, ConcatProperties
    <2>3. Len(e) = Len(y)
      BY <1>1, <1>3, <1>5, <1>6, <2>2
    <2>4. ASSUME NEW i \in 1..Len(e) PROVE e[i] = y[i]
      <3>1. Len(p) + i \in 1..(Len(p) + Len(y)) /\ ~(Len(p) + i <= Len(p)) /\ (Len(p) + i) - Len(p) = i
        BY <1>1, <2>3
      <3>2. w[Len(p) + i] = y[i]
        BY <1>6, <3>1
      <3>3. CASE i <= Len(d)
        <4>1. e[i] = d[i] /\ d[i] = a[Len(p) + i] /\ w[Len(p) + i] = a[Len(p) + i]
          BY <1>1, <1>3, <1>5, <1>6, <2>2, <2>3, <3>1, <3>3
        <4>2. QED
          BY <3>2, <4>1
      <3>4. CASE ~(i <= Len(d))
        <4>1. e[i] = x[i - Len(d)]
          BY <1>1, <1>3, <2>2, <3>4
        <4>2. /\ ~(Len(p) + i <= Len(a)) /\ (Len(p) + i) - Len(a) = i - Len(d)
              /\ Len(p) + i \in 1..(Len(a) + Len(x))
          BY <1>1, <1>3, <1>5, <1>6, <3>1, <3>4
        <4>3. w[Len(p) + i] = x[(Len(p) + i) - Len(a)]
          BY <1>5, <4>2
        <4>4. QED
          BY <3>2, <4>1, <4>2, <4>3
      <3>5. QED
        BY <3>3, <3>4
    <2>5. QED
      BY <2>1, <2>2, <2>3, <2>4, SeqEqual
  <1>9. QED
    BY <1>2, <1>3, <1>7, <1>8 DEF Leaves

\* The first byte of a sequence is that of what it starts with.
LEMMA FirstOf ==
    ASSUME NEW S, NEW a \in Seq(S), NEW b \in Seq(S), a # <<>>
    PROVE  a \o b # <<>> /\ (a \o b)[1] = a[1] /\ a[1] \in S /\ Len(a \o b) >= Len(a)
  <1>1. Len(a) \in Nat \ {0} /\ Len(b) \in Nat
    BY EmptySeq, LenProperties
  <1>2. PICK c : c = a \o b
    OBVIOUS
  <1>3. /\ c \in Seq(S) /\ Len(c) = Len(a) + Len(b)
        /\ \A i \in 1..(Len(a) + Len(b)) : c[i] = IF i <= Len(a) THEN a[i] ELSE b[i - Len(a)]
    BY <1>2, ConcatProperties
  <1>4. 1 \in 1..(Len(a) + Len(b)) /\ 1 <= Len(a) /\ 1 \in 1..Len(a)
    BY <1>1
  <1>5. a[1] \in S /\ c[1] = a[1]
    BY <1>3, <1>4, ElementOfSeq
  <1>6. c # <<>>
    BY <1>1, <1>3, EmptySeq
  <1>7. QED
    BY <1>1, <1>2, <1>3, <1>5, <1>6

\* A sequence cut in two.
LEMMA CutHere ==
    ASSUME NEW S, NEW s \in Seq(S), NEW n \in 0..Len(s)
    PROVE  /\ SubSeq(s, 1, n) \in Seq(S) /\ SubSeq(s, n + 1, Len(s)) \in Seq(S)
           /\ Len(SubSeq(s, 1, n)) = n /\ Len(SubSeq(s, n + 1, Len(s))) = Len(s) - n
           /\ SubSeq(s, 1, n) \o SubSeq(s, n + 1, Len(s)) = s
  <1>1. Len(s) \in Nat /\ \A i \in 1..Len(s) : s[i] \in S
    BY LenProperties, ElementOfSeq
  <1>2. /\ SubSeq(s, 1, n) \in Seq(S)
        /\ Len(SubSeq(s, 1, n)) = IF 1 <= n THEN n - 1 + 1 ELSE 0
    <2>1. \A i \in 1..n : s[i] \in S
      BY <1>1
    <2>2. QED
      BY <1>1, <2>1, SubSeqProperties
  <1>3. /\ SubSeq(s, n + 1, Len(s)) \in Seq(S)
        /\ Len(SubSeq(s, n + 1, Len(s))) = IF n + 1 <= Len(s) THEN Len(s) - (n + 1) + 1 ELSE 0
    <2>1. \A i \in (n + 1)..Len(s) : s[i] \in S
      BY <1>1
    <2>2. QED
      BY <1>1, <2>1, SubSeqProperties
  <1>4. SubSeq(s, 1, n) \o SubSeq(s, n + 1, Len(s)) = SubSeq(s, 1, Len(s))
    <2>1. 1 \in 1..(Len(s) + 1) /\ n \in (1 - 1)..Len(s) /\ Len(s) \in n..Len(s)
      BY <1>1
    <2>2. QED
      BY <2>1, ConcatAdjacentSubSeq
  <1>5. SubSeq(s, 1, Len(s)) = s
    BY SubSeqFull
  <1>6. Len(SubSeq(s, 1, n)) = n
    BY <1>1, <1>2
  <1>7. Len(SubSeq(s, n + 1, Len(s))) = Len(s) - n
    BY <1>1, <1>3
  <1>8. QED
    BY <1>2, <1>3, <1>4, <1>5, <1>6, <1>7

-----------------------------------------------------------------------------
(* Loops.                                                                   *)

\* f[k] is what k rounds of F make of s.
Rounds(f, P, F, s, n) ==
    f \in [0..n -> P] /\ \A k \in 0..n : f[k] = IF k = 0 THEN s ELSE F[f[k - 1]]

\* A loop that counts its rounds is a function that there is.
LEMMA LoopExists ==
    ASSUME NEW P, NEW F \in [P -> P], NEW s \in P, NEW n \in Nat
    PROVE  \E f : Rounds(f, P, F, s, n)
  <1> DEFINE G == [x \in Nat \X P |-> F[x[2]]]
  <1>1. \A k \in Nat, x \in P : G[<<k, x>>] = F[x]
    OBVIOUS
  <1>2. G \in [Nat \X P -> P]
    OBVIOUS
  <1> HIDE DEF G
  <1>3. PICK f \in [0..n -> P] : Iterates(f, G, s, n)
    BY <1>2, IteratesExist
  <1>4. ASSUME NEW k \in 0..n PROVE f[k] = IF k = 0 THEN s ELSE F[f[k - 1]]
    <2>1. CASE k = 0
      BY <1>3, <2>1 DEF Iterates
    <2>2. CASE k # 0
      <3>1. k \in 1..n /\ k \in Nat /\ k - 1 \in 0..n
        BY <2>2
      <3>2. f[k] = G[<<k, f[k - 1]>>] /\ f[k - 1] \in P
        BY <1>3, <3>1 DEF Iterates
      <3>3. QED
        BY <1>1, <2>2, <3>1, <3>2
    <2>3. QED
      BY <2>1, <2>2
  <1>5. QED
    BY <1>4 DEF Rounds

\* F changes nothing, or is about to, or comes nearer to where it does.
Ending(P, F, M) ==
    /\ \A x \in P : F[x] = x \/ F[F[x]] = F[x] \/ M[F[x]] < M[x]
    /\ \A x \in P : M[x] = 0 => F[x] = x

\* The same of any f: as long as it stays in P.
Repeats(f, P, F, s, n) ==
    f[0] = s /\ \A k \in 1..n : f[k - 1] \in P => f[k] = F[f[k - 1]]

\* A further round changes nothing.
Ended(P, F, x) == x \in P /\ F[x] = x

\* After as many rounds as its measure says, a loop is where it stays, and it
\* has not left a set that no round leaves.
LEMMA LoopResult ==
    ASSUME NEW P, NEW F \in [P -> P], NEW M \in [P -> Nat], NEW s \in P, NEW f, NEW n, n = M[s],
           Ending(P, F, M), Repeats(f, P, F, s, n)
    PROVE  Ended(P, F, f[n])
  <1>1. n \in Nat
    OBVIOUS
  <1>2. f[0] = s
    BY DEF Repeats
  <1>3. ASSUME NEW k \in 1..n, f[k - 1] \in P PROVE f[k] = F[f[k - 1]]
    BY <1>3, Zenon DEF Repeats
  <1> DEFINE N == {k \in Nat : k <= n => f[k] \in P /\ (F[f[k]] = f[k] \/ M[f[k]] <= n - k)}
  <1>4. 0 \in N
    BY <1>1, <1>2
  <1>5. ASSUME NEW k \in N PROVE k + 1 \in N
    <2>1. SUFFICES ASSUME k + 1 <= n
                   PROVE  f[k + 1] \in P /\ (F[f[k + 1]] = f[k + 1] \/ M[f[k + 1]] <= n - (k + 1))
      OBVIOUS
    <2>2. k \in Nat /\ k + 1 \in 1..n /\ (k + 1) - 1 = k /\ k <= n
      BY <2>1
    <2>3. PICK x \in P : x = f[k] /\ (F[x] = x \/ M[x] <= n - k)
      BY <2>2
    <2>4. f[k + 1] = F[x]
      BY <1>3, <2>2, <2>3
    <2>5. F[x] \in P /\ M[x] \in Nat /\ M[F[x]] \in Nat
      OBVIOUS
    <2>6. F[F[x]] = F[x] \/ M[F[x]] <= n - (k + 1)
      BY <2>2, <2>3, <2>5 DEF Ending
    <2>7. QED
      BY <2>4, <2>5, <2>6
  <1>6. N = Nat
    <2>1. N \in SUBSET Nat
      OBVIOUS
    <2> HIDE DEF N
    <2>2. QED
      BY <1>4, <1>5, <2>1, SetInduction, Zenon
  <1>7. f[n] \in P /\ (F[f[n]] = f[n] \/ M[f[n]] <= 0)
    <2>1. n \in N
      BY <1>6
    <2>2. QED
      BY <2>1
  <1>8. F[f[n]] = f[n]
    <2>1. M[f[n]] \in Nat
      BY <1>7
    <2>2. QED
      BY <1>7, <2>1 DEF Ending
  <1>9. QED
    BY <1>1, <1>7, <1>8 DEF Ended

-----------------------------------------------------------------------------
(* Bytes.                                                                   *)

\* A function on 1..n with values in S is a sequence over S.
LEMMA SequenceOf ==
    ASSUME NEW S, NEW n \in Nat, NEW f \in [1..n -> S]
    PROVE  f \in Seq(S) /\ Len(f) = n
  <1>1. f \in Seq(S)
    BY SeqDef
  <1>2. DOMAIN f = 1..Len(f) /\ Len(f) \in Nat
    BY <1>1, LenProperties
  <1>3. QED
    BY <1>1, <1>2

\* What a byte of a frame belongs to, and what a byte of frames is.
FrameUnit == [kind : {"frame"}, frame : Frames, version : {1, 2}]
FrameByte == [unit : FrameUnit, pos : Nat, size : Nat \ {0}]

\* What a byte of an identifier or a data chunk belongs to.
ChunkUnit == [kind : {"identifier"}] \cup [kind : {"data"}, plain : Seq(FrameByte)]
ChunkByte == [unit : ChunkUnit, pos : Nat, size : Nat \ {0}]

\* The bytes of a unit are numbered and know it and its size.
LEMMA BytesOfUnit ==
    ASSUME NEW U, NEW u \in U, NEW n \in Nat \ {0}
    PROVE  LET B == [unit : U, pos : Nat, size : Nat \ {0}]
           IN  /\ BytesOf(u, n) \in Seq(B) /\ Len(BytesOf(u, n)) = n /\ BytesOf(u, n) # <<>>
               /\ BytesOf(u, n)[1] = [unit |-> u, pos |-> 1, size |-> n]
  <1> DEFINE B == [unit : U, pos : Nat, size : Nat \ {0}]
  <1>1. PICK f : f = BytesOf(u, n)
    OBVIOUS
  <1>2. f = [k \in 1..n |-> [unit |-> u, pos |-> k, size |-> n]]
    BY <1>1 DEF BytesOf
  <1>3. \A k \in 1..n : [unit |-> u, pos |-> k, size |-> n] \in B
    OBVIOUS
  <1> HIDE DEF B
  <1>4. f \in [1..n -> B]
    BY <1>2, <1>3
  <1>5. f \in Seq(B) /\ Len(f) = n
    BY <1>4, SequenceOf
  <1>6. f # <<>>
    BY <1>5, EmptySeq
  <1>7. 1 \in 1..n
    OBVIOUS
  <1>8. f[1] = [unit |-> u, pos |-> 1, size |-> n]
    BY <1>2, <1>7
  <1>9. QED
    BY <1>1, <1>5, <1>6, <1>8 DEF B

\* A finite set of numbers with a member has a greatest one.
LEMMA MaxIs ==
    ASSUME NEW X \in SUBSET Nat, IsFiniteSet(X), X # {}
    PROVE  Max(X) \in X /\ \A x \in X : x <= Max(X)
  <1>11. PICK n \in Nat : ExistsSurjection(1..n, X)
    BY FS_NatSurjection
  <1>1. PICK f \in [1..n -> X] : \A x \in X : \E k \in 1..n : f[k] = x
    BY <1>11 DEF ExistsSurjection, Surjection
  <1> DEFINE N == {m \in Nat : m = 0 \/ m > n \/ \E g \in X : \A k \in 1..m : f[k] <= g}
  <1>2. 0 \in N
    OBVIOUS
  <1>3. ASSUME NEW m \in N PROVE m + 1 \in N
    <2>1. SUFFICES ASSUME m + 1 <= n PROVE \E g \in X : \A k \in 1..(m + 1) : f[k] <= g
      OBVIOUS
    <2>2. m \in Nat /\ m + 1 \in 1..n
      BY <2>1
    <2>3. PICK x \in X : x = f[m + 1]
      BY <1>1, <2>2
    <2>4. CASE m = 0
      <3>1. \A k \in 1..(m + 1) : k = m + 1
        BY <2>4
      <3>2. \A k \in 1..(m + 1) : f[k] <= x
        BY <2>3, <3>1
      <3>3. QED
        BY <3>2
    <2>5. CASE m # 0
      <3>1. PICK g \in X : \A k \in 1..m : f[k] <= g
        BY <2>1, <2>2, <2>5
      <3>2. \A k \in 1..m : f[k] \in Nat
        <4>1. \A k \in 1..m : k \in 1..n
          BY <2>2
        <4>2. \A k \in 1..n : f[k] \in X
          BY <1>1
        <4>3. QED
          BY <4>1, <4>2
      <3>3. \A k \in 1..(m + 1) : k \in 1..m \/ k = m + 1
        BY <2>2
      <3>4. g \in Nat /\ x \in Nat
        OBVIOUS
      <3>5. CASE x <= g
        BY <2>3, <3>1, <3>3, <3>5
      <3>6. CASE ~(x <= g)
        <4>1. \A k \in 1..m : f[k] <= x
          BY <3>1, <3>2, <3>4, <3>6
        <4>2. \A k \in 1..(m + 1) : f[k] <= x
          BY <2>3, <3>3, <3>4, <4>1
        <4>3. QED
          BY <4>2
      <3>7. QED
        BY <3>5, <3>6
    <2>6. QED
      BY <2>4, <2>5
  <1>4. N = Nat
    <2>1. N \in SUBSET Nat
      OBVIOUS
    <2> HIDE DEF N
    <2>2. QED
      BY <1>2, <1>3, <2>1, SetInduction, Zenon
  <1>5. n # 0
    <2>1. PICK x \in X : TRUE
      OBVIOUS
    <2>2. PICK k \in 1..n : f[k] = x
      BY <1>1
    <2>3. QED
      BY <2>2
  <1>6. PICK g \in X : \A k \in 1..n : f[k] <= g
    <2>1. n \in N
      BY <1>4
    <2>2. QED
      BY <1>5, <2>1
  <1>7. \A x \in X : g >= x
    BY <1>1, <1>6
  <1>8. Max(X) = CHOOSE x \in X : \A y \in X : x >= y
    BY DEF Max
  <1>9. Max(X) \in X /\ \A y \in X : Max(X) >= y
    BY <1>7, <1>8, Zenon
  <1>10. QED
    BY <1>9

\* No frame is longer than Longest.
LEMMA LongestIs ==
    /\ Longest \in Nat /\ Longest >= HeaderSize
    /\ \A f \in Frames : f.len \in Nat /\ HeaderSize + f.len <= Longest
  <1>1. Payloads \in SUBSET Nat /\ Payloads # {} /\ IsFiniteSet(Payloads) /\ HeaderSize \in Nat
    BY FramingAssumption
  <1>2. PICK m : m = Max(Payloads)
    OBVIOUS
  <1>3. m \in Nat /\ \A x \in Payloads : x <= m
    BY <1>1, <1>2, MaxIs
  <1>4. Longest = HeaderSize + m
    BY <1>2 DEF Longest
  <1>5. \A f \in Frames : f.len \in Payloads
    BY DEF Frames
  <1>6. ASSUME NEW f \in Frames PROVE f.len \in Nat /\ HeaderSize + f.len <= Longest
    <2>1. f.len \in Nat /\ f.len <= m
      BY <1>1, <1>3, <1>5
    <2>2. QED
      BY <1>1, <1>3, <1>4, <2>1
  <1>7. Longest \in Nat /\ Longest >= HeaderSize
    BY <1>1, <1>3, <1>4
  <1>8. QED
    BY <1>6, <1>7

\* What a frame looks like on the wire.
LEMMA FrameBytesAre ==
    ASSUME NEW f \in Frames, NEW v \in {1, 2}
    PROVE  /\ FrameBytes(f, v) \in Seq(FrameByte) /\ FrameBytes(f, v) # <<>>
           /\ Len(FrameBytes(f, v)) = HeaderSize + f.len
           /\ Len(FrameBytes(f, v)) >= HeaderSize /\ Len(FrameBytes(f, v)) <= Longest
           /\ FrameBytes(f, v)[1] = [unit |-> [kind |-> "frame", frame |-> f, version |-> v],
                                     pos |-> 1, size |-> HeaderSize + f.len]
  <1>1. HeaderSize \in Nat \ {0} /\ f.len \in Nat /\ HeaderSize + f.len <= Longest
    BY FramingAssumption, LongestIs
  <1>2. PICK u \in FrameUnit : u = [kind |-> "frame", frame |-> f, version |-> v]
    BY DEF FrameUnit
  <1>3. PICK n \in Nat \ {0} : n = HeaderSize + f.len
    BY <1>1
  <1>4. FrameBytes(f, v) = BytesOf(u, n)
    BY <1>2, <1>3 DEF FrameBytes
  <1>5. /\ BytesOf(u, n) \in Seq(FrameByte) /\ Len(BytesOf(u, n)) = n /\ BytesOf(u, n) # <<>>
        /\ BytesOf(u, n)[1] = [unit |-> u, pos |-> 1, size |-> n]
    BY BytesOfUnit DEF FrameByte
  <1>6. n >= HeaderSize /\ n <= Longest
    BY <1>1, <1>3
  <1>7. QED
    BY <1>2, <1>3, <1>4, <1>5, <1>6

\* The bytes of stream_identifier.
LEMMA IdentifierIs ==
    /\ Identifier \in Seq(ChunkByte) /\ Identifier # <<>> /\ Len(Identifier) = IdentifierSize
    /\ Identifier[1] = [unit |-> [kind |-> "identifier"], pos |-> 1, size |-> IdentifierSize]
  <1>1. IdentifierSize \in Nat \ {0}
    BY FramingAssumption
  <1>2. PICK u \in ChunkUnit : u = [kind |-> "identifier"]
    BY DEF ChunkUnit
  <1>3. Identifier = BytesOf(u, IdentifierSize)
    BY <1>2 DEF Identifier
  <1>4. QED
    BY <1>1, <1>2, <1>3, BytesOfUnit DEF ChunkByte

\* The bytes of a data chunk.
LEMMA DataChunkIs ==
    ASSUME NEW p \in Seq(FrameByte), NEW q \in Nat
    PROVE  \E n \in Nat \ {0} :
              /\ n >= ChunkHeader
              /\ MakeDataChunk(p, q) \in Seq(ChunkByte) /\ MakeDataChunk(p, q) # <<>>
              /\ Len(MakeDataChunk(p, q)) = n
              /\ MakeDataChunk(p, q)[1] = [unit |-> [kind |-> "data", plain |-> p], pos |-> 1, size |-> n]
  <1>1. ChunkHeader \in Nat \ {0} /\ ChunkCrc \in Nat
    BY FramingAssumption
  <1>2. PICK u \in ChunkUnit : u = [kind |-> "data", plain |-> p]
    BY DEF ChunkUnit
  <1>3. PICK n \in Nat \ {0} : n = ChunkHeader + ChunkCrc + q /\ n >= ChunkHeader
    BY <1>1
  <1>4. MakeDataChunk(p, q) = BytesOf(u, n)
    BY <1>2, <1>3 DEF MakeDataChunk
  <1>5. QED
    BY <1>2, <1>3, <1>4, BytesOfUnit DEF ChunkByte

-----------------------------------------------------------------------------
(* The frames in the plain bytes.                                           *)

\* Each frame, with itself as the only frame it says.
FrameUnits(v) == {<<FrameBytes(f, v), <<f>>>> : f \in Frames}

\* The bytes of version v that spell out frames.
Spelled(v) == Composed(FrameByte, Frames, FrameUnits(v))

\* Every unit is bytes of a frame.
LEMMA FrameUnitsAre ==
    ASSUME NEW v \in {1, 2}
    PROVE  FrameUnits(v) \in SUBSET (Seq(FrameByte) \X Seq(Frames))
  <1>1. ASSUME NEW f \in Frames PROVE <<FrameBytes(f, v), <<f>>>> \in Seq(FrameByte) \X Seq(Frames)
    <2>1. FrameBytes(f, v) \in Seq(FrameByte)
      BY FrameBytesAre
    <2>5. <<f>> \in Seq(Frames)
      OBVIOUS
    <2>2. PICK a, p : a = FrameBytes(f, v) /\ p = <<f>>
      OBVIOUS
    <2>3. <<a, p>> \in Seq(FrameByte) \X Seq(Frames)
      BY <2>1, <2>2, <2>5
    <2>4. QED
      BY <2>2, <2>3, Zenon DEF Leaves
  <1>2. QED
    BY <1>1, Zenon DEF FrameUnits

\* Bytes that have begun to arrive start with frame f, of n bytes.
Fronts(v, b, ahead, rest, f, r, n) ==
    /\ rest = <<f>> \o r /\ n >= HeaderSize /\ n <= Longest
    /\ b[1] = [unit |-> [kind |-> "frame", frame |-> f, version |-> v], pos |-> 1, size |-> n]
    /\ Len(b) >= n =>
          /\ SubSeq(b, n + 1, Len(b)) \in Seq(FrameByte)
          /\ Len(SubSeq(b, n + 1, Len(b))) = Len(b) - n
          /\ <<SubSeq(b, n + 1, Len(b)) \o ahead, r>> \in Spelled(v)

\* A composition that begins with a byte of a frame begins with that frame: its
\* header stands first, and once size bytes are there they are the frame.
LEMMA Front ==
    ASSUME NEW v \in {1, 2}, NEW b \in Seq(FrameByte), NEW ahead \in Seq(FrameByte), NEW rest,
           b # <<>>, <<b \o ahead, rest>> \in Spelled(v)
    PROVE  \E f \in Frames, r \in Seq(Frames), n \in Nat \ {0} :
              Fronts(v, b, ahead, rest, f, r, n)
  <1>1. b \o ahead # <<>> /\ (b \o ahead)[1] = b[1]
    BY FirstOf
  <1>2. PICK a, p, c, r : /\ <<a, p>> \in FrameUnits(v) /\ <<c, r>> \in Spelled(v)
                          /\ b \o ahead = a \o c /\ rest = p \o r
    <2>1. FrameUnits(v) \in SUBSET (Seq(FrameByte) \X Seq(Frames))
      BY FrameUnitsAre
    <2>2. PICK w : w = b \o ahead
      OBVIOUS
    <2>3. <<w, rest>> \in Composed(FrameByte, Frames, FrameUnits(v))
      BY <2>2 DEF Spelled
    <2>4. (w = <<>> /\ rest = <<>>) \/ StartsWithUnit(FrameByte, Frames, FrameUnits(v), w, rest)
      BY <2>1, <2>3, ComposedInversion
    <2>5. w # <<>>
      BY <1>1, <2>2
    <2>6. \E a, p, c, r : <<a, p>> \in FrameUnits(v) /\ <<c, r>> \in Spelled(v) /\ w = a \o c /\ rest = p \o r
      BY <2>4, <2>5, Zenon DEF Spelled, StartsWithUnit
    <2>7. QED
      BY <2>2, <2>6, Zenon
  <1>3. PICK f \in Frames : a = FrameBytes(f, v) /\ p = <<f>>
    BY <1>2 DEF FrameUnits
  <1>4. c \in Seq(FrameByte) /\ r \in Seq(Frames)
    BY <1>2, FrameUnitsAre, ComposedPair DEF Spelled
  <1>5. PICK n : n = HeaderSize + f.len
    OBVIOUS
  <1>6. /\ a \in Seq(FrameByte) /\ a # <<>> /\ Len(a) = n /\ n >= HeaderSize /\ n <= Longest
        /\ a[1] = [unit |-> [kind |-> "frame", frame |-> f, version |-> v], pos |-> 1, size |-> n]
    BY <1>3, <1>5, FrameBytesAre
  <1>7. n \in Nat \ {0}
    BY <1>5, FramingAssumption, LongestIs
  <1>8. b[1] = a[1]
    BY <1>1, <1>2, <1>4, <1>6, FirstOf
  <1>9. ASSUME Len(b) >= n
        PROVE  /\ SubSeq(b, n + 1, Len(b)) \in Seq(FrameByte)
               /\ Len(SubSeq(b, n + 1, Len(b))) = Len(b) - n
               /\ SubSeq(b, n + 1, Len(b)) \o ahead = c
    <2>1. Len(a) <= Len(b)
      <3>1. Len(b) \in Nat
        BY LenProperties
      <3>2. QED
        BY <1>6, <1>7, <1>9, <3>1
    <2>2. Leaves(FrameByte, b, ahead, a, c)
      BY <1>2, <1>4, <1>6, <2>1, CutTwice
    <2>3. Len(a) = n
      BY <1>6
    <2>4. QED
      BY <2>2, <2>3, Zenon DEF Leaves
  <1>10. b[1] = [unit |-> [kind |-> "frame", frame |-> f, version |-> v], pos |-> 1, size |-> n]
    BY <1>6, <1>8
  <1>11. rest = <<f>> \o r
    BY <1>2, <1>3
  <1>12. Len(b) >= n =>
            /\ SubSeq(b, n + 1, Len(b)) \in Seq(FrameByte)
            /\ Len(SubSeq(b, n + 1, Len(b))) = Len(b) - n
            /\ <<SubSeq(b, n + 1, Len(b)) \o ahead, r>> \in Spelled(v)
    BY <1>2, <1>9
  <1>13. QED
    BY <1>4, <1>6, <1>7, <1>10, <1>11, <1>12, Zenon DEF Fronts

-----------------------------------------------------------------------------
(* The loop of consume_stream_bytes.                                        *)

\* A byte of frames or of chunks: a mistaken end may be given either.
AnyByte == FrameByte \cup ChunkByte

\* What consume_stream_bytes works on.
Consumers == [buffer : Seq(AnyByte), frames : Seq(Frames), error : BOOLEAN]

\* A consumer by its fields.
Con(b, fs, e) == [buffer |-> b, frames |-> fs, error |-> e]

\* A consumer is its three fields.
LEMMA ConIs ==
    /\ \A c \in Consumers : c = Con(c.buffer, c.frames, c.error)
    /\ \A b, fs, e : Con(b, fs, e).buffer = b /\ Con(b, fs, e).frames = fs /\ Con(b, fs, e).error = e
    /\ \A b \in Seq(AnyByte), fs \in Seq(Frames), e \in BOOLEAN : Con(b, fs, e) \in Consumers
  BY DEF Con, Consumers

\* The three things a round of the while loop may do to a consumer.
Failed(c) == [c EXCEPT !.error = TRUE]
Taken(c, r, g) == [c EXCEPT !.buffer = r, !.frames = g]
Holding(c, r) == [c EXCEPT !.buffer = r]

\* The fields after an error.
LEMMA FailedIs ==
    ASSUME NEW b, NEW fs, NEW e
    PROVE  Failed(Con(b, fs, e)) = Con(b, fs, TRUE)
  <1>1. PICK B, F, E : B = {b} /\ F = {fs} /\ E = {e, TRUE}
    OBVIOUS
  <1>2. PICK c \in [buffer : B, frames : F, error : E] : c = Con(b, fs, e)
    BY <1>1 DEF Con
  <1>3. c.buffer = b /\ c.frames = fs /\ TRUE \in E
    BY <1>1, <1>2 DEF Con
  <1>4. PICK d : d = [c EXCEPT !.error = TRUE] /\ d = Failed(c)
    BY Zenon DEF Failed
  <1>5. d \in [buffer : B, frames : F, error : E] /\ d.buffer = b /\ d.frames = fs /\ d.error = TRUE
    BY <1>3, <1>4
  <1>6. d = Con(b, fs, TRUE)
    BY <1>3, <1>5 DEF Con
  <1>7. QED
    BY <1>2, <1>4, <1>6

\* The fields after a frame was taken.
LEMMA TakenIs ==
    ASSUME NEW b, NEW fs, NEW e, NEW r, NEW g
    PROVE  Taken(Con(b, fs, e), r, g) = Con(r, g, e)
  <1>1. PICK B, F, E : B = {b, r} /\ F = {fs, g} /\ E = {e}
    OBVIOUS
  <1>2. PICK c \in [buffer : B, frames : F, error : E] : c = Con(b, fs, e)
    BY <1>1 DEF Con
  <1>3. c.error = e /\ r \in B /\ g \in F /\ e \in E
    BY <1>1, <1>2 DEF Con
  <1>4. PICK d : d = [c EXCEPT !.buffer = r, !.frames = g] /\ d = Taken(c, r, g)
    BY Zenon DEF Taken
  <1>5. d \in [buffer : B, frames : F, error : E] /\ d.buffer = r /\ d.frames = g /\ d.error = e
    BY <1>3, <1>4
  <1>6. d = Con(r, g, e)
    BY <1>3, <1>5 DEF Con
  <1>7. QED
    BY <1>2, <1>4, <1>6

\* The fields after the buffer was exchanged.
LEMMA HoldingIs ==
    ASSUME NEW b, NEW fs, NEW e, NEW r
    PROVE  Holding(Con(b, fs, e), r) = Con(r, fs, e)
  <1>1. PICK B, F, E : B = {b, r} /\ F = {fs} /\ E = {e}
    OBVIOUS
  <1>2. PICK c \in [buffer : B, frames : F, error : E] : c = Con(b, fs, e)
    BY <1>1 DEF Con
  <1>3. c.error = e /\ c.frames = fs /\ r \in B /\ e \in E
    BY <1>1, <1>2 DEF Con
  <1>4. PICK d : d = [c EXCEPT !.buffer = r] /\ d = Holding(c, r)
    BY Zenon DEF Holding
  <1>5. d \in [buffer : B, frames : F, error : E] /\ d.buffer = r /\ d.frames = fs /\ d.error = e
    BY <1>3, <1>4
  <1>6. d = Con(r, fs, e)
    BY <1>3, <1>5 DEF Con
  <1>7. QED
    BY <1>2, <1>4, <1>6

\* A round of the while loop, case by case.
LEMMA TakeFrameIs ==
    ASSUME NEW b, NEW fs, NEW e \in BOOLEAN
    PROVE  TakeFrame(Con(b, fs, e)) =
              IF e \/ ~HeaderThere(Len(b)) THEN Con(b, fs, e)
              ELSE IF ~Acceptable(b[1]) THEN Con(b, fs, TRUE)
              ELSE IF Len(b) < b[1].size THEN Con(b, fs, e)
              ELSE Con(SubSeq(b, b[1].size + 1, Len(b)), Append(fs, b[1].unit.frame), e)
  <1>1. PICK c : c = Con(b, fs, e)
    OBVIOUS
  <1>2. c.buffer = b /\ c.frames = fs /\ c.error = e
    BY <1>1, ConIs
  <1>3. PICK r, g : r = SubSeq(b, b[1].size + 1, Len(b)) /\ g = Append(fs, b[1].unit.frame)
    OBVIOUS
  <1>4. Failed(c) = Con(b, fs, TRUE)
    BY <1>1, FailedIs
  <1>5. Taken(c, r, g) = Con(r, g, e)
    BY <1>1, TakenIs
  <1>6. TakeFrame(c) = IF e \/ ~HeaderThere(Len(b)) THEN c
                       ELSE IF ~Acceptable(b[1]) THEN Failed(c)
                       ELSE IF Len(b) < b[1].size THEN c
                       ELSE Taken(c, r, g)
    BY <1>2, <1>3, Zenon DEF TakeFrame, Failed, Taken
  <1>7. QED
    BY <1>1, <1>3, <1>4, <1>5, <1>6, Zenon

\* A byte is of a unit of some size.
LEMMA FirstByte ==
    ASSUME NEW b \in Seq(AnyByte), Len(b) > 0
    PROVE  b # <<>> /\ b[1] \in AnyByte /\ b[1].size \in Nat \ {0} /\ Len(b) \in Nat \ {0}
  <1>1. Len(b) \in Nat \ {0}
    BY LenProperties
  <1>2. b # <<>>
    BY <1>1, EmptySeq
  <1>3. 1 \in 1..Len(b)
    BY <1>1
  <1>4. b[1] \in AnyByte
    BY <1>3, ElementOfSeq
  <1>5. b[1].size \in Nat \ {0}
    BY <1>4 DEF AnyByte, FrameByte, ChunkByte
  <1>6. QED
    BY <1>1, <1>2, <1>4, <1>5

\* The loop stays in a set that its rounds do not leave, and ends where a
\* further round would change nothing.
LEMMA TakeFramesEnd ==
    ASSUME NEW P \in SUBSET Consumers, \A x \in P : TakeFrame(x) \in P, NEW c \in P
    PROVE  TakeFrames(c) \in P /\ TakeFrame(TakeFrames(c)) = TakeFrames(c)
  <1> DEFINE F == [x \in P |-> TakeFrame(x)]
             M == [x \in P |-> Len(x.buffer)]
  <1>1. F \in [P -> P] /\ \A x \in P : F[x] = TakeFrame(x)
    OBVIOUS
  <1>2. M \in [P -> Nat] /\ \A x \in P : M[x] = Len(x.buffer)
    <2>1. \A x \in P : x.buffer \in Seq(AnyByte)
      BY DEF Consumers
    <2>2. \A x \in P : Len(x.buffer) \in Nat
      BY <2>1, LenProperties
    <2>3. QED
      BY <2>2
  <1> HIDE DEF F, M
  <1>3. ASSUME NEW x \in P
        PROVE  /\ F[x] = x \/ F[F[x]] = F[x] \/ M[F[x]] < M[x]
               /\ M[x] = 0 => F[x] = x
    <2>1. PICK b \in Seq(AnyByte), fs \in Seq(Frames), e \in BOOLEAN : x = Con(b, fs, e)
      <3>1. x \in Consumers
        OBVIOUS
      <3>2. x.buffer \in Seq(AnyByte) /\ x.frames \in Seq(Frames) /\ x.error \in BOOLEAN
        BY <3>1 DEF Consumers
      <3>3. QED
        BY <3>1, <3>2, ConIs
    <2>2. Len(b) \in Nat /\ HeaderSize \in Nat \ {0}
      BY LenProperties, FramingAssumption
    <2>3. M[x] = Len(b)
      BY <1>2, <2>1, ConIs
    <2>4. F[x] = TakeFrame(Con(b, fs, e)) /\ F[x] \in P
      BY <1>1, <2>1
    <2>5. CASE e \/ ~HeaderThere(Len(b))
      <3>1. F[x] = x
        BY <2>1, <2>4, <2>5, TakeFrameIs
      <3>2. QED
        BY <3>1
    <2>6. CASE ~(e \/ ~HeaderThere(Len(b)))
      <3>1. Len(b) > 0
        BY <2>2, <2>6 DEF HeaderThere
      <3>2. b[1].size \in Nat \ {0}
        BY <3>1, FirstByte
      <3>3. CASE ~Acceptable(b[1])
        <4>1. F[x] = Con(b, fs, TRUE)
          BY <2>4, <2>6, <3>3, TakeFrameIs
        <4>2. TakeFrame(Con(b, fs, TRUE)) = Con(b, fs, TRUE)
          BY TakeFrameIs
        <4>3. F[F[x]] = F[x]
          BY <1>1, <2>4, <4>1, <4>2
        <4>4. QED
          BY <2>2, <2>3, <3>1, <4>3
      <3>4. CASE Acceptable(b[1]) /\ Len(b) < b[1].size
        <4>1. F[x] = x
          BY <2>1, <2>4, <2>6, <3>4, TakeFrameIs
        <4>2. QED
          BY <4>1
      <3>5. CASE Acceptable(b[1]) /\ ~(Len(b) < b[1].size)
        <4>1. PICK n \in Nat \ {0} : n = b[1].size
          BY <3>2
        <4>2. PICK d, g : d = SubSeq(b, n + 1, Len(b)) /\ g = Append(fs, b[1].unit.frame)
          OBVIOUS
        <4>3. F[x] = Con(d, g, e)
          BY <2>4, <2>6, <3>5, <4>1, <4>2, TakeFrameIs
        <4>4. M[F[x]] = Len(d)
          BY <1>2, <2>4, <4>3, ConIs
        <4>5. n \in 0..Len(b)
          BY <2>2, <3>5, <4>1
        <4>6. Len(d) = Len(b) - n
          BY <4>2, <4>5, CutHere
        <4>7. QED
          BY <2>2, <2>3, <3>1, <4>4, <4>6
      <3>6. QED
        BY <3>3, <3>4, <3>5
    <2>7. QED
      BY <2>5, <2>6
  <1> DEFINE n == Len(c.buffer)
             Rec(g) == g = [k \in 0..n |-> IF k = 0 THEN c ELSE TakeFrame(g[k - 1])]
             R == CHOOSE g : Rec(g)
  <1>4. n \in Nat /\ n = M[c]
    BY <1>2
  <1>5. TakeFrames(c) = R[n]
    BY DEF TakeFrames
  <1> HIDE DEF n
  <1>6. PICK f \in [0..n -> P] : \A k \in 0..n : f[k] = IF k = 0 THEN c ELSE F[f[k - 1]]
    <2>1. \E f : Rounds(f, P, F, c, n)
      BY <1>1, <1>4, LoopExists
    <2>2. QED
      BY <2>1, Zenon DEF Rounds
  <1>7. \A k \in 0..n : f[k] = IF k = 0 THEN c ELSE TakeFrame(f[k - 1])
    <2>1. \A k \in 0..n : k # 0 => k - 1 \in 0..n
      BY <1>4
    <2>2. \A k \in 0..n : k # 0 => f[k - 1] \in P
      BY <2>1
    <2>3. QED
      BY <1>1, <1>6, <2>2, Zenon
  <1>8. Rec(f)
    <2>1. f = [k \in 0..n |-> f[k]]
      BY Zenon
    <2>2. QED
      BY <1>7, <2>1, Zenon
  <1>9. Rec(R)
    <2> HIDE DEF Rec
    <2>1. QED
      BY <1>8, Zenon
  <1> HIDE DEF R
  <1>10. \A k \in 0..n : R[k] = IF k = 0 THEN c ELSE TakeFrame(R[k - 1])
    BY <1>9, Zenon
  <1> HIDE DEF Rec
  <1>11. R[0] = c
    BY <1>4, <1>10
  <1>12. ASSUME NEW k \in 1..n, R[k - 1] \in P PROVE R[k] = F[R[k - 1]]
    <2>1. k \in 0..n /\ k # 0
      BY <1>4
    <2>2. R[k] = TakeFrame(R[k - 1])
      BY <1>10, <2>1, Zenon
    <2>3. QED
      BY <1>1, <1>12, <2>2
  <1>13. Ended(P, F, R[n])
    <2>1. Ending(P, F, M)
      BY <1>3, Zenon DEF Ending
    <2>2. Repeats(R, P, F, c, n)
      BY <1>11, <1>12, Zenon DEF Repeats
    <2>3. QED
      BY <1>1, <1>2, <1>4, <2>1, <2>2, LoopResult
  <1>14. QED
    BY <1>1, <1>5, <1>13 DEF Ended

\* Bytes of frames and bytes of chunks are bytes.
LEMMA AnyBytes ==
    /\ Seq(FrameByte) \subseteq Seq(AnyByte) /\ Seq(ChunkByte) \subseteq Seq(AnyByte)
  <1>1. FrameByte \subseteq AnyByte /\ ChunkByte \subseteq AnyByte
    BY DEF AnyByte
  <1>2. QED
    BY <1>1, SeqMonotonic

\* A consumer that has taken whole frames off the front of the bytes: what it
\* holds and what comes spell out the rest of all the frames.
UpTo(v, all, ahead) ==
    {c \in Consumers : /\ ~c.error /\ c.buffer \in Seq(FrameByte)
                       /\ \E rest \in Seq(Frames) : /\ all = c.frames \o rest
                                                    /\ <<c.buffer \o ahead, rest>> \in Spelled(v)}

\* A buffer with the beginning of one unit at most.
Settled(b) == b # <<>> => b[1].pos = 1 /\ Len(b) < b[1].size /\ b[1].size <= Longest

\* A round keeps UpTo, and ends only where the buffer waits for bytes.
StaysUp(x, y, v, all, ahead) == y \in UpTo(v, all, ahead) /\ (y = x => Settled(x.buffer))

\* A round of the while loop on frames of this version.
LEMMA TakeFrameUp ==
    ASSUME NEW v \in {1, 2}, v = config.to.smuxver, NEW all \in Seq(Frames), NEW ahead \in Seq(FrameByte),
           NEW x \in UpTo(v, all, ahead)
    PROVE  StaysUp(x, TakeFrame(x), v, all, ahead)
  <1>1. PICK rest \in Seq(Frames) : all = x.frames \o rest /\ <<x.buffer \o ahead, rest>> \in Spelled(v)
    BY DEF UpTo
  <1>2. PICK b, fs : b = x.buffer /\ fs = x.frames
    OBVIOUS
  <1>3. x \in Consumers /\ b \in Seq(FrameByte) /\ fs \in Seq(Frames) /\ x.error = FALSE
    BY <1>2 DEF UpTo, Consumers
  <1>4. x = Con(b, fs, FALSE)
    BY <1>2, <1>3, ConIs
  <1>5. Len(b) \in Nat /\ HeaderSize \in Nat \ {0}
    BY <1>3, LenProperties, FramingAssumption
  <1>6. TakeFrame(x) = IF ~HeaderThere(Len(b)) THEN Con(b, fs, FALSE)
                       ELSE IF ~Acceptable(b[1]) THEN Con(b, fs, TRUE)
                       ELSE IF Len(b) < b[1].size THEN Con(b, fs, FALSE)
                       ELSE Con(SubSeq(b, b[1].size + 1, Len(b)), Append(fs, b[1].unit.frame), FALSE)
    BY <1>4, TakeFrameIs
  <1>7. CASE b = <<>>
    <2>1. Len(b) = 0
      BY <1>3, <1>7, EmptySeq
    <2>2. ~HeaderThere(Len(b))
      BY <1>5, <2>1 DEF HeaderThere
    <2>3. TakeFrame(x) = x
      BY <1>4, <1>6, <2>2
    <2>4. QED
      BY <1>2, <1>7, <2>3 DEF StaysUp, Settled
  <1>8. CASE b # <<>>
    <2>1. \E f \in Frames, r \in Seq(Frames), n \in Nat \ {0} : Fronts(v, b, ahead, rest, f, r, n)
      BY <1>1, <1>2, <1>3, <1>8, Front
    <2>2. PICK f \in Frames, r \in Seq(Frames), n \in Nat \ {0} : Fronts(v, b, ahead, rest, f, r, n)
      BY <2>1, Zenon
    <2>3. /\ rest = <<f>> \o r /\ n >= HeaderSize /\ n <= Longest
          /\ b[1].unit.kind = "frame" /\ b[1].unit.frame = f /\ b[1].unit.version = v
          /\ b[1].pos = 1 /\ b[1].size = n
      BY <2>2 DEF Fronts
    <2>4. CASE Len(b) < n
      <3>1. Settled(b)
        BY <2>3, <2>4 DEF Settled
      <3>2. Acceptable(b[1])
        BY <2>3 DEF Acceptable
      <3>3. TakeFrame(x) = x
        BY <1>4, <1>6, <2>3, <2>4, <3>2
      <3>4. QED
        BY <1>2, <3>1, <3>3 DEF StaysUp
    <2>5. CASE ~(Len(b) < n)
      <3>1. PICK d : d = SubSeq(b, n + 1, Len(b))
        OBVIOUS
      <3>2. d \in Seq(FrameByte) /\ Len(d) = Len(b) - n /\ <<d \o ahead, r>> \in Spelled(v)
        BY <1>5, <2>2, <2>5, <3>1 DEF Fronts
      <3>3. HeaderThere(Len(b)) /\ Acceptable(b[1])
        BY <1>5, <2>3, <2>5 DEF HeaderThere, Acceptable
      <3>4. PICK g : g = Append(fs, f)
        OBVIOUS
      <3>5. TakeFrame(x) = Con(d, g, FALSE)
        BY <1>6, <2>3, <2>5, <3>1, <3>3, <3>4
      <3>6. g \in Seq(Frames) /\ g = fs \o <<f>> /\ <<f>> \in Seq(Frames)
        BY <1>3, <3>4, AppendProperties, AppendIsConcat
      <3>7. all = g \o r
        <4>1. (fs \o <<f>>) \o r = fs \o (<<f>> \o r)
          BY <1>3, <3>6, Associative
        <4>2. QED
          BY <1>1, <1>2, <2>3, <3>6, <4>1
      <3>8. d \in Seq(AnyByte)
        BY <3>2, AnyBytes
      <3>9. PICK y : y = Con(d, g, FALSE)
        OBVIOUS
      <3>10. y \in Consumers /\ y.buffer = d /\ y.frames = g /\ y.error = FALSE
        BY <3>6, <3>8, <3>9 DEF Con, Consumers
      <3>11. y \in UpTo(v, all, ahead)
        BY <3>2, <3>7, <3>10 DEF UpTo
      <3>12. y # x
        BY <1>2, <1>5, <3>2, <3>10
      <3>13. QED
        BY <3>5, <3>9, <3>11, <3>12 DEF StaysUp
    <2>6. QED
      BY <2>4, <2>5
  <1>9. QED
    BY <1>7, <1>8

\* The while loop takes every whole frame and no other.
LEMMA TakeFramesUp ==
    ASSUME NEW v \in {1, 2}, v = config.to.smuxver, NEW all \in Seq(Frames), NEW ahead \in Seq(FrameByte),
           NEW c \in UpTo(v, all, ahead)
    PROVE  TakeFrames(c) \in UpTo(v, all, ahead) /\ Settled(TakeFrames(c).buffer)
  <1> DEFINE P == UpTo(v, all, ahead)
  <1>1. \A x \in P : StaysUp(x, TakeFrame(x), v, all, ahead)
    BY TakeFrameUp
  <1>2. P \in SUBSET Consumers /\ \A x \in P : TakeFrame(x) \in P
    BY <1>1 DEF UpTo, StaysUp
  <1>3. TakeFrames(c) \in P /\ TakeFrame(TakeFrames(c)) = TakeFrames(c)
    <2> HIDE DEF P
    <2>1. c \in P
      BY DEF P
    <2>2. QED
      BY <1>2, <2>1, TakeFramesEnd
  <1>4. StaysUp(TakeFrames(c), TakeFrame(TakeFrames(c)), v, all, ahead)
    BY <1>1, <1>3
  <1>5. QED
    BY <1>3, <1>4 DEF StaysUp

-----------------------------------------------------------------------------
(* A stream that this end refuses.                                          *)

\* The first header that comes is none of this end's version.
Foreign(b) == b # <<>> /\ Len(b) >= HeaderSize /\ ~Acceptable(b[1])

\* Consumers that have taken nothing of a stream they will refuse.
ForeignTo(ahead) ==
    {c \in Consumers : c.frames = <<>> /\ (c.error \/ Foreign(c.buffer \o ahead))}

\* The consumer has called protocol_error or lacks a header.
Refuses(c) == c.error \/ Len(c.buffer) < HeaderSize

\* A round keeps ForeignTo, and ends only in an error or for want of a header.
StaysForeign(x, y, ahead) == y \in ForeignTo(ahead) /\ (y = x => Refuses(x))

\* A round of the while loop on a stream that is refused.
LEMMA TakeFrameForeign ==
    ASSUME NEW ahead \in Seq(AnyByte), NEW x \in ForeignTo(ahead)
    PROVE  StaysForeign(x, TakeFrame(x), ahead)
  <1>1. PICK b, fs, e : b = x.buffer /\ fs = x.frames /\ e = x.error
    OBVIOUS
  <1>2. x \in Consumers /\ b \in Seq(AnyByte) /\ fs = <<>> /\ fs \in Seq(Frames) /\ e \in BOOLEAN
        /\ (e \/ Foreign(b \o ahead))
    BY <1>1 DEF ForeignTo, Consumers
  <1>3. x = Con(b, fs, e)
    BY <1>1, <1>2, ConIs
  <1>4. Len(b) \in Nat /\ HeaderSize \in Nat \ {0}
    BY <1>2, LenProperties, FramingAssumption
  <1>5. CASE e \/ ~HeaderThere(Len(b))
    <2>1. TakeFrame(x) = x
      BY <1>2, <1>3, <1>5, TakeFrameIs
    <2>2. Refuses(x)
      BY <1>1, <1>4, <1>5 DEF Refuses, HeaderThere
    <2>3. QED
      BY <2>1, <2>2 DEF StaysForeign
  <1>6. CASE ~(e \/ ~HeaderThere(Len(b)))
    <2>1. Len(b) > 0
      BY <1>4, <1>6 DEF HeaderThere
    <2>2. b # <<>>
      BY <1>2, <2>1, FirstByte
    <2>3. b \o ahead # <<>> /\ (b \o ahead)[1] = b[1]
      BY <1>2, <2>2, FirstOf
    <2>4. ~Acceptable(b[1])
      BY <1>2, <1>6, <2>3 DEF Foreign
    <2>5. TakeFrame(x) = Con(b, fs, TRUE)
      BY <1>2, <1>3, <1>6, <2>4, TakeFrameIs
    <2>6. PICK y : y = Con(b, fs, TRUE)
      OBVIOUS
    <2>7. y \in Consumers /\ y.frames = <<>> /\ y.error = TRUE
      BY <1>2, <2>6 DEF Con, Consumers
    <2>8. y # x
      BY <1>1, <1>6, <2>7
    <2>9. QED
      BY <2>5, <2>6, <2>7, <2>8 DEF StaysForeign, ForeignTo
  <1>7. QED
    BY <1>5, <1>6

\* The while loop takes no frame of a stream that is refused.
LEMMA TakeFramesForeign ==
    ASSUME NEW ahead \in Seq(AnyByte), NEW c \in ForeignTo(ahead)
    PROVE  TakeFrames(c) \in ForeignTo(ahead) /\ Refuses(TakeFrames(c))
  <1> DEFINE P == ForeignTo(ahead)
  <1>1. \A x \in P : StaysForeign(x, TakeFrame(x), ahead)
    BY TakeFrameForeign
  <1>2. P \in SUBSET Consumers /\ \A x \in P : TakeFrame(x) \in P
    BY <1>1 DEF ForeignTo, StaysForeign
  <1>3. TakeFrames(c) \in P /\ TakeFrame(TakeFrames(c)) = TakeFrames(c)
    <2> HIDE DEF P
    <2>1. c \in P
      BY DEF P
    <2>2. QED
      BY <1>2, <2>1, TakeFramesEnd
  <1>4. StaysForeign(TakeFrames(c), TakeFrame(TakeFrames(c)), ahead)
    BY <1>1, <1>3
  <1>5. QED
    BY <1>3, <1>4 DEF StaysForeign

-----------------------------------------------------------------------------
(* consume_stream_bytes.                                                    *)

\* consume_stream_bytes by the fields of its consumer.
LEMMA ConsumeIs ==
    ASSUME NEW b, NEW fs, NEW e \in BOOLEAN, NEW bytes
    PROVE  ConsumeStreamBytes(Con(b, fs, e), bytes) =
              IF e \/ Len(b) + Len(bytes) > SmuxBuf THEN Con(b, fs, TRUE)
              ELSE TakeFrames(Con(b \o bytes, fs, e))
  <1>1. PICK c : c = Con(b, fs, e)
    OBVIOUS
  <1>2. c.buffer = b /\ c.error = e
    BY <1>1 DEF Con
  <1>3. PICK r : r = b \o bytes
    OBVIOUS
  <1>4. Failed(c) = Con(b, fs, TRUE)
    BY <1>1, FailedIs
  <1>5. Holding(c, r) = Con(r, fs, e)
    BY <1>1, HoldingIs
  <1>6. ConsumeStreamBytes(c, bytes) = IF e \/ Len(b) + Len(bytes) > SmuxBuf THEN Failed(c)
                                       ELSE TakeFrames(Holding(c, r))
    BY <1>2, <1>3, Zenon DEF ConsumeStreamBytes, Failed, Holding
  <1>7. QED
    BY <1>1, <1>3, <1>4, <1>5, <1>6, Zenon

\* A round of the while loop makes a consumer of a consumer.
LEMMA TakeFrameTyped ==
    ASSUME NEW x \in Consumers
    PROVE  TakeFrame(x) \in Consumers
  <1>1. PICK b \in Seq(AnyByte), fs \in Seq(Frames), e \in BOOLEAN : x = Con(b, fs, e)
    <2>1. x.buffer \in Seq(AnyByte) /\ x.frames \in Seq(Frames) /\ x.error \in BOOLEAN
      BY DEF Consumers
    <2>2. QED
      BY <2>1, ConIs
  <1>2. CASE e \/ ~HeaderThere(Len(b))
    BY <1>1, <1>2, TakeFrameIs
  <1>3. CASE ~(e \/ ~HeaderThere(Len(b)))
    <2>1. Len(b) \in Nat /\ HeaderSize \in Nat \ {0}
      BY LenProperties, FramingAssumption
    <2>2. Len(b) > 0
      BY <1>3, <2>1 DEF HeaderThere
    <2>3. b[1] \in AnyByte /\ b[1].size \in Nat \ {0}
      BY <2>2, FirstByte
    <2>4. CASE ~Acceptable(b[1])
      <3>1. TakeFrame(x) = Con(b, fs, TRUE)
        BY <1>1, <1>3, <2>4, TakeFrameIs
      <3>2. QED
        BY <3>1 DEF Con, Consumers
    <2>5. CASE Acceptable(b[1]) /\ Len(b) < b[1].size
      BY <1>1, <1>3, <2>5, TakeFrameIs
    <2>6. CASE Acceptable(b[1]) /\ ~(Len(b) < b[1].size)
      <3>1. PICK f, n : f = b[1].unit.frame /\ n = b[1].size
        OBVIOUS
      <3>2. f \in Frames
        <4>1. b[1].unit.kind = "frame"
          BY <2>6 DEF Acceptable
        <4>2. b[1] \in FrameByte
          BY <2>3, <4>1 DEF AnyByte, ChunkByte, ChunkUnit
        <4>3. QED
          BY <3>1, <4>2 DEF FrameByte, FrameUnit
      <3>3. n \in 0..Len(b)
        BY <2>1, <2>3, <2>6, <3>1
      <3>4. PICK d, g : d = SubSeq(b, n + 1, Len(b)) /\ g = Append(fs, f)
        OBVIOUS
      <3>5. d \in Seq(AnyByte)
        BY <3>3, <3>4, CutHere
      <3>6. g \in Seq(Frames)
        BY <3>2, <3>4, AppendProperties
      <3>7. TakeFrame(x) = Con(d, g, e)
        BY <1>1, <1>3, <2>6, <3>1, <3>4, TakeFrameIs
      <3>8. QED
        BY <3>5, <3>6, <3>7 DEF Con, Consumers
    <2>7. QED
      BY <2>4, <2>5, <2>6
  <1>4. QED
    BY <1>2, <1>3

\* consume_stream_bytes makes a consumer of a consumer.
LEMMA ConsumeTyped ==
    ASSUME NEW c \in Consumers, NEW bytes \in Seq(AnyByte)
    PROVE  ConsumeStreamBytes(c, bytes) \in Consumers
  <1>1. PICK b \in Seq(AnyByte), fs \in Seq(Frames), e \in BOOLEAN : c = Con(b, fs, e)
    <2>1. c.buffer \in Seq(AnyByte) /\ c.frames \in Seq(Frames) /\ c.error \in BOOLEAN
      BY DEF Consumers
    <2>2. QED
      BY <2>1, ConIs
  <1>2. CASE e \/ Len(b) + Len(bytes) > SmuxBuf
    <2>1. ConsumeStreamBytes(c, bytes) = Con(b, fs, TRUE)
      BY <1>1, <1>2, ConsumeIs
    <2>2. QED
      BY <2>1 DEF Con, Consumers
  <1>3. CASE ~(e \/ Len(b) + Len(bytes) > SmuxBuf)
    <2>1. PICK r \in Seq(AnyByte) : r = b \o bytes
      BY ConcatProperties
    <2>2. PICK d : d = Con(r, fs, e)
      OBVIOUS
    <2>3. d \in Consumers
      BY <2>2 DEF Con, Consumers
    <2>4. TakeFrames(d) \in Consumers
      BY <2>3, TakeFrameTyped, TakeFramesEnd
    <2>5. QED
      BY <1>1, <1>3, <2>1, <2>2, <2>4, ConsumeIs
  <1>4. QED
    BY <1>2, <1>3

\* f[k] is the consumer after k chunks.
Consuming(f, chunks) ==
    /\ f[0] = Consumer
    /\ \A k \in 1..Len(chunks) : f[k] = ConsumeStreamBytes(f[k - 1], chunks[k])
    /\ Consumed(chunks) = f[Len(chunks)]

\* The consumers after each chunk exist, so Consumed is the last of them.
LEMMA ConsumedIs ==
    ASSUME Consumer \in Consumers, NEW chunks \in Seq(Seq(AnyByte))
    PROVE  \E f : Consuming(f, chunks)
  <1> DEFINE n == Len(chunks)
             F == [x \in Nat \X Consumers |->
                      IF x[1] \in 1..n THEN ConsumeStreamBytes(x[2], chunks[x[1]]) ELSE x[2]]
             Rec(g) == g = [k \in 0..n |-> IF k = 0 THEN Consumer ELSE ConsumeStreamBytes(g[k - 1], chunks[k])]
             R == CHOOSE g : Rec(g)
  <1>1. n \in Nat /\ \A k \in 1..n : chunks[k] \in Seq(AnyByte)
    BY LenProperties, ElementOfSeq
  <1>2. Consumed(chunks) = R[n]
    BY DEF Consumed
  <1> HIDE DEF n
  <1>3. \A k \in Nat, x \in Consumers :
           F[<<k, x>>] = IF k \in 1..n THEN ConsumeStreamBytes(x, chunks[k]) ELSE x
    OBVIOUS
  <1>4. \A k \in Nat, x \in Consumers : F[<<k, x>>] \in Consumers
    BY <1>1, <1>3, ConsumeTyped
  <1>5. F \in [Nat \X Consumers -> Consumers]
    <2>1. \A x \in Nat \X Consumers : x = <<x[1], x[2]>> /\ x[1] \in Nat /\ x[2] \in Consumers
      OBVIOUS
    <2>2. \A x \in Nat \X Consumers : F[x] \in Consumers
      BY <1>4, <2>1, Zenon
    <2>3. F = [x \in Nat \X Consumers |-> F[x]]
      BY Zenon
    <2> HIDE DEF F
    <2>4. QED
      BY <2>2, <2>3
  <1> HIDE DEF F
  <1>6. PICK f \in [0..n -> Consumers] : Iterates(f, F, Consumer, n)
    BY <1>1, <1>5, IteratesExist
  <1>7. \A k \in 0..n : f[k] = IF k = 0 THEN Consumer ELSE ConsumeStreamBytes(f[k - 1], chunks[k])
    <2>1. f[0] = Consumer
      BY <1>6 DEF Iterates
    <2>2. ASSUME NEW k \in 0..n, k # 0 PROVE f[k] = ConsumeStreamBytes(f[k - 1], chunks[k])
      <3>1. k \in 1..n /\ k \in Nat /\ k - 1 \in 0..n
        BY <1>1, <2>2
      <3>2. f[k] = F[<<k, f[k - 1]>>] /\ f[k - 1] \in Consumers
        BY <1>6, <3>1 DEF Iterates
      <3>3. QED
        BY <1>3, <3>1, <3>2
    <2>3. QED
      BY <2>1, <2>2
  <1>8. Rec(f)
    <2>1. f = [k \in 0..n |-> f[k]]
      BY Zenon
    <2>2. QED
      BY <1>7, <2>1, Zenon
  <1>9. Rec(R)
    <2> HIDE DEF Rec
    <2>1. QED
      BY <1>8, Zenon
  <1> HIDE DEF R
  <1>10. \A k \in 0..n : R[k] = IF k = 0 THEN Consumer ELSE ConsumeStreamBytes(R[k - 1], chunks[k])
    BY <1>9, Zenon
  <1> HIDE DEF Rec
  <1>11. R[0] = Consumer
    BY <1>1, <1>10
  <1>12. \A k \in 1..n : R[k] = ConsumeStreamBytes(R[k - 1], chunks[k])
    <2>1. \A k \in 1..n : k \in 0..n /\ k # 0
      BY <1>1
    <2>2. QED
      BY <1>10, <2>1, Zenon
  <1>13. Consuming(R, chunks)
    BY <1>2, <1>11, <1>12 DEF Consuming, n
  <1>14. QED
    BY <1>13

-----------------------------------------------------------------------------
(* The chunks of a segment, one after another.                              *)

\* A piece is a sequence, said as itself: Joined relates a sequence to any way
\* of cutting it.
Pieces(S) == {<<p, <<p>>>> : p \in Seq(S)}

\* The sequences that the pieces they are cut into make up.
Joined(S) == Composed(S, Seq(S), Pieces(S))

\* Pieces are pairs of the right kind.
LEMMA PiecesAre ==
    ASSUME NEW S
    PROVE  Pieces(S) \in SUBSET (Seq(S) \X Seq(Seq(S)))
  <1>1. ASSUME NEW p \in Seq(S) PROVE <<p, <<p>>>> \in Seq(S) \X Seq(Seq(S))
    <2>1. PICK q : q = <<p>>
      OBVIOUS
    <2>2. q \in Seq(Seq(S))
      BY <2>1
    <2>3. <<p, q>> \in Seq(S) \X Seq(Seq(S))
      BY <2>2
    <2>4. QED
      BY <2>1, <2>3, Zenon
  <1>2. QED
    BY <1>1, Zenon DEF Pieces

\* p is the first piece of x, and the pieces r make up what is left.
FirstPiece(S, x, p, y, r) == p \in Seq(S) /\ y \in Seq(S) /\ x = p \o y /\ <<y, r>> \in Joined(S)

\* Pieces and what they make up.
LEMMA JoinedParts ==
    ASSUME NEW S, NEW x, NEW parts, <<x, parts>> \in Joined(S)
    PROVE  /\ x \in Seq(S) /\ parts \in Seq(Seq(S))
           /\ parts = <<>> => x = <<>>
           /\ parts # <<>> => \E y : FirstPiece(S, x, parts[1], y, SubSeq(parts, 2, Len(parts)))
  <1>1. Pieces(S) \in SUBSET (Seq(S) \X Seq(Seq(S)))
    BY PiecesAre
  <1>2. <<x, parts>> \in Composed(S, Seq(S), Pieces(S))
    BY DEF Joined
  <1>3. x \in Seq(S) /\ parts \in Seq(Seq(S))
    BY <1>1, <1>2, ComposedPair
  <1>4. (x = <<>> /\ parts = <<>>) \/ StartsWithUnit(S, Seq(S), Pieces(S), x, parts)
    BY <1>1, <1>2, ComposedInversion
  <1>5. ASSUME StartsWithUnit(S, Seq(S), Pieces(S), x, parts)
        PROVE  parts # <<>> /\ \E y : FirstPiece(S, x, parts[1], y, SubSeq(parts, 2, Len(parts)))
    <2>1. PICK a, p, c, r : /\ <<a, p>> \in Pieces(S) /\ <<c, r>> \in Composed(S, Seq(S), Pieces(S))
                            /\ x = a \o c /\ parts = p \o r
      BY <1>5 DEF StartsWithUnit
    <2>2. a \in Seq(S) /\ p = <<a>>
      BY <2>1 DEF Pieces
    <2>3. c \in Seq(S) /\ r \in Seq(Seq(S))
      BY <1>1, <2>1, ComposedPair
    <2>4. p \in Seq(Seq(S)) /\ Len(p) = 1 /\ p # <<>> /\ p[1] = a
      BY <2>2
    <2>5. parts # <<>> /\ parts[1] = a
      BY <2>1, <2>3, <2>4, FirstOf
    <2>6. SubSeq(parts, 2, Len(parts)) = r
      <3>1. parts \o <<>> = p \o r /\ <<>> \in Seq(Seq(S))
        BY <1>3, <2>1, ConcatEmptySeq, EmptySeq
      <3>2. Len(p) <= Len(parts)
        BY <2>1, <2>3, <2>4, FirstOf
      <3>3. Leaves(Seq(S), parts, <<>>, p, r)
        BY <1>3, <2>3, <2>4, <3>1, <3>2, CutTwice
      <3>4. PICK d : d = SubSeq(parts, Len(p) + 1, Len(parts))
        OBVIOUS
      <3>5. d \in Seq(Seq(S)) /\ d \o <<>> = r
        BY <3>3, <3>4 DEF Leaves
      <3>6. d = r
        BY <3>5, ConcatEmptySeq
      <3>7. QED
        BY <2>4, <3>4, <3>6
    <2>7. FirstPiece(S, x, a, c, r)
      BY <2>1, <2>2, <2>3 DEF FirstPiece, Joined
    <2>8. QED
      BY <2>5, <2>6, <2>7
  <1>6. QED
    BY <1>3, <1>4, <1>5

\* What every chunk leads from K[its bytes and the rest] to K[the rest], all of
\* them lead from K[their bytes and the rest] to K[the rest].
LEMMA ConsumedThrough ==
    ASSUME NEW S, S \subseteq AnyByte, NEW K \in [Seq(S) -> SUBSET Consumers],
           NEW C \in SUBSET Seq(S),
           \A p \in C, y \in Seq(S) : \A c \in K[p \o y] : ConsumeStreamBytes(c, p) \in K[y],
           NEW x, NEW chunks \in Seq(C), <<x, chunks>> \in Joined(S), NEW beyond \in Seq(S),
           Consumer \in K[x \o beyond]
    PROVE  Consumed(chunks) \in K[beyond]
  <1> DEFINE n == Len(chunks)
             Left(k) == SubSeq(chunks, k + 1, n)
  <1>1. x \in Seq(S) /\ chunks \in Seq(Seq(S))
    BY JoinedParts
  <1>2. x \o beyond \in Seq(S)
    BY <1>1, ConcatProperties
  <1>3. n \in Nat /\ (\A k \in 1..n : chunks[k] \in C) /\ \A k \in 1..n : chunks[k] \in Seq(S)
    BY LenProperties, ElementOfSeq
  <1>4. PICK f : Consuming(f, chunks)
    <2>1. Consumer \in Consumers
      BY <1>2
    <2>2. \A p \in Seq(S) : p \in Seq(AnyByte)
      BY SeqMonotonic
    <2>3. Seq(S) \subseteq Seq(AnyByte)
      BY <2>2
    <2>4. chunks \in Seq(Seq(AnyByte))
      BY <1>1, <2>3, SeqMonotonic
    <2>5. QED
      BY <2>1, <2>4, ConsumedIs
  <1> DEFINE Good(k) == \E y \in Seq(S) : <<y, Left(k)>> \in Joined(S) /\ f[k] \in K[y \o beyond]
             N == {k \in Nat : k <= n => Good(k)}
  <1>15. Good(0)
    <2>1. Left(0) = chunks
      BY <1>1, SubSeqFull
    <2>2. f[0] = Consumer
      BY <1>4 DEF Consuming
    <2>3. <<x, Left(0)>> \in Joined(S) /\ f[0] \in K[x \o beyond]
      BY <2>1, <2>2
    <2> HIDE DEF Left
    <2>4. QED
      BY <1>1, <2>3
  <1>16. ASSUME NEW k \in Nat, k + 1 <= n, Good(k) PROVE Good(k + 1)
    <2>2. k + 1 \in 1..n /\ (k + 1) - 1 = k
      BY <1>16
    <2>3. PICK y \in Seq(S) : <<y, Left(k)>> \in Joined(S) /\ f[k] \in K[y \o beyond]
      BY <1>16
    <2> HIDE DEF Good, N
    <2>4. PICK l : l = Left(k)
      OBVIOUS
    <2>5. l # <<>> /\ l[1] = chunks[k + 1] /\ SubSeq(l, 2, Len(l)) = Left(k + 1)
      <3>1. k + 1 \in 1..n /\ n \in (k + 1)..n
        BY <2>2, <1>3
      <3>2. l = <<chunks[k + 1]>> \o SubSeq(chunks, (k + 1) + 1, n)
        BY <1>1, <2>4, <3>1, SubSeqRecursiveFirst
      <3>3. PICK a, r : a = chunks[k + 1] /\ r = SubSeq(chunks, (k + 1) + 1, n)
        OBVIOUS
      <3>4. r \in Seq(Seq(S))
        <4>1. k + 1 \in 0..n
          BY <2>2
        <4>2. QED
          BY <1>1, <3>3, <4>1, CutHere
      <3>5. a \in Seq(S)
        BY <1>3, <2>2, <3>3
      <3>6. PICK q : q = <<a>>
        OBVIOUS
      <3>7. q \in Seq(Seq(S)) /\ Len(q) = 1 /\ q # <<>> /\ q[1] = a
        BY <3>5, <3>6
      <3>8. l = q \o r
        BY <3>2, <3>3, <3>6
      <3>9. l # <<>> /\ l[1] = a /\ Len(l) >= 1
        BY <3>4, <3>7, <3>8, FirstOf
      <3>10. l \in Seq(Seq(S)) /\ l \o <<>> = l /\ <<>> \in Seq(Seq(S))
        BY <3>4, <3>7, <3>8, ConcatProperties, ConcatEmptySeq, EmptySeq
      <3>11. Leaves(Seq(S), l, <<>>, q, r)
        BY <3>4, <3>7, <3>8, <3>9, <3>10, CutTwice
      <3>12. PICK d : d = SubSeq(l, Len(q) + 1, Len(l))
        OBVIOUS
      <3>13. d \in Seq(Seq(S)) /\ d \o <<>> = r
        BY <3>11, <3>12 DEF Leaves
      <3>14. d = r
        BY <3>13, ConcatEmptySeq
      <3>15. QED
        <4>1. SubSeq(l, 2, Len(l)) = d
          BY <3>7, <3>12
        <4>2. r = Left(k + 1)
          BY <3>3
        <4> HIDE DEF Left
        <4>3. QED
          BY <3>3, <3>9, <3>14, <4>1, <4>2
    <2> HIDE DEF Left
    <2>6. PICK p : p = chunks[k + 1]
      OBVIOUS
    <2>7. PICK z : FirstPiece(S, y, p, z, Left(k + 1))
      <3>1. <<y, l>> \in Joined(S)
        BY <2>3, <2>4
      <3>2. \E z : FirstPiece(S, y, l[1], z, SubSeq(l, 2, Len(l)))
        BY <2>5, <3>1, JoinedParts
      <3>3. QED
        BY <2>5, <2>6, <3>2, Zenon
    <2>8. p \in C /\ z \in Seq(S) /\ y = p \o z /\ <<z, Left(k + 1)>> \in Joined(S) /\ p \in Seq(S)
      BY <1>3, <2>2, <2>6, <2>7 DEF FirstPiece
    <2>13. z \o beyond \in Seq(S)
      BY <2>8, ConcatProperties
    <2>14. (p \o z) \o beyond = p \o (z \o beyond)
      BY <2>8, Associative
    <2>9. y \o beyond = p \o (z \o beyond) /\ z \o beyond \in Seq(S)
      BY <2>8, <2>13, <2>14, Zenon
    <2>10. ConsumeStreamBytes(f[k], p) \in K[z \o beyond]
      BY <2>3, <2>8, <2>9
    <2>11. f[k + 1] = ConsumeStreamBytes(f[k], p)
      BY <1>4, <2>2, <2>6 DEF Consuming
    <2>12. QED
      BY <2>8, <2>10, <2>11, Zenon DEF Good
  <1> HIDE DEF Good
  <1>5. 0 \in N
    BY <1>15
  <1>6. ASSUME NEW k \in N PROVE k + 1 \in N
    BY <1>3, <1>16
  <1>7. N = Nat
    <2>1. N \in SUBSET Nat
      OBVIOUS
    <2> HIDE DEF N
    <2>2. QED
      BY <1>5, <1>6, <2>1, SetInduction, Zenon
  <1>8. PICK y \in Seq(S) : <<y, Left(n)>> \in Joined(S) /\ f[n] \in K[y \o beyond]
    <2>1. Good(n)
      <3> HIDE DEF n
      <3>1. n \in N /\ n <= n
        <4> HIDE DEF N
        <4>1. QED
          BY <1>3, <1>7
      <3>2. QED
        BY <3>1
    <2> HIDE DEF n, Left
    <2>2. QED
      BY <2>1, Zenon DEF Good
  <1>9. y = <<>>
    <2>1. Left(n) = <<>>
      BY <1>3, SubSeqEmpty
    <2>2. QED
      BY <1>8, <2>1, JoinedParts
  <1>10. y \o beyond = beyond
    BY <1>9, ConcatEmptySeq
  <1>11. Consumed(chunks) = f[n]
    BY <1>4 DEF Consuming
  <1>12. QED
    BY <1>8, <1>10, <1>11

\* Associative, for bytes.
LEMMA FrameRegroup ==
    ASSUME NEW a \in Seq(FrameByte), NEW b \in Seq(FrameByte), NEW c \in Seq(FrameByte)
    PROVE  (a \o b) \o c = a \o (b \o c)
  BY ConcatAssociative

\* The same for bytes of chunks.
LEMMA ChunkRegroup ==
    ASSUME NEW a \in Seq(ChunkByte), NEW b \in Seq(ChunkByte), NEW c \in Seq(ChunkByte)
    PROVE  (a \o b) \o c = a \o (b \o c)
  BY ConcatAssociative

\* The same for any bytes.
LEMMA AnyRegroup ==
    ASSUME NEW a \in Seq(AnyByte), NEW b \in Seq(AnyByte), NEW c \in Seq(AnyByte)
    PROVE  (a \o b) \o c = a \o (b \o c)
  BY ConcatAssociative

\* A consumer that has all the frames up to what is ahead, or has called
\* protocol_error for want of room, which is for sure not to be.
UpOr(v, all, ahead, sure) ==
    {c \in Consumers : /\ \E r \in Seq(Frames) : all = c.frames \o r
                       /\ c.error => ~sure
                       /\ ~c.error => c \in UpTo(v, all, ahead) /\ Settled(c.buffer)}

\* A buffer that waits holds less than the longest frame.
LEMMA SettledWaits ==
    ASSUME NEW b \in Seq(FrameByte), Settled(b)
    PROVE  Len(b) \in Nat /\ Len(b) <= MostWaiting /\ MostWaiting \in Nat
  <1>1. Longest \in Nat /\ Longest >= HeaderSize /\ HeaderSize \in Nat \ {0} /\ MostWaiting = Longest - 1
    BY LongestIs, FramingAssumption DEF MostWaiting
  <1>2. Len(b) \in Nat
    BY LenProperties
  <1>3. CASE b = <<>>
    BY <1>1, <1>3, EmptySeq
  <1>4. CASE b # <<>>
    <2>1. Len(b) > 0
      BY <1>4, EmptySeq
    <2>2. b \in Seq(AnyByte)
      BY AnyBytes
    <2>3. b[1].size \in Nat
      BY <2>1, <2>2, FirstByte
    <2>4. QED
      BY <1>1, <1>2, <1>4, <2>3 DEF Settled
  <1>5. QED
    BY <1>3, <1>4

\* consume_stream_bytes keeps UpOr, and with room enough reports no error.
LEMMA ConsumeUp ==
    ASSUME NEW v \in {1, 2}, v = config.to.smuxver, SmuxBuf \in Nat, NEW all \in Seq(Frames),
           NEW ahead \in Seq(FrameByte), NEW sure \in BOOLEAN, NEW bytes \in Seq(FrameByte),
           sure => MostWaiting + Len(bytes) <= SmuxBuf,
           NEW c \in UpOr(v, all, bytes \o ahead, sure)
    PROVE  ConsumeStreamBytes(c, bytes) \in UpOr(v, all, ahead, sure)
  <1>1. PICK b, fs, e : b = c.buffer /\ fs = c.frames /\ e = c.error
    OBVIOUS
  <1>2. c \in Consumers /\ b \in Seq(AnyByte) /\ fs \in Seq(Frames) /\ e \in BOOLEAN
    BY <1>1 DEF UpOr, Consumers
  <1>3. c = Con(b, fs, e)
    BY <1>1, <1>2, ConIs
  <1>4. PICK r \in Seq(Frames) : all = fs \o r
    BY <1>1 DEF UpOr
  <1>5. Len(bytes) \in Nat /\ Len(b) \in Nat
    BY <1>2, LenProperties
  <1>6. CASE e \/ Len(b) + Len(bytes) > SmuxBuf
    <2>1. ConsumeStreamBytes(c, bytes) = Con(b, fs, TRUE)
      BY <1>2, <1>3, <1>6, ConsumeIs
    <2>2. ~sure
      <3>1. CASE e
        BY <1>1, <3>1 DEF UpOr
      <3>2. CASE ~e
        <4>1. c \in UpTo(v, all, bytes \o ahead) /\ Settled(b)
          BY <1>1, <3>2 DEF UpOr
        <4>2. b \in Seq(FrameByte)
          BY <1>1, <4>1 DEF UpTo
        <4>3. Len(b) <= MostWaiting /\ MostWaiting \in Nat
          BY <4>1, <4>2, SettledWaits
        <4>4. QED
          BY <1>5, <1>6, <3>2, <4>3
      <3>3. QED
        BY <3>1, <3>2
    <2>3. PICK d : d = Con(b, fs, TRUE)
      OBVIOUS
    <2>4. d \in Consumers /\ d.frames = fs /\ d.error = TRUE
      BY <1>2, <2>3 DEF Con, Consumers
    <2>5. QED
      BY <1>4, <2>1, <2>2, <2>3, <2>4 DEF UpOr
  <1>7. CASE ~(e \/ Len(b) + Len(bytes) > SmuxBuf)
    <2>1. c \in UpTo(v, all, bytes \o ahead)
      BY <1>1, <1>7 DEF UpOr
    <2>2. PICK rest \in Seq(Frames) : all = fs \o rest /\ <<b \o (bytes \o ahead), rest>> \in Spelled(v)
      BY <1>1, <2>1 DEF UpTo
    <2>3. b \in Seq(FrameByte)
      BY <1>1, <2>1 DEF UpTo
    <2>4. PICK w \in Seq(FrameByte) : w = b \o bytes
      BY <2>3, ConcatProperties
    <2>5. (b \o bytes) \o ahead = b \o (bytes \o ahead)
      BY <2>3, FrameRegroup, Zenon
    <2>6. <<w \o ahead, rest>> \in Spelled(v)
      BY <2>2, <2>4, <2>5
    <2>7. PICK d : d = Con(w, fs, e)
      OBVIOUS
    <2>8. w \in Seq(AnyByte)
      BY AnyBytes
    <2>9. d \in Consumers /\ d.buffer = w /\ d.frames = fs /\ d.error = e
      BY <1>2, <2>7, <2>8 DEF Con, Consumers
    <2>10. d \in UpTo(v, all, ahead)
      BY <1>7, <2>2, <2>6, <2>9 DEF UpTo
    <2>11. TakeFrames(d) \in UpTo(v, all, ahead) /\ Settled(TakeFrames(d).buffer)
      BY <2>10, TakeFramesUp
    <2>12. ConsumeStreamBytes(c, bytes) = TakeFrames(d)
      BY <1>2, <1>3, <1>7, <2>4, <2>7, ConsumeIs
    <2>13. PICK t : t = TakeFrames(d)
      OBVIOUS
    <2>14. t \in UpOr(v, all, ahead, sure)
      BY <2>11, <2>13 DEF UpTo, UpOr
    <2>15. QED
      BY <2>12, <2>13, <2>14
  <1>8. QED
    BY <1>6, <1>7

\* So do all the chunks of a segment.
LEMMA ConsumedUp ==
    ASSUME NEW v \in {1, 2}, v = config.to.smuxver, SmuxBuf \in Nat, NEW all \in Seq(Frames),
           NEW sure \in BOOLEAN, NEW limit \in Nat, sure => MostWaiting + limit <= SmuxBuf,
           NEW x, NEW chunks \in Seq({p \in Seq(FrameByte) : Len(p) <= limit}),
           <<x, chunks>> \in Joined(FrameByte), NEW beyond \in Seq(FrameByte),
           Consumer \in UpOr(v, all, x \o beyond, sure)
    PROVE  Consumed(chunks) \in UpOr(v, all, beyond, sure)
  <1> DEFINE C == {p \in Seq(FrameByte) : Len(p) <= limit}
             K == [y \in Seq(FrameByte) |-> UpOr(v, all, y, sure)]
  <1>1. \A y \in Seq(FrameByte) : K[y] = UpOr(v, all, y, sure)
    OBVIOUS
  <1>2. K \in [Seq(FrameByte) -> SUBSET Consumers]
    BY DEF UpOr
  <1> HIDE DEF K
  <1>3. ASSUME NEW p \in C, NEW y \in Seq(FrameByte), NEW c \in K[p \o y]
        PROVE  ConsumeStreamBytes(c, p) \in K[y]
    <2>1. p \in Seq(FrameByte) /\ Len(p) <= limit /\ Len(p) \in Nat
      BY LenProperties
    <2>2. p \o y \in Seq(FrameByte)
      BY <2>1, ConcatProperties
    <2>3. c \in UpOr(v, all, p \o y, sure)
      BY <1>1, <2>2
    <2>4. sure => MostWaiting + Len(p) <= SmuxBuf
      <3>1. MostWaiting \in Int
        BY LongestIs DEF MostWaiting
      <3>2. QED
        BY <2>1, <3>1
    <2>5. ConsumeStreamBytes(c, p) \in UpOr(v, all, y, sure)
      BY <2>1, <2>3, <2>4, ConsumeUp
    <2>6. QED
      BY <1>1, <2>5
  <1>4. C \in SUBSET Seq(FrameByte) /\ chunks \in Seq(C)
    OBVIOUS
  <1> HIDE DEF C
  <1>5. x \o beyond \in Seq(FrameByte)
    <2>1. x \in Seq(FrameByte)
      BY JoinedParts
    <2>2. QED
      BY <2>1, ConcatProperties
  <1>6. Consumer \in K[x \o beyond]
    BY <1>1, <1>5
  <1>7. FrameByte \subseteq AnyByte
    BY DEF AnyByte
  <1>8. Consumed(chunks) \in K[beyond]
    BY <1>2, <1>3, <1>4, <1>6, <1>7, ConsumedThrough
  <1>9. QED
    BY <1>1, <1>8

\* Those that have refused the stream or lack a header.
RefusedBy(ahead) == {c \in ForeignTo(ahead) : Refuses(c)}

\* consume_stream_bytes takes nothing of a stream that is refused.
LEMMA ConsumeForeign ==
    ASSUME NEW ahead \in Seq(AnyByte), NEW bytes \in Seq(AnyByte), NEW c \in RefusedBy(bytes \o ahead)
    PROVE  ConsumeStreamBytes(c, bytes) \in RefusedBy(ahead)
  <1>1. PICK b, fs, e : b = c.buffer /\ fs = c.frames /\ e = c.error
    OBVIOUS
  <1>2. /\ c \in Consumers /\ b \in Seq(AnyByte) /\ fs \in Seq(Frames) /\ e \in BOOLEAN /\ fs = <<>>
        /\ e \/ Foreign(b \o (bytes \o ahead))
    BY <1>1 DEF RefusedBy, ForeignTo, Consumers
  <1>3. c = Con(b, fs, e)
    BY <1>1, <1>2, ConIs
  <1>4. CASE e \/ Len(b) + Len(bytes) > SmuxBuf
    <2>1. ConsumeStreamBytes(c, bytes) = Con(b, fs, TRUE)
      BY <1>2, <1>3, <1>4, ConsumeIs
    <2>2. PICK d : d = Con(b, fs, TRUE)
      OBVIOUS
    <2>3. d \in Consumers /\ d.frames = <<>> /\ d.error = TRUE
      BY <1>2, <2>2 DEF Con, Consumers
    <2>4. QED
      BY <2>1, <2>2, <2>3 DEF RefusedBy, ForeignTo, Refuses
  <1>5. CASE ~(e \/ Len(b) + Len(bytes) > SmuxBuf)
    <2>1. PICK w \in Seq(AnyByte) : w = b \o bytes
      BY <1>2, ConcatProperties
    <2>2. (b \o bytes) \o ahead = b \o (bytes \o ahead)
      BY <1>2, Associative
    <2>3. Foreign(w \o ahead)
      BY <1>2, <1>5, <2>1, <2>2
    <2>4. PICK d : d = Con(w, fs, e)
      OBVIOUS
    <2>5. d \in Consumers /\ d.buffer = w /\ d.frames = <<>>
      BY <1>2, <2>4 DEF Con, Consumers
    <2>6. d \in ForeignTo(ahead)
      BY <2>3, <2>5 DEF ForeignTo
    <2>7. TakeFrames(d) \in ForeignTo(ahead) /\ Refuses(TakeFrames(d))
      BY <2>6, TakeFramesForeign
    <2>8. ConsumeStreamBytes(c, bytes) = TakeFrames(d)
      BY <1>2, <1>3, <1>5, <2>1, <2>4, ConsumeIs
    <2>9. QED
      BY <2>7, <2>8 DEF RefusedBy
  <1>6. QED
    BY <1>4, <1>5

\* Nor does it of all the chunks of a segment.
LEMMA ConsumedForeign ==
    ASSUME NEW S, S \subseteq AnyByte, NEW x, NEW chunks \in Seq(Seq(S)), <<x, chunks>> \in Joined(S),
           NEW beyond \in Seq(S), Consumer \in RefusedBy(x \o beyond)
    PROVE  Consumed(chunks) \in RefusedBy(beyond)
  <1> DEFINE K == [y \in Seq(S) |-> RefusedBy(y)]
  <1>1. \A y \in Seq(S) : K[y] = RefusedBy(y)
    OBVIOUS
  <1>2. K \in [Seq(S) -> SUBSET Consumers]
    BY DEF RefusedBy, ForeignTo
  <1> HIDE DEF K
  <1>3. \A y \in Seq(S) : y \in Seq(AnyByte)
    BY SeqMonotonic
  <1>4. ASSUME NEW p \in Seq(S), NEW y \in Seq(S), NEW c \in K[p \o y]
        PROVE  ConsumeStreamBytes(c, p) \in K[y]
    <2>1. p \o y \in Seq(S)
      BY ConcatProperties
    <2>2. c \in RefusedBy(p \o y)
      BY <1>1, <2>1
    <2>3. QED
      BY <1>1, <1>3, <2>2, ConsumeForeign
  <1>5. x \o beyond \in Seq(S)
    <2>1. x \in Seq(S)
      BY JoinedParts
    <2>2. QED
      BY <2>1, ConcatProperties
  <1>6. Consumer \in K[x \o beyond]
    BY <1>1, <1>5
  <1>7. Consumed(chunks) \in K[beyond]
    <2>1. PICK C : C = Seq(S)
      OBVIOUS
    <2>2. C \in SUBSET Seq(S) /\ chunks \in Seq(C)
      BY <2>1
    <2>3. \A p \in C, y \in Seq(S) : \A c \in K[p \o y] : ConsumeStreamBytes(c, p) \in K[y]
      BY <1>4, <2>1, Zenon
    <2>4. QED
      BY <1>2, <1>6, <2>2, <2>3, ConsumedThrough
  <1>8. QED
    BY <1>1, <1>7

\* A sequence is its only piece.
LEMMA JoinedOne ==
    ASSUME NEW S, NEW b \in Seq(S)
    PROVE  <<b, <<b>>>> \in Joined(S)
  <1>1. PICK q : q = <<b>>
    OBVIOUS
  <1>2. <<b, q>> \in Pieces(S)
    BY <1>1, Zenon DEF Pieces
  <1>3. Pieces(S) \in SUBSET (Seq(S) \X Seq(Seq(S)))
    BY PiecesAre
  <1>4. <<b, q>> \in Composed(S, Seq(S), Pieces(S))
    BY <1>2, <1>3, ComposedUnit
  <1>5. QED
    BY <1>1, <1>4 DEF Joined

-----------------------------------------------------------------------------
(* The chunks in the compressed bytes.                                      *)

\* What a chunk can carry: some bytes of a frame.
Plain == {p \in Seq(FrameByte) : Len(p) <= Longest}

\* Each data chunk, with the plain bytes it carries.
ChunkUnits == {<<MakeDataChunk(x[1], x[2]), <<x[1]>>>> : x \in Plain \X Nat}

\* Data chunks and the plain bytes they carry.
Chunked == Composed(ChunkByte, Plain, ChunkUnits)

\* Every unit is the bytes of a data chunk.
LEMMA ChunkUnitsAre ==
    /\ ChunkUnits \in SUBSET (Seq(ChunkByte) \X Seq(Plain))
    /\ \A p \in Plain, q \in Nat : <<MakeDataChunk(p, q), <<p>>>> \in ChunkUnits
    /\ \A a, p : <<a, p>> \in ChunkUnits => \E x \in Plain, q \in Nat : a = MakeDataChunk(x, q) /\ p = <<x>>
  <1>1. ASSUME NEW p \in Plain, NEW q \in Nat
        PROVE  <<MakeDataChunk(p, q), <<p>>>> \in Seq(ChunkByte) \X Seq(Plain)
    <2>1. p \in Seq(FrameByte)
      BY DEF Plain
    <2>2. MakeDataChunk(p, q) \in Seq(ChunkByte)
      BY <2>1, DataChunkIs
    <2>3. <<p>> \in Seq(Plain)
      OBVIOUS
    <2>4. PICK a, s : a = MakeDataChunk(p, q) /\ s = <<p>>
      OBVIOUS
    <2>5. <<a, s>> \in Seq(ChunkByte) \X Seq(Plain)
      BY <2>2, <2>3, <2>4
    <2>6. QED
      BY <2>4, <2>5, Zenon
  <1>2. \A x \in Plain \X Nat : x[1] \in Plain /\ x[2] \in Nat
    OBVIOUS
  <1>3. ChunkUnits \in SUBSET (Seq(ChunkByte) \X Seq(Plain))
    BY <1>1, <1>2, Zenon DEF ChunkUnits
  <1>4. ASSUME NEW p \in Plain, NEW q \in Nat PROVE <<MakeDataChunk(p, q), <<p>>>> \in ChunkUnits
    <2>1. PICK x \in Plain \X Nat : x[1] = p /\ x[2] = q
      <3>1. <<p, q>> \in Plain \X Nat /\ <<p, q>>[1] = p /\ <<p, q>>[2] = q
        OBVIOUS
      <3>2. QED
        BY <3>1
    <2>2. <<MakeDataChunk(x[1], x[2]), <<x[1]>>>> \in ChunkUnits
      BY Zenon DEF ChunkUnits
    <2>3. QED
      BY <2>1, <2>2
  <1>5. ASSUME NEW a, NEW p, <<a, p>> \in ChunkUnits
        PROVE  \E x \in Plain, q \in Nat : a = MakeDataChunk(x, q) /\ p = <<x>>
    <2>1. PICK x \in Plain \X Nat : <<a, p>> = <<MakeDataChunk(x[1], x[2]), <<x[1]>>>>
      BY <1>5, Zenon DEF ChunkUnits
    <2>2. PICK y, z : y = MakeDataChunk(x[1], x[2]) /\ z = <<x[1]>>
      OBVIOUS
    <2>3. <<a, p>> = <<y, z>>
      BY <2>1, <2>2
    <2>4. a = y /\ p = z
      BY <2>3
    <2>5. QED
      BY <1>2, <2>2, <2>4
  <1>6. QED
    BY <1>3, <1>4, <1>5

\* What comes to a decoder that has or has not seen the identifier.
Lead(saw, b, plains) ==
    IF saw THEN <<b, plains>> \in Chunked
    ELSE \E c : b = Identifier \o c /\ <<c, plains>> \in Chunked

\* Bytes that have begun to arrive start with a unit of n bytes.
Behind(b, n) == SubSeq(b, n + 1, Len(b))

\* A chunk that carries p is in front.
Wraps(b, ahead, plains, p, r, n) ==
    /\ plains = <<p>> \o r /\ n >= ChunkHeader
    /\ b[1] = [unit |-> [kind |-> "data", plain |-> p], pos |-> 1, size |-> n]
    /\ Len(b) >= n => /\ Behind(b, n) \in Seq(ChunkByte) /\ Len(Behind(b, n)) = Len(b) - n
                      /\ <<Behind(b, n) \o ahead, r>> \in Chunked

\* A composition that begins with a byte of a chunk begins with that chunk.
LEMMA ChunkFront ==
    ASSUME NEW b \in Seq(ChunkByte), NEW ahead \in Seq(ChunkByte), NEW plains,
           b # <<>>, <<b \o ahead, plains>> \in Chunked
    PROVE  \E p \in Plain, r \in Seq(Plain), n \in Nat \ {0} : Wraps(b, ahead, plains, p, r, n)
  <1>1. b \o ahead # <<>> /\ (b \o ahead)[1] = b[1]
    BY FirstOf
  <1>2. PICK a, s, c, r : /\ <<a, s>> \in ChunkUnits /\ <<c, r>> \in Chunked
                          /\ b \o ahead = a \o c /\ plains = s \o r
    <2>1. ChunkUnits \in SUBSET (Seq(ChunkByte) \X Seq(Plain))
      BY ChunkUnitsAre
    <2>2. PICK w : w = b \o ahead
      OBVIOUS
    <2>3. <<w, plains>> \in Composed(ChunkByte, Plain, ChunkUnits)
      BY <2>2 DEF Chunked
    <2>4. (w = <<>> /\ plains = <<>>) \/ StartsWithUnit(ChunkByte, Plain, ChunkUnits, w, plains)
      BY <2>1, <2>3, ComposedInversion
    <2>5. w # <<>>
      BY <1>1, <2>2
    <2>6. \E a, p, c, r : <<a, p>> \in ChunkUnits /\ <<c, r>> \in Chunked /\ w = a \o c /\ plains = p \o r
      BY <2>4, <2>5, Zenon DEF Chunked, StartsWithUnit
    <2>7. QED
      BY <2>2, <2>6, Zenon
  <1>3. PICK p \in Plain, q \in Nat : a = MakeDataChunk(p, q) /\ s = <<p>>
    BY <1>2, ChunkUnitsAre
  <1>4. c \in Seq(ChunkByte) /\ r \in Seq(Plain)
    BY <1>2, ChunkUnitsAre, ComposedPair DEF Chunked
  <1>5. PICK n \in Nat \ {0} :
           /\ n >= ChunkHeader /\ a \in Seq(ChunkByte) /\ a # <<>> /\ Len(a) = n
           /\ a[1] = [unit |-> [kind |-> "data", plain |-> p], pos |-> 1, size |-> n]
    <2>1. p \in Seq(FrameByte)
      BY DEF Plain
    <2>2. QED
      BY <1>3, <2>1, DataChunkIs
  <1>6. b[1] = a[1]
    BY <1>1, <1>2, <1>4, <1>5, FirstOf
  <1>7. ASSUME Len(b) >= n
        PROVE  /\ Behind(b, n) \in Seq(ChunkByte) /\ Len(Behind(b, n)) = Len(b) - n
               /\ Behind(b, n) \o ahead = c
    <2>1. Len(a) <= Len(b)
      <3>1. Len(b) \in Nat
        BY LenProperties
      <3>2. QED
        BY <1>5, <1>7, <3>1
    <2>2. Leaves(ChunkByte, b, ahead, a, c)
      BY <1>2, <1>4, <1>5, <2>1, CutTwice
    <2>3. Len(a) = n
      BY <1>5
    <2>4. QED
      BY <2>2, <2>3, Zenon DEF Leaves, Behind
  <1>8. b[1] = [unit |-> [kind |-> "data", plain |-> p], pos |-> 1, size |-> n]
    BY <1>5, <1>6
  <1>9. plains = <<p>> \o r
    BY <1>2, <1>3
  <1>10. Len(b) >= n => /\ Behind(b, n) \in Seq(ChunkByte) /\ Len(Behind(b, n)) = Len(b) - n
                        /\ <<Behind(b, n) \o ahead, r>> \in Chunked
    BY <1>2, <1>7
  <1>11. QED
    BY <1>4, <1>5, <1>8, <1>9, <1>10, Zenon DEF Wraps

\* The identifier is in front.
Begins(b, ahead, plains, n) ==
    /\ n = IdentifierSize /\ n >= ChunkHeader
    /\ b[1] = [unit |-> [kind |-> "identifier"], pos |-> 1, size |-> n]
    /\ Len(b) >= n => /\ Behind(b, n) \in Seq(ChunkByte) /\ Len(Behind(b, n)) = Len(b) - n
                      /\ <<Behind(b, n) \o ahead, plains>> \in Chunked

\* A stream at its beginning begins with the identifier.
LEMMA IdentifierFront ==
    ASSUME NEW b \in Seq(ChunkByte), NEW ahead \in Seq(ChunkByte), NEW plains,
           b # <<>>, Lead(FALSE, b \o ahead, plains)
    PROVE  \E n \in Nat \ {0} : Begins(b, ahead, plains, n)
  <1>1. b \o ahead # <<>> /\ (b \o ahead)[1] = b[1]
    BY FirstOf
  <1>2. PICK c : b \o ahead = Identifier \o c /\ <<c, plains>> \in Chunked
    BY DEF Lead
  <1>3. c \in Seq(ChunkByte)
    BY <1>2, ChunkUnitsAre, ComposedPair DEF Chunked
  <1>4. PICK n \in Nat \ {0} : n = IdentifierSize /\ n >= ChunkHeader
    BY FramingAssumption
  <1>5. PICK a : a = Identifier
    OBVIOUS
  <1>6. /\ a \in Seq(ChunkByte) /\ a # <<>> /\ Len(a) = n
        /\ a[1] = [unit |-> [kind |-> "identifier"], pos |-> 1, size |-> n]
    BY <1>4, <1>5, IdentifierIs
  <1>7. b[1] = a[1]
    BY <1>1, <1>2, <1>3, <1>5, <1>6, FirstOf
  <1>8. ASSUME Len(b) >= n
        PROVE  /\ Behind(b, n) \in Seq(ChunkByte) /\ Len(Behind(b, n)) = Len(b) - n
               /\ Behind(b, n) \o ahead = c
    <2>1. Len(a) <= Len(b)
      <3>1. Len(b) \in Nat
        BY LenProperties
      <3>2. QED
        BY <1>6, <1>8, <3>1
    <2>2. b \o ahead = a \o c
      BY <1>2, <1>5
    <2>3. Leaves(ChunkByte, b, ahead, a, c)
      BY <1>3, <1>6, <2>1, <2>2, CutTwice
    <2>4. Len(a) = n
      BY <1>6
    <2>5. QED
      BY <2>3, <2>4, Zenon DEF Leaves, Behind
  <1>9. b[1] = [unit |-> [kind |-> "identifier"], pos |-> 1, size |-> n]
    BY <1>6, <1>7
  <1>10. Len(b) >= n => /\ Behind(b, n) \in Seq(ChunkByte) /\ Len(Behind(b, n)) = Len(b) - n
                        /\ <<Behind(b, n) \o ahead, plains>> \in Chunked
    BY <1>2, <1>8
  <1>11. QED
    BY <1>4, <1>9, <1>10, Zenon DEF Begins

-----------------------------------------------------------------------------
(* The loop of decode.                                                      *)

\* What decode works on.
Decoders == [buffer : Seq(AnyByte), saw : BOOLEAN, out : Seq(Plain), error : BOOLEAN]

\* A decoder by its fields.
Dec(b, s, o, e) == [buffer |-> b, saw |-> s, out |-> o, error |-> e]

\* A decoder is its four fields.
LEMMA DecIs ==
    /\ \A d \in Decoders : d = Dec(d.buffer, d.saw, d.out, d.error)
    /\ \A b, s, o, e : /\ Dec(b, s, o, e).buffer = b /\ Dec(b, s, o, e).saw = s
                       /\ Dec(b, s, o, e).out = o /\ Dec(b, s, o, e).error = e
    /\ \A b \in Seq(AnyByte), s \in BOOLEAN, o \in Seq(Plain), e \in BOOLEAN : Dec(b, s, o, e) \in Decoders
  BY DEF Dec, Decoders

\* The three things a round of decode's loop may do.
Broken(d) == [d EXCEPT !.error = TRUE]
Begun(d, r, t) == [d EXCEPT !.buffer = r, !.saw = t]
Unwrapped(d, r, g) == [d EXCEPT !.buffer = r, !.out = g]

\* The fields after an error.
LEMMA BrokenIs ==
    ASSUME NEW b, NEW s, NEW o, NEW e
    PROVE  Broken(Dec(b, s, o, e)) = Dec(b, s, o, TRUE)
  <1>1. PICK B, S, O, E : B = {b} /\ S = {s} /\ O = {o} /\ E = {e, TRUE}
    OBVIOUS
  <1>2. PICK c \in [buffer : B, saw : S, out : O, error : E] : c = Dec(b, s, o, e)
    BY <1>1 DEF Dec
  <1>3. c.buffer = b /\ c.saw = s /\ c.out = o /\ TRUE \in E
    BY <1>1, <1>2 DEF Dec
  <1>4. PICK d : d = [c EXCEPT !.error = TRUE] /\ d = Broken(c)
    BY Zenon DEF Broken
  <1>5. /\ d \in [buffer : B, saw : S, out : O, error : E]
        /\ d.buffer = b /\ d.saw = s /\ d.out = o /\ d.error = TRUE
    BY <1>3, <1>4
  <1>6. d = Dec(b, s, o, TRUE)
    BY <1>3, <1>5 DEF Dec
  <1>7. QED
    BY <1>2, <1>4, <1>6

\* The fields after the identifier.
LEMMA BegunIs ==
    ASSUME NEW b, NEW s, NEW o, NEW e, NEW r, NEW t
    PROVE  Begun(Dec(b, s, o, e), r, t) = Dec(r, t, o, e)
  <1>1. PICK B, S, O, E : B = {b, r} /\ S = {s, t} /\ O = {o} /\ E = {e}
    OBVIOUS
  <1>2. PICK c \in [buffer : B, saw : S, out : O, error : E] : c = Dec(b, s, o, e)
    BY <1>1 DEF Dec
  <1>3. c.out = o /\ c.error = e /\ t \in S /\ r \in B
    BY <1>1, <1>2 DEF Dec
  <1>4. PICK d : d = [c EXCEPT !.buffer = r, !.saw = t] /\ d = Begun(c, r, t)
    BY Zenon DEF Begun
  <1>5. /\ d \in [buffer : B, saw : S, out : O, error : E]
        /\ d.buffer = r /\ d.saw = t /\ d.out = o /\ d.error = e
    BY <1>3, <1>4
  <1>6. d = Dec(r, t, o, e)
    BY <1>3, <1>5 DEF Dec
  <1>7. QED
    BY <1>2, <1>4, <1>6

\* The fields after a data chunk.
LEMMA UnwrappedIs ==
    ASSUME NEW b, NEW s, NEW o, NEW e, NEW r, NEW g
    PROVE  Unwrapped(Dec(b, s, o, e), r, g) = Dec(r, s, g, e)
  <1>1. PICK B, S, O, E : B = {b, r} /\ S = {s} /\ O = {o, g} /\ E = {e}
    OBVIOUS
  <1>2. PICK c \in [buffer : B, saw : S, out : O, error : E] : c = Dec(b, s, o, e)
    BY <1>1 DEF Dec
  <1>3. c.saw = s /\ c.error = e /\ g \in O /\ r \in B
    BY <1>1, <1>2 DEF Dec
  <1>4. PICK d : d = [c EXCEPT !.buffer = r, !.out = g] /\ d = Unwrapped(c, r, g)
    BY Zenon DEF Unwrapped
  <1>5. /\ d \in [buffer : B, saw : S, out : O, error : E]
        /\ d.buffer = r /\ d.saw = s /\ d.out = g /\ d.error = e
    BY <1>3, <1>4
  <1>6. d = Dec(r, s, g, e)
    BY <1>3, <1>5 DEF Dec
  <1>7. QED
    BY <1>2, <1>4, <1>6

\* The byte where a unit other than a frame starts.
StartsChunk(head) == head.pos = 1 /\ head.unit.kind # "frame"

\* A round of decode's loop, case by case.
LEMMA DecodeRoundIs ==
    ASSUME NEW b, NEW s \in BOOLEAN, NEW o, NEW e \in BOOLEAN
    PROVE  DecodeRound(Dec(b, s, o, e)) =
              IF e \/ Len(b) < ChunkHeader THEN Dec(b, s, o, e)
              ELSE IF ~StartsChunk(b[1]) THEN Dec(b, s, o, TRUE)
              ELSE IF Len(b) < b[1].size THEN Dec(b, s, o, e)
              ELSE IF b[1].unit.kind = "identifier" THEN Dec(Behind(b, b[1].size), TRUE, o, e)
              ELSE IF ~s THEN Dec(b, s, o, TRUE)
              ELSE Dec(Behind(b, b[1].size), s, Append(o, b[1].unit.plain), e)
  <1>1. PICK d : d = Dec(b, s, o, e)
    OBVIOUS
  <1>2. d.buffer = b /\ d.saw = s /\ d.out = o /\ d.error = e
    BY <1>1, DecIs
  <1>3. PICK r, g : r = Behind(b, b[1].size) /\ g = Append(o, b[1].unit.plain)
    OBVIOUS
  <1>4. Broken(d) = Dec(b, s, o, TRUE)
    BY <1>1, BrokenIs
  <1>10. PICK t : t = TRUE
    OBVIOUS
  <1>5. Begun(d, r, t) = Dec(r, t, o, e)
    BY <1>1, BegunIs
  <1>6. Unwrapped(d, r, g) = Dec(r, s, g, e)
    BY <1>1, UnwrappedIs
  <1>7. DecodeRound(d) = IF e \/ Len(b) < ChunkHeader THEN d
                         ELSE IF b[1].pos # 1 \/ b[1].unit.kind = "frame" THEN Broken(d)
                         ELSE IF Len(b) < b[1].size THEN d
                         ELSE IF b[1].unit.kind = "identifier" THEN Begun(d, r, t)
                         ELSE IF ~s THEN Broken(d)
                         ELSE Unwrapped(d, r, g)
    BY <1>2, <1>3, <1>10, Zenon DEF DecodeRound, Broken, Begun, Unwrapped, Behind
  <1>8. StartsChunk(b[1]) <=> ~(b[1].pos # 1 \/ b[1].unit.kind = "frame")
    BY DEF StartsChunk
  <1>9. QED
    BY <1>1, <1>3, <1>4, <1>5, <1>6, <1>7, <1>8, <1>10, Zenon

\* The loop ends: every round that does something takes bytes or fails.
LEMMA DecodeRoundsEnd ==
    ASSUME NEW P \in SUBSET Decoders, \A x \in P : DecodeRound(x) \in P, NEW d \in P
    PROVE  DecodeRounds(d) \in P /\ DecodeRound(DecodeRounds(d)) = DecodeRounds(d)
  <1> DEFINE F == [x \in P |-> DecodeRound(x)]
             M == [x \in P |-> Len(x.buffer)]
  <1>1. F \in [P -> P] /\ \A x \in P : F[x] = DecodeRound(x)
    OBVIOUS
  <1>2. M \in [P -> Nat] /\ \A x \in P : M[x] = Len(x.buffer)
    <2>1. \A x \in P : x.buffer \in Seq(AnyByte)
      BY DEF Decoders
    <2>2. \A x \in P : Len(x.buffer) \in Nat
      BY <2>1, LenProperties
    <2>3. QED
      BY <2>2
  <1> HIDE DEF F, M
  <1>3. ASSUME NEW x \in P
        PROVE  /\ F[x] = x \/ F[F[x]] = F[x] \/ M[F[x]] < M[x]
               /\ M[x] = 0 => F[x] = x
    <2>1. PICK b \in Seq(AnyByte), s \in BOOLEAN, o \in Seq(Plain), e \in BOOLEAN : x = Dec(b, s, o, e)
      <3>1. x \in Decoders
        OBVIOUS
      <3>2. x.buffer \in Seq(AnyByte) /\ x.saw \in BOOLEAN /\ x.out \in Seq(Plain) /\ x.error \in BOOLEAN
        BY <3>1 DEF Decoders
      <3>3. QED
        BY <3>1, <3>2, DecIs
    <2>2. Len(b) \in Nat /\ ChunkHeader \in Nat \ {0}
      BY LenProperties, FramingAssumption
    <2>3. M[x] = Len(b)
      BY <1>2, <2>1, DecIs
    <2>4. F[x] = DecodeRound(Dec(b, s, o, e)) /\ F[x] \in P
      BY <1>1, <2>1
    <2>5. CASE e \/ Len(b) < ChunkHeader
      <3>1. F[x] = x
        BY <2>1, <2>4, <2>5, DecodeRoundIs
      <3>2. QED
        BY <3>1
    <2>6. CASE ~(e \/ Len(b) < ChunkHeader)
      <3>1. Len(b) > 0
        BY <2>2, <2>6
      <3>2. b[1].size \in Nat \ {0}
        BY <3>1, FirstByte
      <3>3. ASSUME F[x] = Dec(b, s, o, TRUE) PROVE F[F[x]] = F[x]
        <4>1. DecodeRound(Dec(b, s, o, TRUE)) = Dec(b, s, o, TRUE)
          BY DecodeRoundIs
        <4>2. QED
          BY <1>1, <2>4, <3>3, <4>1
      <3>4. ASSUME NEW t, NEW g, F[x] = Dec(Behind(b, b[1].size), t, g, e), ~(Len(b) < b[1].size)
            PROVE  M[F[x]] < M[x]
        <4>1. PICK n \in Nat \ {0} : n = b[1].size
          BY <3>2
        <4>2. PICK r : r = Behind(b, n)
          OBVIOUS
        <4>3. F[x] = Dec(r, t, g, e)
          BY <3>4, <4>1, <4>2
        <4>4. M[F[x]] = Len(r)
          BY <1>2, <2>4, <4>3, DecIs
        <4>5. n \in 0..Len(b)
          BY <2>2, <3>4, <4>1
        <4>6. Len(r) = Len(b) - n
          BY <4>2, <4>5, CutHere DEF Behind
        <4>7. QED
          BY <2>2, <2>3, <4>4, <4>6
      <3>5. CASE ~StartsChunk(b[1])
        <4>1. F[x] = Dec(b, s, o, TRUE)
          BY <2>4, <2>6, <3>5, DecodeRoundIs
        <4>2. F[F[x]] = F[x]
          BY <3>3, <4>1, Zenon
        <4>3. QED
          BY <2>2, <2>3, <3>1, <4>2
      <3>6. CASE StartsChunk(b[1]) /\ Len(b) < b[1].size
        <4>1. F[x] = x
          BY <2>1, <2>4, <2>6, <3>6, DecodeRoundIs
        <4>2. QED
          BY <4>1
      <3>7. CASE StartsChunk(b[1]) /\ ~(Len(b) < b[1].size) /\ b[1].unit.kind = "identifier"
        <4>1. F[x] = Dec(Behind(b, b[1].size), TRUE, o, e)
          BY <2>4, <2>6, <3>7, DecodeRoundIs
        <4>2. M[F[x]] < M[x]
          BY <3>4, <3>7, <4>1, Zenon
        <4>3. QED
          BY <2>2, <2>3, <3>1, <4>2
      <3>8. CASE StartsChunk(b[1]) /\ ~(Len(b) < b[1].size) /\ b[1].unit.kind # "identifier" /\ ~s
        <4>1. F[x] = Dec(b, s, o, TRUE)
          BY <2>4, <2>6, <3>8, DecodeRoundIs
        <4>2. F[F[x]] = F[x]
          BY <3>3, <4>1, Zenon
        <4>3. QED
          BY <2>2, <2>3, <3>1, <4>2
      <3>9. CASE StartsChunk(b[1]) /\ ~(Len(b) < b[1].size) /\ b[1].unit.kind # "identifier" /\ s
        <4>1. F[x] = Dec(Behind(b, b[1].size), s, Append(o, b[1].unit.plain), e)
          BY <2>4, <2>6, <3>9, DecodeRoundIs
        <4>2. M[F[x]] < M[x]
          BY <3>4, <3>9, <4>1, Zenon
        <4>3. QED
          BY <2>2, <2>3, <3>1, <4>2
      <3>10. QED
        BY <3>5, <3>6, <3>7, <3>8, <3>9
    <2>7. QED
      BY <2>5, <2>6
  <1> DEFINE n == Len(d.buffer)
             Rec(g) == g = [k \in 0..n |-> IF k = 0 THEN d ELSE DecodeRound(g[k - 1])]
             R == CHOOSE g : Rec(g)
  <1>4. n \in Nat /\ n = M[d]
    BY <1>2
  <1>5. DecodeRounds(d) = R[n]
    BY DEF DecodeRounds
  <1> HIDE DEF n
  <1>6. PICK f \in [0..n -> P] : \A k \in 0..n : f[k] = IF k = 0 THEN d ELSE F[f[k - 1]]
    <2>1. \E f : Rounds(f, P, F, d, n)
      BY <1>1, <1>4, LoopExists
    <2>2. QED
      BY <2>1, Zenon DEF Rounds
  <1>7. \A k \in 0..n : f[k] = IF k = 0 THEN d ELSE DecodeRound(f[k - 1])
    <2>1. \A k \in 0..n : k # 0 => k - 1 \in 0..n
      BY <1>4
    <2>2. \A k \in 0..n : k # 0 => f[k - 1] \in P
      BY <2>1
    <2>3. QED
      BY <1>1, <1>6, <2>2, Zenon
  <1>8. Rec(f)
    <2>1. f = [k \in 0..n |-> f[k]]
      BY Zenon
    <2>2. QED
      BY <1>7, <2>1, Zenon
  <1>9. Rec(R)
    <2> HIDE DEF Rec
    <2>1. QED
      BY <1>8, Zenon
  <1> HIDE DEF R
  <1>10. \A k \in 0..n : R[k] = IF k = 0 THEN d ELSE DecodeRound(R[k - 1])
    BY <1>9, Zenon
  <1> HIDE DEF Rec
  <1>11. R[0] = d
    BY <1>4, <1>10
  <1>12. ASSUME NEW k \in 1..n, R[k - 1] \in P PROVE R[k] = F[R[k - 1]]
    <2>1. k \in 0..n /\ k # 0
      BY <1>4
    <2>2. R[k] = DecodeRound(R[k - 1])
      BY <1>10, <2>1, Zenon
    <2>3. QED
      BY <1>1, <1>12, <2>2
  <1>13. Ended(P, F, R[n])
    <2>1. Ending(P, F, M)
      BY <1>3, Zenon DEF Ending
    <2>2. Repeats(R, P, F, d, n)
      BY <1>11, <1>12, Zenon DEF Repeats
    <2>3. QED
      BY <1>1, <1>2, <1>4, <2>1, <2>2, LoopResult
  <1>14. QED
    BY <1>1, <1>5, <1>13 DEF Ended

\* A decoder that has taken whole chunks off the front of the bytes: what it
\* holds and what comes carry the rest of all the plain bytes.
UnwrappedTo(all, ahead) ==
    {d \in Decoders : /\ ~d.error /\ d.buffer \in Seq(ChunkByte)
                      /\ \E rest \in Seq(Plain) : /\ all = d.out \o rest
                                                  /\ Lead(d.saw, d.buffer \o ahead, rest)}

\* A buffer with the beginning of one unit at most.
Waiting(b) == b # <<>> => b[1].pos = 1 /\ Len(b) < b[1].size

\* A round keeps UnwrappedTo, and ends only where the buffer waits for bytes.
StaysUnwrapped(x, y, all, ahead) == y \in UnwrappedTo(all, ahead) /\ (y = x => Waiting(x.buffer))

\* A round of decode's loop on a compressed stream.
LEMMA DecodeRoundUp ==
    ASSUME NEW all \in Seq(Plain), NEW ahead \in Seq(ChunkByte), NEW x \in UnwrappedTo(all, ahead)
    PROVE  StaysUnwrapped(x, DecodeRound(x), all, ahead)
  <1>1. PICK rest \in Seq(Plain) : all = x.out \o rest /\ Lead(x.saw, x.buffer \o ahead, rest)
    BY DEF UnwrappedTo
  <1>2. PICK b, s, o : b = x.buffer /\ s = x.saw /\ o = x.out
    OBVIOUS
  <1>3. x \in Decoders /\ b \in Seq(ChunkByte) /\ s \in BOOLEAN /\ o \in Seq(Plain) /\ x.error = FALSE
    BY <1>2 DEF UnwrappedTo, Decoders
  <1>4. x = Dec(b, s, o, FALSE)
    BY <1>2, <1>3, DecIs
  <1>5. Len(b) \in Nat /\ ChunkHeader \in Nat \ {0}
    BY <1>3, LenProperties, FramingAssumption
  <1>6. DecodeRound(x) = IF Len(b) < ChunkHeader THEN Dec(b, s, o, FALSE)
                         ELSE IF ~StartsChunk(b[1]) THEN Dec(b, s, o, TRUE)
                         ELSE IF Len(b) < b[1].size THEN Dec(b, s, o, FALSE)
                         ELSE IF b[1].unit.kind = "identifier" THEN Dec(Behind(b, b[1].size), TRUE, o, FALSE)
                         ELSE IF ~s THEN Dec(b, s, o, TRUE)
                         ELSE Dec(Behind(b, b[1].size), s, Append(o, b[1].unit.plain), FALSE)
    BY <1>3, <1>4, DecodeRoundIs
  <1>7. CASE b = <<>>
    <2>1. Len(b) = 0
      BY <1>3, <1>7, EmptySeq
    <2>4. Len(b) < ChunkHeader
      BY <1>5, <2>1
    <2>2. DecodeRound(x) = x
      BY <1>4, <1>6, <2>4, Zenon
    <2>3. QED
      BY <1>2, <1>7, <2>2 DEF StaysUnwrapped, Waiting
  <1>8. CASE b # <<>> /\ ~s
    <2>1. Lead(FALSE, b \o ahead, rest)
      BY <1>1, <1>2, <1>3, <1>8
    <2>2. PICK n \in Nat \ {0} : Begins(b, ahead, rest, n)
      BY <1>3, <1>8, <2>1, IdentifierFront
    <2>3. /\ b[1].pos = 1 /\ b[1].size = n /\ b[1].unit.kind = "identifier" /\ n >= ChunkHeader
      BY <2>2 DEF Begins
    <2>4. StartsChunk(b[1])
      BY <2>3 DEF StartsChunk
    <2>5. CASE Len(b) < n
      <3>1. DecodeRound(x) = x
        BY <1>4, <1>6, <2>3, <2>4, <2>5
      <3>2. QED
        BY <1>2, <2>3, <2>5, <3>1 DEF StaysUnwrapped, Waiting
    <2>6. CASE ~(Len(b) < n)
      <3>1. PICK d : d = Behind(b, n)
        OBVIOUS
      <3>2. d \in Seq(ChunkByte) /\ Len(d) = Len(b) - n /\ <<d \o ahead, rest>> \in Chunked
        BY <1>5, <2>2, <2>6, <3>1 DEF Begins
      <3>3. DecodeRound(x) = Dec(d, TRUE, o, FALSE)
        <4>1. ~(Len(b) < ChunkHeader)
          BY <1>5, <2>3, <2>6
        <4>2. ~(Len(b) < b[1].size)
          BY <2>3, <2>6
        <4>3. QED
          BY <1>6, <2>3, <2>4, <3>1, <4>1, <4>2, Zenon
      <3>4. d \in Seq(AnyByte)
        BY <3>2, AnyBytes
      <3>5. PICK y : y = Dec(d, TRUE, o, FALSE)
        OBVIOUS
      <3>6. y \in Decoders /\ y.buffer = d /\ y.saw = TRUE /\ y.out = o /\ y.error = FALSE
        BY <1>3, <3>4, <3>5 DEF Dec, Decoders
      <3>7. Lead(TRUE, d \o ahead, rest)
        BY <3>2 DEF Lead
      <3>8. y \in UnwrappedTo(all, ahead)
        BY <1>1, <1>2, <3>2, <3>6, <3>7 DEF UnwrappedTo
      <3>9. y # x
        BY <1>2, <1>5, <3>2, <3>6
      <3>10. QED
        BY <3>3, <3>5, <3>8, <3>9 DEF StaysUnwrapped
    <2>7. QED
      BY <2>5, <2>6
  <1>9. CASE b # <<>> /\ s
    <2>1. <<b \o ahead, rest>> \in Chunked
      BY <1>1, <1>2, <1>3, <1>9 DEF Lead
    <2>2. PICK p \in Plain, r \in Seq(Plain), n \in Nat \ {0} : Wraps(b, ahead, rest, p, r, n)
      BY <1>3, <1>9, <2>1, ChunkFront
    <2>3. /\ b[1].pos = 1 /\ b[1].size = n /\ b[1].unit.kind = "data" /\ b[1].unit.plain = p
          /\ n >= ChunkHeader /\ rest = <<p>> \o r
      BY <2>2 DEF Wraps
    <2>4. StartsChunk(b[1])
      BY <2>3 DEF StartsChunk
    <2>5. CASE Len(b) < n
      <3>1. DecodeRound(x) = x
        BY <1>4, <1>6, <2>3, <2>4, <2>5
      <3>2. QED
        BY <1>2, <2>3, <2>5, <3>1 DEF StaysUnwrapped, Waiting
    <2>6. CASE ~(Len(b) < n)
      <3>1. PICK d, g : d = Behind(b, n) /\ g = Append(o, p)
        OBVIOUS
      <3>2. d \in Seq(ChunkByte) /\ Len(d) = Len(b) - n /\ <<d \o ahead, r>> \in Chunked
        BY <1>5, <2>2, <2>6, <3>1 DEF Wraps
      <3>3. DecodeRound(x) = Dec(d, s, g, FALSE)
        <4>1. ~(Len(b) < ChunkHeader)
          BY <1>5, <2>3, <2>6
        <4>2. ~(Len(b) < b[1].size)
          BY <2>3, <2>6
        <4>3. b[1].unit.kind # "identifier"
          BY <2>3
        <4>4. QED
          BY <1>6, <1>9, <2>3, <2>4, <3>1, <4>1, <4>2, <4>3, Zenon
      <3>4. d \in Seq(AnyByte)
        BY <3>2, AnyBytes
      <3>5. PICK y : y = Dec(d, s, g, FALSE)
        OBVIOUS
      <3>6. g \in Seq(Plain) /\ g = o \o <<p>> /\ <<p>> \in Seq(Plain)
        BY <1>3, <3>1, AppendProperties, AppendIsConcat
      <3>7. y \in Decoders /\ y.buffer = d /\ y.saw = s /\ y.out = g /\ y.error = FALSE
        BY <1>3, <3>4, <3>5, <3>6 DEF Dec, Decoders
      <3>8. all = g \o r
        <4>1. (o \o <<p>>) \o r = o \o (<<p>> \o r)
          BY <1>3, <3>6, ConcatAssociative
        <4>2. QED
          BY <1>1, <1>2, <2>3, <3>6, <4>1
      <3>9. Lead(s, d \o ahead, r)
        BY <1>9, <3>2 DEF Lead
      <3>10. y \in UnwrappedTo(all, ahead)
        BY <3>2, <3>7, <3>8, <3>9 DEF UnwrappedTo
      <3>11. y # x
        BY <1>2, <1>5, <3>2, <3>7
      <3>12. QED
        BY <3>3, <3>5, <3>10, <3>11 DEF StaysUnwrapped
    <2>7. QED
      BY <2>5, <2>6
  <1>10. QED
    BY <1>7, <1>8, <1>9

\* The loop takes every whole chunk and no other.
LEMMA DecodeRoundsUp ==
    ASSUME NEW all \in Seq(Plain), NEW ahead \in Seq(ChunkByte), NEW d \in UnwrappedTo(all, ahead)
    PROVE  DecodeRounds(d) \in UnwrappedTo(all, ahead) /\ Waiting(DecodeRounds(d).buffer)
  <1> DEFINE P == UnwrappedTo(all, ahead)
  <1>1. \A x \in P : StaysUnwrapped(x, DecodeRound(x), all, ahead)
    BY DecodeRoundUp
  <1>2. P \in SUBSET Decoders /\ \A x \in P : DecodeRound(x) \in P
    BY <1>1 DEF UnwrappedTo, StaysUnwrapped
  <1>3. DecodeRounds(d) \in P /\ DecodeRound(DecodeRounds(d)) = DecodeRounds(d)
    <2> HIDE DEF P
    <2>1. d \in P
      BY DEF P
    <2>2. QED
      BY <1>2, <2>1, DecodeRoundsEnd
  <1>4. StaysUnwrapped(DecodeRounds(d), DecodeRound(DecodeRounds(d)), all, ahead)
    BY <1>1, <1>3
  <1>5. QED
    BY <1>3, <1>4 DEF StaysUnwrapped

-----------------------------------------------------------------------------
(* A stream of frames is none of chunks.                                    *)

\* Nothing of it is decoded, and nothing of it is dropped without an error.
Undecodable(all) ==
    {d \in Decoders : /\ d.buffer = all /\ d.out = <<>> /\ d.saw = FALSE}

\* decode has thrown or lacks a chunk header.
GivesUp(d) == d.error \/ Len(d.buffer) < ChunkHeader

\* A round keeps Undecodable, and ends only in an error or for want of a header.
StaysUndecodable(x, y, all) == y \in Undecodable(all) /\ (y = x => GivesUp(x))

\* A round of decode's loop on a stream of frames.
LEMMA DecodeRoundFrames ==
    ASSUME NEW all \in Seq(FrameByte), NEW x \in Undecodable(all)
    PROVE  StaysUndecodable(x, DecodeRound(x), all)
  <1>1. PICK o, e : o = x.out /\ e = x.error
    OBVIOUS
  <1>2. x \in Decoders /\ x.buffer = all /\ x.saw = FALSE /\ o = <<>> /\ o \in Seq(Plain) /\ e \in BOOLEAN
    BY <1>1 DEF Undecodable, Decoders
  <1>3. x = Dec(all, FALSE, o, e)
    BY <1>1, <1>2, DecIs
  <1>4. Len(all) \in Nat /\ ChunkHeader \in Nat \ {0} /\ all \in Seq(AnyByte)
    BY LenProperties, FramingAssumption, AnyBytes
  <1>5. CASE e \/ Len(all) < ChunkHeader
    <2>1. DecodeRound(x) = x
      BY <1>2, <1>3, <1>5, DecodeRoundIs
    <2>2. QED
      BY <1>1, <1>2, <1>5, <2>1 DEF StaysUndecodable, GivesUp
  <1>6. CASE ~(e \/ Len(all) < ChunkHeader)
    <2>1. all[1] \in FrameByte
      <3>1. 1 \in 1..Len(all)
        BY <1>4, <1>6
      <3>2. QED
        BY <3>1, ElementOfSeq
    <2>2. ~StartsChunk(all[1])
      BY <2>1 DEF FrameByte, FrameUnit, StartsChunk
    <2>3. DecodeRound(x) = Dec(all, FALSE, o, TRUE)
      BY <1>2, <1>3, <1>6, <2>2, DecodeRoundIs
    <2>4. PICK y : y = Dec(all, FALSE, o, TRUE)
      OBVIOUS
    <2>5. y \in Decoders /\ y.buffer = all /\ y.saw = FALSE /\ y.out = o /\ y.error = TRUE
      BY <1>2, <1>4, <2>4 DEF Dec, Decoders
    <2>6. y \in Undecodable(all)
      BY <1>2, <2>5 DEF Undecodable
    <2>7. y # x
      BY <1>1, <1>6, <2>5
    <2>8. QED
      BY <2>3, <2>4, <2>6, <2>7 DEF StaysUndecodable
  <1>7. QED
    BY <1>5, <1>6

\* The loop decodes nothing of a stream of frames.
LEMMA DecodeRoundsFrames ==
    ASSUME NEW all \in Seq(FrameByte), NEW d \in Undecodable(all)
    PROVE  DecodeRounds(d) \in Undecodable(all) /\ GivesUp(DecodeRounds(d))
  <1> DEFINE P == Undecodable(all)
  <1>1. \A x \in P : StaysUndecodable(x, DecodeRound(x), all)
    BY DecodeRoundFrames
  <1>2. P \in SUBSET Decoders /\ \A x \in P : DecodeRound(x) \in P
    BY <1>1 DEF Undecodable, StaysUndecodable
  <1>3. DecodeRounds(d) \in P /\ DecodeRound(DecodeRounds(d)) = DecodeRounds(d)
    <2> HIDE DEF P
    <2>1. d \in P
      BY DEF P
    <2>2. QED
      BY <1>2, <2>1, DecodeRoundsEnd
  <1>4. StaysUndecodable(DecodeRounds(d), DecodeRound(DecodeRounds(d)), all)
    BY <1>1, <1>3
  <1>5. QED
    BY <1>3, <1>4 DEF StaysUndecodable

-----------------------------------------------------------------------------
(* decode.                                                                  *)

\* decode by the fields the loop ends with.
LEMMA DecodeChunksIs ==
    ASSUME NEW bytes, NEW done,
           done = DecodeRounds(Dec(decoder.buffer \o bytes, decoder.saw, <<>>, FALSE))
    PROVE  /\ DecodeChunks(bytes).error = done.error
           /\ DecodeChunks(bytes).out = IF done.error THEN <<>> ELSE done.out
           /\ DecodeChunks(bytes).decoder.buffer = done.buffer
           /\ DecodeChunks(bytes).decoder.saw = done.saw
           /\ DecodeChunks(bytes).decoder = [buffer |-> done.buffer, saw |-> done.saw]
  <1>1. DecodeChunks(bytes) =
           [out |-> IF done.error THEN <<>> ELSE done.out, error |-> done.error,
            decoder |-> [buffer |-> done.buffer, saw |-> done.saw]]
    BY Zenon DEF DecodeChunks, Dec, Collected
  <1>2. PICK r, o, e, m : /\ r = DecodeChunks(bytes) /\ o = (IF done.error THEN <<>> ELSE done.out) /\ e = done.error
                          /\ m = [buffer |-> done.buffer, saw |-> done.saw]
    OBVIOUS
  <1>3. r = [out |-> o, error |-> e, decoder |-> m]
    BY <1>1, <1>2, Zenon
  <1>4. r.out = o /\ r.error = e /\ r.decoder = m
    BY <1>3
  <1>5. m.buffer = done.buffer /\ m.saw = done.saw
    BY <1>2
  <1>6. QED
    BY <1>2, <1>4, <1>5, Zenon

\* What decode makes of bytes of a compressed stream.
Fed(d, beyond, plains) ==
    /\ ~d.error /\ d.decoder.saw \in BOOLEAN /\ d.decoder.buffer \in Seq(ChunkByte)
    /\ Waiting(d.decoder.buffer) /\ d.out \in Seq(Plain)
    /\ \E rest \in Seq(Plain) : /\ plains = d.out \o rest
                                /\ Lead(d.decoder.saw, d.decoder.buffer \o beyond, rest)

\* decode hands on the plain bytes of the chunks that are complete, in order, and
\* keeps the rest.
LEMMA DecodeFed ==
    ASSUME NEW b \in Seq(ChunkByte), b = decoder.buffer, decoder.saw \in BOOLEAN,
           NEW bytes \in Seq(ChunkByte), NEW beyond \in Seq(ChunkByte), NEW plains \in Seq(Plain),
           Lead(decoder.saw, b \o (bytes \o beyond), plains)
    PROVE  Fed(DecodeChunks(bytes), beyond, plains)
  <1>1. PICK w \in Seq(ChunkByte) : w = b \o bytes
    BY ConcatProperties
  <1>2. (b \o bytes) \o beyond = b \o (bytes \o beyond)
    BY ChunkRegroup, Zenon
  <1>3. Lead(decoder.saw, w \o beyond, plains)
    BY <1>1, <1>2
  <1>4. PICK s \in BOOLEAN : s = decoder.saw
    OBVIOUS
  <1>5. PICK o \in Seq(Plain) : o = <<>>
    BY EmptySeq
  <1>6. PICK d : d = Dec(w, s, o, FALSE)
    OBVIOUS
  <1>7. w \in Seq(AnyByte)
    BY AnyBytes
  <1>8. d \in Decoders /\ d.buffer = w /\ d.saw = s /\ d.out = o /\ d.error = FALSE
    BY <1>6, <1>7 DEF Dec, Decoders
  <1>9. plains = o \o plains
    BY <1>5, ConcatEmptySeq
  <1>10. d \in UnwrappedTo(plains, beyond)
    BY <1>3, <1>4, <1>8, <1>9 DEF UnwrappedTo
  <1>11. PICK done : done = DecodeRounds(d)
    OBVIOUS
  <1>12. done \in UnwrappedTo(plains, beyond) /\ Waiting(done.buffer)
    BY <1>10, <1>11, DecodeRoundsUp
  <1>13. done \in Decoders /\ ~done.error /\ done.buffer \in Seq(ChunkByte)
    BY <1>12 DEF UnwrappedTo
  <1>14. done.saw \in BOOLEAN /\ done.out \in Seq(Plain)
    BY <1>13 DEF Decoders
  <1>15. PICK rest \in Seq(Plain) : plains = done.out \o rest /\ Lead(done.saw, done.buffer \o beyond, rest)
    BY <1>12 DEF UnwrappedTo
  <1>16. done = DecodeRounds(Dec(decoder.buffer \o bytes, decoder.saw, <<>>, FALSE))
    BY <1>1, <1>4, <1>5, <1>6, <1>11
  <1>17. PICK r : r = DecodeChunks(bytes)
    OBVIOUS
  <1>18. /\ r.error = done.error /\ r.out = IF done.error THEN <<>> ELSE done.out
         /\ r.decoder.buffer = done.buffer /\ r.decoder.saw = done.saw
    BY <1>16, <1>17, DecodeChunksIs
  <1>19. r.out = done.out
    BY <1>13, <1>18
  <1>20. Fed(r, beyond, plains)
    BY <1>12, <1>13, <1>14, <1>15, <1>18, <1>19, Zenon DEF Fed
  <1>21. QED
    BY <1>17, <1>20

\* decode given frames hands on nothing, and throws as soon as it has a header.
LEMMA DecodeRefuses ==
    ASSUME NEW b \in Seq(FrameByte), b = decoder.buffer, decoder.saw = FALSE, NEW bytes \in Seq(FrameByte)
    PROVE  /\ DecodeChunks(bytes).out = <<>> /\ DecodeChunks(bytes).error \in BOOLEAN
           /\ DecodeChunks(bytes).decoder = [buffer |-> b \o bytes, saw |-> FALSE]
           /\ ~DecodeChunks(bytes).error => Len(b \o bytes) < ChunkHeader
  <1>1. PICK w \in Seq(FrameByte) : w = b \o bytes
    BY ConcatProperties
  <1>5. PICK o \in Seq(Plain) : o = <<>>
    BY EmptySeq
  <1>6. PICK d : d = Dec(w, FALSE, o, FALSE)
    OBVIOUS
  <1>7. w \in Seq(AnyByte)
    BY AnyBytes
  <1>8. d \in Decoders /\ d.buffer = w /\ d.saw = FALSE /\ d.out = o
    BY <1>6, <1>7 DEF Dec, Decoders
  <1>10. d \in Undecodable(w)
    BY <1>5, <1>8 DEF Undecodable
  <1>11. PICK done : done = DecodeRounds(d)
    OBVIOUS
  <1>12. done \in Undecodable(w) /\ GivesUp(done)
    BY <1>10, <1>11, DecodeRoundsFrames
  <1>13. done \in Decoders /\ done.buffer = w /\ done.out = <<>> /\ done.saw = FALSE /\ done.error \in BOOLEAN
    BY <1>12 DEF Undecodable, Decoders
  <1>14. ~done.error => Len(w) < ChunkHeader
    BY <1>12, <1>13 DEF GivesUp
  <1>16. done = DecodeRounds(Dec(decoder.buffer \o bytes, decoder.saw, <<>>, FALSE))
    BY <1>1, <1>5, <1>6, <1>11
  <1>17. PICK r : r = DecodeChunks(bytes)
    OBVIOUS
  <1>18. /\ r.error = done.error /\ r.out = (IF done.error THEN <<>> ELSE done.out)
         /\ r.decoder = [buffer |-> done.buffer, saw |-> done.saw]
    BY <1>16, <1>17, DecodeChunksIs
  <1>21. QED
    BY <1>1, <1>13, <1>14, <1>17, <1>18

-----------------------------------------------------------------------------
(* Pieces taken apart and put together.                                     *)

\* What makes up nothing is nothing.
LEMMA EmptyParts ==
    ASSUME NEW S, NEW a \in Seq(S), NEW b \in Seq(S), a \o b = <<>>
    PROVE  a = <<>> /\ b = <<>>
  BY ConcatEqualIffEmpty

\* x comes apart where its pieces do.
Split(S, x, p, q) ==
    \E y \in Seq(S), z \in Seq(S) : x = y \o z /\ <<y, p>> \in Joined(S) /\ <<z, q>> \in Joined(S)

\* It does so wherever the pieces are divided.
SplitAll(S, x, s) == \A p \in Seq(Seq(S)), q \in Seq(Seq(S)) : s = p \o q => Split(S, x, p, q)

\* By induction over the pieces.
LEMMA JoinedSplitAll ==
    ASSUME NEW S
    PROVE  \A x, s : <<x, s>> \in Joined(S) => SplitAll(S, x, s)
  <1> DEFINE J == Joined(S)
             R == {z \in J : \A a \in Seq(Seq(S)), b \in Seq(Seq(S)) : z[2] = a \o b => Split(S, z[1], a, b)}
  <1>1. \A y, z : <<y, z>> \in R <=> /\ <<y, z>> \in J
                                     /\ \A a \in Seq(Seq(S)), b \in Seq(Seq(S)) : z = a \o b => Split(S, y, a, b)
    OBVIOUS
  <1>2. Pieces(S) \in SUBSET (Seq(S) \X Seq(Seq(S))) /\ J = Composed(S, Seq(S), Pieces(S))
    BY PiecesAre DEF Joined
  <1>3. R \in SUBSET (Seq(S) \X Seq(Seq(S)))
    BY <1>2 DEF Composed
  <1>11. \A a \in Seq(S), b \in Seq(S), c \in Seq(S) : (a \o b) \o c = a \o (b \o c)
    BY Associative
  <1> HIDE DEF R, J
  <1>9. <<<<>>, <<>>>> \in J
    BY <1>2, ComposedNothing
  <1>10. J = Joined(S)
    BY DEF J
  <1>4. Closed(Pieces(S), R)
    <2>1. <<<<>>, <<>>>> \in R
      <3>1. ASSUME NEW a \in Seq(Seq(S)), NEW b \in Seq(Seq(S)), <<>> = a \o b
            PROVE  Split(S, <<>>, a, b)
        <4>1. a = <<>> /\ b = <<>>
          BY <3>1, EmptyParts
        <4>2. <<>> \in Seq(S) /\ <<>> \o <<>> = <<>>
          BY EmptySeq, ConcatEmptySeq
        <4>3. QED
          BY <1>9, <1>10, <4>1, <4>2, Zenon DEF Split
      <3>2. QED
        BY <1>1, <1>9, <3>1, Zenon
    <2>2. ASSUME NEW c, NEW u, NEW d, NEW v, <<c, u>> \in Pieces(S), <<d, v>> \in R
          PROVE  <<c \o d, u \o v>> \in R
      <3>1. c \in Seq(S) /\ u = <<c>>
        BY <2>2 DEF Pieces
      <3>2. /\ <<d, v>> \in J
            /\ \A a \in Seq(Seq(S)), b \in Seq(Seq(S)) : v = a \o b => Split(S, d, a, b)
        BY <1>1, <2>2
      <3>3. d \in Seq(S) /\ v \in Seq(Seq(S))
        BY <1>2, <3>2, ComposedPair
      <3>4. <<c \o d, u \o v>> \in J
        BY <1>2, <2>2, <3>2, ComposedMore
      <3>5. u \in Seq(Seq(S)) /\ Len(u) = 1
        BY <3>1
      <3>6. ASSUME NEW a \in Seq(Seq(S)), NEW b \in Seq(Seq(S)), u \o v = a \o b
            PROVE  Split(S, c \o d, a, b)
        <4>1. CASE a = <<>>
          <5>1. u \o v = b
            BY <3>6, <4>1, ConcatEmptySeq
          <5>2. PICK w \in Seq(S) : w = c \o d
            BY <3>1, <3>3, ConcatProperties
          <5>3. <<w, b>> \in J
            BY <3>4, <5>1, <5>2
          <5>4. <<>> \o w = w /\ <<>> \in Seq(S)
            BY ConcatEmptySeq, EmptySeq
          <5>5. Split(S, w, a, b)
            BY <1>9, <1>10, <4>1, <5>2, <5>3, <5>4, Zenon DEF Split
          <5>6. QED
            BY <5>2, <5>5
        <4>2. CASE a # <<>>
          <5>1. Len(u) <= Len(a)
            <6>1. Len(a) \in Nat /\ Len(a) # 0
              BY <4>2, LenProperties, EmptySeq
            <6>2. QED
              BY <3>5, <6>1
          <5>2. Leaves(Seq(S), a, b, u, v)
            BY <3>3, <3>5, <3>6, <5>1, CutTwice
          <5>3. PICK e : e = SubSeq(a, Len(u) + 1, Len(a))
            OBVIOUS
          <5>4. e \in Seq(Seq(S)) /\ a = u \o e /\ e \o b = v
            BY <5>2, <5>3 DEF Leaves
          <5>5. Split(S, d, e, b)
            BY <3>2, <5>4
          <5>6. PICK y \in Seq(S), z \in Seq(S) : d = y \o z /\ <<y, e>> \in J /\ <<z, b>> \in J
            BY <1>10, <5>5 DEF Split
          <5>7. <<c \o y, u \o e>> \in J
            BY <1>2, <2>2, <5>6, ComposedMore
          <5>8. PICK w \in Seq(S) : w = c \o y
            BY <3>1, ConcatProperties
          <5>9. (c \o y) \o z = c \o (y \o z)
            BY <1>11, <3>1, Zenon
          <5>10. w \o z = c \o d
            BY <5>6, <5>8, <5>9
          <5>11. <<w, a>> \in J
            BY <5>4, <5>7, <5>8
          <5>12. QED
            BY <1>10, <5>6, <5>10, <5>11, Zenon DEF Split
        <4>3. QED
          BY <4>1, <4>2
      <3>7. QED
        BY <1>1, <3>4, <3>6, Zenon
    <2>3. QED
      BY <2>1, <2>2, Zenon DEF Closed
  <1>5. J \subseteq R
    BY <1>2, <1>3, <1>4, ComposedInduction
  <1>6. QED
    BY <1>1, <1>5, <1>10, Zenon DEF SplitAll

\* What pieces make up is cut where the pieces are.
LEMMA JoinedSplit ==
    ASSUME NEW S, NEW p \in Seq(Seq(S)), NEW q \in Seq(Seq(S)), NEW x, <<x, p \o q>> \in Joined(S)
    PROVE  Split(S, x, p, q)
  BY JoinedSplitAll, Zenon DEF SplitAll

\* Pieces of two sequences make up both, one behind the other.
LEMMA JoinedConcat ==
    ASSUME NEW S, NEW x, NEW p, NEW y, NEW q, <<x, p>> \in Joined(S), <<y, q>> \in Joined(S)
    PROVE  <<x \o y, p \o q>> \in Joined(S)
  BY PiecesAre, ComposedConcat DEF Joined

\* No pieces make up nothing.
LEMMA JoinedNothing ==
    ASSUME NEW S
    PROVE  <<<<>>, <<>>>> \in Joined(S)
  BY PiecesAre, ComposedNothing DEF Joined

-----------------------------------------------------------------------------
(* Nothing but whole units.                                                 *)

\* Every unit knows its size.
Sized(U) == \A a, p : <<a, p>> \in U => a # <<>> /\ a[1].size <= Len(a)

\* A composition that is not empty holds its first unit as a whole.
LEMMA WholeUnit ==
    ASSUME NEW S, NEW T, NEW U \in SUBSET (Seq(S) \X Seq(T)), Sized(U),
           NEW b, NEW q, <<b, q>> \in Composed(S, T, U), b = <<>> \/ b[1].size \in Int
    PROVE  IF b = <<>> THEN q = <<>> ELSE b[1].size <= Len(b)
  <1>1. CASE b = <<>> /\ q = <<>>
    BY <1>1
  <1>2. CASE StartsWithUnit(S, T, U, b, q)
    <2>1. PICK a, p, c, r : <<a, p>> \in U /\ <<c, r>> \in Composed(S, T, U) /\ b = a \o c /\ q = p \o r
      BY <1>2 DEF StartsWithUnit
    <2>2. a \in Seq(S) /\ c \in Seq(S)
      BY <2>1, ComposedPair
    <2>3. a # <<>> /\ a[1].size <= Len(a)
      BY <2>1, Zenon DEF Sized
    <2>4. a \o c # <<>> /\ (a \o c)[1] = a[1] /\ Len(a \o c) >= Len(a)
      BY <2>2, <2>3, FirstOf
    <2>5. b # <<>> /\ b[1] = a[1] /\ Len(b) >= Len(a)
      BY <2>1, <2>4
    <2>6. Len(b) \in Nat /\ Len(a) \in Nat
      <3>1. b \in Seq(S)
        BY ComposedPair
      <3>2. QED
        BY <2>2, <3>1, LenProperties
    <2>7. QED
      BY <2>3, <2>5, <2>6
  <1>3. QED
    BY <1>1, <1>2, ComposedInversion

\* Frames and data chunks know their size.
LEMMA UnitsSized ==
    /\ \A v \in {1, 2} : Sized(FrameUnits(v))
    /\ Sized(ChunkUnits)
  <1>1. ASSUME NEW v \in {1, 2} PROVE Sized(FrameUnits(v))
    <2>1. ASSUME NEW a, NEW p, <<a, p>> \in FrameUnits(v) PROVE a # <<>> /\ a[1].size <= Len(a)
      <3>1. PICK f \in Frames : a = FrameBytes(f, v)
        BY <2>1 DEF FrameUnits
      <3>2. PICK n : n = HeaderSize + f.len
        OBVIOUS
      <3>3. /\ a # <<>> /\ Len(a) = n
            /\ a[1] = [unit |-> [kind |-> "frame", frame |-> f, version |-> v], pos |-> 1, size |-> n]
        BY <3>1, <3>2, FrameBytesAre
      <3>4. n \in Int
        BY <3>2, FramingAssumption, LongestIs
      <3>5. QED
        BY <3>3, <3>4
    <2>2. QED
      BY <2>1, Zenon DEF Sized
  <1>2. Sized(ChunkUnits)
    <2>1. ASSUME NEW a, NEW p, <<a, p>> \in ChunkUnits PROVE a # <<>> /\ a[1].size <= Len(a)
      <3>1. PICK x \in Plain, q \in Nat : a = MakeDataChunk(x, q)
        BY <2>1, ChunkUnitsAre
      <3>2. x \in Seq(FrameByte)
        BY DEF Plain
      <3>3. PICK n \in Nat \ {0} :
              /\ a # <<>> /\ Len(a) = n
              /\ a[1] = [unit |-> [kind |-> "data", plain |-> x], pos |-> 1, size |-> n]
        BY <3>1, <3>2, DataChunkIs
      <3>4. QED
        BY <3>3
    <2>2. QED
      BY <2>1, Zenon DEF Sized
  <1>3. QED
    BY <1>1, <1>2

\* When nothing more comes, a buffer that waits is empty, and so is the rest.
LEMMA NoFrameLeft ==
    ASSUME NEW v \in {1, 2}, NEW b \in Seq(FrameByte), NEW rest, <<b, rest>> \in Spelled(v), Settled(b)
    PROVE  b = <<>> /\ rest = <<>>
  <1>1. FrameUnits(v) \in SUBSET (Seq(FrameByte) \X Seq(Frames)) /\ Sized(FrameUnits(v))
    BY FrameUnitsAre, UnitsSized
  <1>2. Len(b) \in Nat
    BY LenProperties
  <1>3. b = <<>> \/ b[1].size \in Nat
    <2>1. CASE b # <<>>
      <3>1. Len(b) > 0
        BY <1>2, <2>1, EmptySeq
      <3>2. b \in Seq(AnyByte)
        BY AnyBytes
      <3>3. QED
        BY <3>1, <3>2, FirstByte
    <2>2. QED
      BY <2>1
  <1>4. IF b = <<>> THEN rest = <<>> ELSE b[1].size <= Len(b)
    BY <1>1, <1>3, WholeUnit DEF Spelled
  <1>5. QED
    BY <1>2, <1>3, <1>4 DEF Settled

\* The same for chunks.
LEMMA NoChunkLeft ==
    ASSUME NEW b \in Seq(ChunkByte), NEW saw \in BOOLEAN, NEW plains, Lead(saw, b, plains), Waiting(b)
    PROVE  b = <<>> /\ plains = <<>>
  <1>1. ChunkUnits \in SUBSET (Seq(ChunkByte) \X Seq(Plain)) /\ Sized(ChunkUnits)
    BY ChunkUnitsAre, UnitsSized
  <1>2. Len(b) \in Nat
    BY LenProperties
  <1>3. b = <<>> \/ b[1].size \in Nat
    <2>1. CASE b # <<>>
      <3>1. Len(b) > 0
        BY <1>2, <2>1, EmptySeq
      <3>2. b \in Seq(AnyByte)
        BY AnyBytes
      <3>3. QED
        BY <3>1, <3>2, FirstByte
    <2>2. QED
      BY <2>1
  <1>4. CASE saw
    <2>1. <<b, plains>> \in Chunked
      BY <1>4 DEF Lead
    <2>2. IF b = <<>> THEN plains = <<>> ELSE b[1].size <= Len(b)
      BY <1>1, <1>3, <2>1, WholeUnit DEF Chunked
    <2>3. QED
      BY <1>2, <1>3, <2>2 DEF Waiting
  <1>5. CASE ~saw
    <2>1. PICK c : b = Identifier \o c /\ <<c, plains>> \in Chunked
      BY <1>5 DEF Lead
    <2>2. c \in Seq(ChunkByte)
      BY <1>1, <2>1, ComposedPair DEF Chunked
    <2>3. PICK a : a = Identifier
      OBVIOUS
    <2>4. PICK n \in Nat : n = IdentifierSize
      BY FramingAssumption
    <2>5. /\ a \in Seq(ChunkByte) /\ a # <<>> /\ Len(a) = n
          /\ a[1] = [unit |-> [kind |-> "identifier"], pos |-> 1, size |-> n]
      BY <2>3, <2>4, IdentifierIs
    <2>6. a \o c # <<>> /\ (a \o c)[1] = a[1] /\ Len(a \o c) >= Len(a)
      BY <2>2, <2>5, FirstOf
    <2>7. b # <<>> /\ b[1].size = n /\ Len(b) >= n
      BY <2>1, <2>3, <2>5, <2>6
    <2>8. QED
      BY <1>2, <2>7 DEF Waiting
  <1>6. QED
    BY <1>4, <1>5

-----------------------------------------------------------------------------
(* The loop of encode.                                                      *)

\* What encode works on.
Encoders == [left : Plain, out : Seq(ChunkByte)]

\* What the encoder has put behind `head` carries the bytes it has taken.
PartlyWrapped(bytes, head, s, c, plains, given) ==
    /\ bytes = given \o s.left /\ s.out = head \o c
    /\ <<c, plains>> \in Chunked /\ <<given, plains>> \in Joined(FrameByte)

\* Encoders that have wrapped part of the bytes into chunks.
Wrapping(bytes, head) ==
    {s \in Encoders : \E c, plains, given : PartlyWrapped(bytes, head, s, c, plains, given)}

\* A compressed length is a length.
LEMMA SqueezedIs ==
    ASSUME NEW count \in Nat, NEW ratio \in {1, 2}
    PROVE  (count + ratio - 1) \div ratio \in Nat
  <1>1. CASE ratio = 1
    BY <1>1
  <1>2. CASE ratio = 2
    BY <1>2
  <1>3. QED
    BY <1>1, <1>2

\* One chunk of n bytes is taken off what is left.
Wrapped(s, n, ratio) ==
    [left |-> SubSeq(s.left, n + 1, Len(s.left)),
     out |-> s.out \o MakeDataChunk(SubSeq(s.left, 1, n), (n + ratio - 1) \div ratio)]

\* A round of encode's loop on bytes that are left.
LEMMA EncodeRoundIs ==
    ASSUME NEW s \in Encoders, NEW ratio
    PROVE  IF s.left = <<>> THEN EncodeRound(s, ratio) = s
           ELSE \E n \in 1..Len(s.left) : EncodeRound(s, ratio) = Wrapped(s, n, ratio)
  <1>1. CASE s.left = <<>>
    BY <1>1, Zenon DEF EncodeRound
  <1>2. CASE s.left # <<>>
    <2>1. Len(s.left) \in Nat \ {0} /\ MaxChunk \in Nat \ {0}
      <3>1. s.left \in Seq(FrameByte)
        BY DEF Encoders, Plain
      <3>2. QED
        BY <1>2, <3>1, LenProperties, EmptySeq, FramingAssumption
    <2>2. PICK n : n = IF Len(s.left) < MaxChunk THEN Len(s.left) ELSE MaxChunk
      OBVIOUS
    <2>3. n \in 1..Len(s.left)
      BY <2>1, <2>2
    <2>4. EncodeRound(s, ratio) = Wrapped(s, n, ratio)
      BY <1>2, <2>2, Zenon DEF EncodeRound, Wrapped
    <2>5. QED
      BY <1>2, <2>3, <2>4, Zenon
  <1>3. QED
    BY <1>1, <1>2

\* The fields after such a round.
LEMMA WrappedIs ==
    ASSUME NEW s \in Encoders, NEW ratio \in {1, 2}, NEW n \in 1..Len(s.left)
    PROVE  /\ Wrapped(s, n, ratio) \in Encoders
           /\ Len(Wrapped(s, n, ratio).left) = Len(s.left) - n
           /\ \E p \in Plain, m \in Seq(ChunkByte) :
                 /\ <<m, <<p>>>> \in ChunkUnits
                 /\ s.left = p \o Wrapped(s, n, ratio).left
                 /\ Wrapped(s, n, ratio).out = s.out \o m
  <1>1. PICK l, o : l = s.left /\ o = s.out
    OBVIOUS
  <1>2. l \in Seq(FrameByte) /\ o \in Seq(ChunkByte) /\ Len(l) <= Longest
    BY <1>1 DEF Encoders, Plain
  <1>3. Len(l) \in Nat /\ Longest \in Nat /\ n \in 0..Len(l) /\ n \in Nat
    BY <1>1, <1>2, LenProperties, LongestIs
  <1>4. PICK p, k : p = SubSeq(l, 1, n) /\ k = SubSeq(l, n + 1, Len(l))
    OBVIOUS
  <1>5. /\ p \in Seq(FrameByte) /\ k \in Seq(FrameByte) /\ Len(p) = n /\ Len(k) = Len(l) - n
        /\ l = p \o k
    BY <1>2, <1>3, <1>4, CutHere
  <1>6. p \in Plain /\ k \in Plain
    BY <1>2, <1>3, <1>5 DEF Plain
  <1>7. PICK q \in Nat : q = (n + ratio - 1) \div ratio
    BY <1>3, SqueezedIs
  <1>8. PICK m : m = MakeDataChunk(p, q)
    OBVIOUS
  <1>9. m \in Seq(ChunkByte) /\ <<m, <<p>>>> \in ChunkUnits
    BY <1>5, <1>6, <1>8, DataChunkIs, ChunkUnitsAre
  <1>10. PICK w : w = o \o m
    OBVIOUS
  <1>11. w \in Seq(ChunkByte)
    BY <1>2, <1>9, <1>10, ConcatProperties
  <1>12. Wrapped(s, n, ratio) = [left |-> k, out |-> w]
    BY <1>1, <1>4, <1>7, <1>8, <1>10, Zenon DEF Wrapped
  <1>13. PICK t : t = Wrapped(s, n, ratio)
    OBVIOUS
  <1>14. t \in Encoders /\ t.left = k /\ t.out = w
    BY <1>6, <1>11, <1>12, <1>13 DEF Encoders
  <1>15. s.left = p \o t.left /\ t.out = s.out \o m /\ Len(t.left) = Len(s.left) - n
    BY <1>1, <1>5, <1>10, <1>14
  <1>16. QED
    BY <1>6, <1>9, <1>13, <1>14, <1>15, Zenon

\* Zenon's view of the last fact of WrappedIs.
WrapsOne(s, t) ==
    \E p \in Plain, m \in Seq(ChunkByte) :
       <<m, <<p>>>> \in ChunkUnits /\ s.left = p \o t.left /\ t.out = s.out \o m

\* A round keeps what has been wrapped and what is left together the bytes.
LEMMA EncodeRoundUp ==
    ASSUME NEW bytes, NEW head \in Seq(ChunkByte), NEW ratio \in {1, 2}, NEW s \in Wrapping(bytes, head)
    PROVE  EncodeRound(s, ratio) \in Wrapping(bytes, head)
  <1>1. s \in Encoders
    BY DEF Wrapping
  <1>2. PICK c, plains, given : PartlyWrapped(bytes, head, s, c, plains, given)
    BY DEF Wrapping
  <1>3. /\ bytes = given \o s.left /\ s.out = head \o c
        /\ <<c, plains>> \in Chunked /\ <<given, plains>> \in Joined(FrameByte)
    BY <1>2 DEF PartlyWrapped
  <1>4. CASE s.left = <<>>
    BY <1>1, <1>4, EncodeRoundIs
  <1>5. CASE s.left # <<>>
    <2>1. PICK n \in 1..Len(s.left) : EncodeRound(s, ratio) = Wrapped(s, n, ratio)
      BY <1>1, <1>5, EncodeRoundIs
    <2>2. PICK t : t = Wrapped(s, n, ratio)
      OBVIOUS
    <2>3. t \in Encoders
      BY <1>1, <2>2, WrappedIs
    <2>4. WrapsOne(s, t)
      BY <1>1, <2>2, WrappedIs DEF WrapsOne
    <2>5. PICK p \in Plain, m \in Seq(ChunkByte) :
             <<m, <<p>>>> \in ChunkUnits /\ s.left = p \o t.left /\ t.out = s.out \o m
      BY <2>4 DEF WrapsOne
    <2>6. PICK g : g = <<p>>
      OBVIOUS
    <2>7. <<c \o m, plains \o g>> \in Chunked
      <3>1. ChunkUnits \in SUBSET (Seq(ChunkByte) \X Seq(Plain))
        BY ChunkUnitsAre
      <3>2. <<m, g>> \in ChunkUnits
        BY <2>5, <2>6
      <3>3. <<m, g>> \in Composed(ChunkByte, Plain, ChunkUnits)
        BY <3>1, <3>2, ComposedUnit
      <3>4. <<c, plains>> \in Composed(ChunkByte, Plain, ChunkUnits)
        BY <1>3 DEF Chunked
      <3>5. <<c \o m, plains \o g>> \in Composed(ChunkByte, Plain, ChunkUnits)
        BY <3>1, <3>3, <3>4, ComposedConcat
      <3>6. QED
        BY <3>5 DEF Chunked
    <2>8. p \in Seq(FrameByte)
      BY DEF Plain
    <2>9. <<given \o p, plains \o g>> \in Joined(FrameByte)
      <3>1. <<p, g>> \in Joined(FrameByte)
        BY <2>6, <2>8, JoinedOne
      <3>2. QED
        BY <1>3, <3>1, JoinedConcat
    <2>10. given \in Seq(FrameByte) /\ c \in Seq(ChunkByte) /\ t.left \in Seq(FrameByte)
      <3>1. given \in Seq(FrameByte)
        BY <1>3, JoinedParts
      <3>2. c \in Seq(ChunkByte)
        BY <1>3, ChunkUnitsAre, ComposedPair DEF Chunked
      <3>3. t.left \in Seq(FrameByte)
        BY <2>3 DEF Encoders, Plain
      <3>4. QED
        BY <3>1, <3>2, <3>3
    <2>11. (given \o p) \o t.left = given \o (p \o t.left)
      BY <2>8, <2>10, FrameRegroup, Zenon
    <2>12. (head \o c) \o m = head \o (c \o m)
      BY <2>10, ChunkRegroup, Zenon
    <2>13. PICK c2, plains2, given2 : c2 = c \o m /\ plains2 = plains \o g /\ given2 = given \o p
      OBVIOUS
    <2>14. PartlyWrapped(bytes, head, t, c2, plains2, given2)
      BY <1>3, <2>5, <2>7, <2>9, <2>11, <2>12, <2>13, Zenon DEF PartlyWrapped
    <2>15. t \in Wrapping(bytes, head)
      BY <2>3, <2>14, Zenon DEF Wrapping
    <2>16. QED
      BY <2>1, <2>2, <2>15
  <1>6. QED
    BY <1>4, <1>5

\* The loop ends with nothing left.
LEMMA EncodeRoundsEnd ==
    ASSUME NEW ratio \in {1, 2}, NEW P \in SUBSET Encoders, \A x \in P : EncodeRound(x, ratio) \in P, NEW s \in P
    PROVE  EncodeRounds(s, ratio) \in P /\ EncodeRounds(s, ratio).left = <<>>
  <1> DEFINE F == [x \in P |-> EncodeRound(x, ratio)]
             M == [x \in P |-> Len(x.left)]
  <1>1. F \in [P -> P] /\ \A x \in P : F[x] = EncodeRound(x, ratio)
    OBVIOUS
  <1>15. \A x \in P : x \in Encoders /\ x.left \in Seq(FrameByte)
    BY DEF Encoders, Plain
  <1>2. M \in [P -> Nat] /\ \A x \in P : M[x] = Len(x.left)
    <2>2. \A x \in P : Len(x.left) \in Nat
      BY <1>15, LenProperties
    <2>3. QED
      BY <2>2
  <1> HIDE DEF F, M
  <1>3. ASSUME NEW x \in P
        PROVE  IF x.left = <<>> THEN F[x] = x /\ M[x] = 0 ELSE M[F[x]] < M[x] /\ M[x] > 0
    <2>1. CASE x.left = <<>>
      <3>1. EncodeRound(x, ratio) = x
        BY <1>15, <2>1, EncodeRoundIs
      <3>2. M[x] = 0
        BY <1>2, <2>1, EmptySeq
      <3>3. QED
        BY <1>1, <2>1, <3>1, <3>2
    <2>2. CASE x.left # <<>>
      <3>1. PICK n \in 1..Len(x.left) : EncodeRound(x, ratio) = Wrapped(x, n, ratio)
        BY <1>15, <2>2, EncodeRoundIs
      <3>2. PICK t : t = Wrapped(x, n, ratio)
        OBVIOUS
      <3>3. Len(t.left) = Len(x.left) - n
        BY <1>15, <3>2, WrappedIs
      <3>4. F[x] = t /\ t \in P
        BY <1>1, <3>1, <3>2
      <3>5. M[t] = Len(t.left) /\ M[x] = Len(x.left) /\ M[x] \in Nat
        BY <1>2, <3>4
      <3>6. QED
        BY <2>2, <3>3, <3>4, <3>5
    <2>3. QED
      BY <2>1, <2>2
  <1> DEFINE n == Len(s.left)
             Rec(g) == g = [k \in 0..n |-> IF k = 0 THEN s ELSE EncodeRound(g[k - 1], ratio)]
             R == CHOOSE g : Rec(g)
  <1>4. n \in Nat /\ n = M[s]
    BY <1>2
  <1>5. EncodeRounds(s, ratio) = R[n]
    BY DEF EncodeRounds
  <1> HIDE DEF n
  <1>6. PICK f \in [0..n -> P] : \A k \in 0..n : f[k] = IF k = 0 THEN s ELSE F[f[k - 1]]
    <2>1. \E f : Rounds(f, P, F, s, n)
      BY <1>1, <1>4, LoopExists
    <2>2. QED
      BY <2>1, Zenon DEF Rounds
  <1>7. \A k \in 0..n : f[k] = IF k = 0 THEN s ELSE EncodeRound(f[k - 1], ratio)
    <2>1. \A k \in 0..n : k # 0 => k - 1 \in 0..n
      BY <1>4
    <2>2. \A k \in 0..n : k # 0 => f[k - 1] \in P
      BY <2>1
    <2>3. QED
      BY <1>1, <1>6, <2>2, Zenon
  <1>8. Rec(f)
    <2>1. f = [k \in 0..n |-> f[k]]
      BY Zenon
    <2>2. QED
      BY <1>7, <2>1, Zenon
  <1>9. Rec(R)
    <2> HIDE DEF Rec
    <2>1. QED
      BY <1>8, Zenon
  <1> HIDE DEF R
  <1>10. \A k \in 0..n : R[k] = IF k = 0 THEN s ELSE EncodeRound(R[k - 1], ratio)
    BY <1>9, Zenon
  <1> HIDE DEF Rec
  <1>11. R[0] = s
    BY <1>4, <1>10
  <1>12. ASSUME NEW k \in 1..n, R[k - 1] \in P PROVE R[k] = F[R[k - 1]]
    <2>1. k \in 0..n /\ k # 0
      BY <1>4
    <2>2. R[k] = EncodeRound(R[k - 1], ratio)
      BY <1>10, <2>1, Zenon
    <2>3. QED
      BY <1>1, <1>12, <2>2
  <1>13. Ended(P, F, R[n])
    <2>1. Ending(P, F, M)
      <3>1. \A x \in P : F[x] = x \/ F[F[x]] = F[x] \/ M[F[x]] < M[x]
        BY <1>3, Zenon
      <3>2. \A x \in P : M[x] = 0 => F[x] = x
        <4>1. ASSUME NEW x \in P, M[x] = 0 PROVE F[x] = x
          <5>1. ~(M[x] > 0)
            BY <4>1
          <5>2. QED
            BY <1>3, <5>1, Zenon
        <4>2. QED
          BY <4>1
      <3>3. QED
        BY <3>1, <3>2, Zenon DEF Ending
    <2>2. Repeats(R, P, F, s, n)
      BY <1>11, <1>12, Zenon DEF Repeats
    <2>3. QED
      BY <1>1, <1>2, <1>4, <2>1, <2>2, LoopResult
  <1>14. R[n] \in P /\ F[R[n]] = R[n]
    BY <1>13 DEF Ended
  <1>16. R[n].left = <<>>
    <2>1. PICK x \in P : x = R[n]
      BY <1>14
    <2>2. M[x] \in Nat /\ F[x] = x
      BY <1>2, <1>14, <2>1
    <2>3. ~(M[F[x]] < M[x])
      BY <2>2
    <2>4. x.left = <<>>
      BY <1>3, <2>3, Zenon
    <2>5. QED
      BY <2>1, <2>4
  <1>17. QED
    BY <1>5, <1>14, <1>16

-----------------------------------------------------------------------------
(* encode.                                                                  *)

\* Chunks that carry the bytes.
Carrying(c, plains, bytes) ==
    /\ c \in Seq(ChunkByte) /\ plains \in Seq(Plain)
    /\ <<c, plains>> \in Chunked /\ <<bytes, plains>> \in Joined(FrameByte)

\* encode makes chunks that carry its argument, behind the identifier if that was
\* not written before.
LEMMA EncodeChunksIs ==
    ASSUME NEW bytes \in Plain, NEW ratio \in {1, 2}
    PROVE  \E c, plains : /\ Carrying(c, plains, bytes)
                          /\ EncodeChunks(bytes, ratio) = (IF wroteId THEN <<>> ELSE Identifier) \o c
  <1>1. PICK head : head = IF wroteId THEN <<>> ELSE Identifier
    OBVIOUS
  <1>2. head \in Seq(ChunkByte)
    BY <1>1, IdentifierIs, EmptySeq
  <1>3. PICK s : s = [left |-> bytes, out |-> head]
    OBVIOUS
  <1>4. s \in Encoders /\ s.left = bytes /\ s.out = head
    BY <1>2, <1>3 DEF Encoders
  <1>5. PICK none : none = <<>>
    OBVIOUS
  <1>6. s \in Wrapping(bytes, head)
    <2>1. bytes \in Seq(FrameByte)
      BY DEF Plain
    <2>2. bytes = none \o s.left /\ s.out = head \o none
      BY <1>2, <1>4, <1>5, <2>1, ConcatEmptySeq
    <2>3. <<none, none>> \in Chunked
      BY <1>5, ChunkUnitsAre, ComposedNothing DEF Chunked
    <2>4. <<none, none>> \in Joined(FrameByte)
      BY <1>5, JoinedNothing
    <2>5. PartlyWrapped(bytes, head, s, none, none, none)
      BY <2>2, <2>3, <2>4, Zenon DEF PartlyWrapped
    <2>6. QED
      BY <1>4, <2>5, Zenon DEF Wrapping
  <1>7. PICK P : P = Wrapping(bytes, head)
    OBVIOUS
  <1>8. P \in SUBSET Encoders /\ \A x \in P : EncodeRound(x, ratio) \in P
    <2>1. P \in SUBSET Encoders
      BY <1>7 DEF Wrapping
    <2>2. \A x \in P : EncodeRound(x, ratio) \in P
      BY <1>2, <1>7, EncodeRoundUp
    <2>3. QED
      BY <2>1, <2>2
  <1>9. PICK t : t = EncodeRounds(s, ratio)
    OBVIOUS
  <1>10. t \in P /\ t.left = <<>>
    BY <1>6, <1>7, <1>8, <1>9, EncodeRoundsEnd
  <1>11. PICK c, plains, given : PartlyWrapped(bytes, head, t, c, plains, given)
    BY <1>7, <1>10 DEF Wrapping
  <1>12. /\ bytes = given \o t.left /\ t.out = head \o c
         /\ <<c, plains>> \in Chunked /\ <<given, plains>> \in Joined(FrameByte)
    BY <1>11 DEF PartlyWrapped
  <1>13. given \in Seq(FrameByte)
    BY <1>12, JoinedParts
  <1>14. bytes = given
    BY <1>10, <1>12, <1>13, ConcatEmptySeq
  <1>15. c \in Seq(ChunkByte) /\ plains \in Seq(Plain)
    BY <1>12, ChunkUnitsAre, ComposedPair DEF Chunked
  <1>16. Carrying(c, plains, bytes)
    BY <1>12, <1>14, <1>15 DEF Carrying
  <1>17. EncodeChunks(bytes, ratio) = t.out
    BY <1>1, <1>3, <1>9, Zenon DEF EncodeChunks
  <1>18. QED
    BY <1>1, <1>12, <1>16, <1>17, Zenon

-----------------------------------------------------------------------------
(* What is between the two ends.                                            *)

\* Behind the decoder come the bytes `flat`.
Compressed(wrote, saw, b, k, flat) ==
    /\ b \in Seq(ChunkByte) /\ k \in Seq(ChunkByte) /\ saw \in BOOLEAN
    /\ IF wrote
       THEN \E plains \in Seq(Plain) : Lead(saw, b \o k, plains) /\ <<flat, plains>> \in Joined(FrameByte)
       ELSE b = <<>> /\ k = <<>> /\ saw = FALSE /\ flat = <<>>

\* send_frame's chunks continue a compressed stream.
LEMMA CompressedMore ==
    ASSUME NEW wrote \in BOOLEAN, NEW saw, NEW b, NEW k, NEW flat, Compressed(wrote, saw, b, k, flat),
           NEW c, NEW plains, NEW bytes \in Seq(FrameByte), Carrying(c, plains, bytes),
           NEW new, new = (IF wrote THEN <<>> ELSE Identifier) \o c
    PROVE  Compressed(TRUE, saw, b, k \o new, flat \o bytes)
  <1>1. /\ b \in Seq(ChunkByte) /\ k \in Seq(ChunkByte) /\ saw \in BOOLEAN
        /\ c \in Seq(ChunkByte) /\ plains \in Seq(Plain)
        /\ <<c, plains>> \in Chunked /\ <<bytes, plains>> \in Joined(FrameByte)
    BY DEF Compressed, Carrying
  <1>2. CASE wrote
    <2>1. new = c
      BY <1>1, <1>2, ConcatEmptySeq
    <2>2. PICK old \in Seq(Plain) : Lead(saw, b \o k, old) /\ <<flat, old>> \in Joined(FrameByte)
      BY <1>2 DEF Compressed
    <2>3. PICK all \in Seq(Plain) : all = old \o plains
      BY <1>1, ConcatProperties
    <2>4. <<flat \o bytes, all>> \in Joined(FrameByte)
      BY <1>1, <2>2, <2>3, JoinedConcat
    <2>5. k \o new \in Seq(ChunkByte)
      BY <1>1, <2>1, ConcatProperties
    <2>6. (b \o k) \o c = b \o (k \o c)
      BY <1>1, ChunkRegroup, Zenon
    <2>7. PICK w : w = b \o k
      OBVIOUS
    <2>8. Lead(saw, w \o c, all)
      <3>1. ChunkUnits \in SUBSET (Seq(ChunkByte) \X Seq(Plain))
        BY ChunkUnitsAre
      <3>2. CASE saw
        <4>1. <<w, old>> \in Composed(ChunkByte, Plain, ChunkUnits) /\ <<c, plains>> \in Composed(ChunkByte, Plain, ChunkUnits)
          BY <1>1, <2>2, <2>7, <3>2 DEF Lead, Chunked
        <4>2. <<w \o c, old \o plains>> \in Composed(ChunkByte, Plain, ChunkUnits)
          BY <3>1, <4>1, ComposedConcat
        <4>3. QED
          BY <2>3, <3>2, <4>2 DEF Lead, Chunked
      <3>3. CASE ~saw
        <4>1. PICK d : w = Identifier \o d /\ <<d, old>> \in Chunked
          BY <2>2, <2>7, <3>3 DEF Lead
        <4>2. <<d, old>> \in Composed(ChunkByte, Plain, ChunkUnits) /\ <<c, plains>> \in Composed(ChunkByte, Plain, ChunkUnits)
          BY <1>1, <4>1 DEF Chunked
        <4>3. <<d \o c, old \o plains>> \in Composed(ChunkByte, Plain, ChunkUnits)
          BY <3>1, <4>2, ComposedConcat
        <4>4. d \in Seq(ChunkByte)
          BY <3>1, <4>2, ComposedPair
        <4>5. (Identifier \o d) \o c = Identifier \o (d \o c)
          BY <1>1, <4>4, IdentifierIs, ChunkRegroup, Zenon
        <4>6. PICK e : e = d \o c
          OBVIOUS
        <4>7. w \o c = Identifier \o e /\ <<e, all>> \in Chunked
          BY <2>3, <4>1, <4>3, <4>5, <4>6 DEF Chunked
        <4>8. QED
          BY <3>3, <4>7, Zenon DEF Lead
      <3>4. QED
        BY <3>2, <3>3
    <2>9. Lead(saw, b \o (k \o new), all)
      BY <2>1, <2>6, <2>7, <2>8
    <2>10. QED
      BY <1>1, <2>4, <2>5, <2>9, Zenon DEF Compressed
  <1>3. CASE ~wrote
    <2>1. b = <<>> /\ k = <<>> /\ saw = FALSE /\ flat = <<>>
      BY <1>3 DEF Compressed
    <2>2. new = Identifier \o c
      BY <1>3
    <2>3. new \in Seq(ChunkByte)
      BY <1>1, <2>2, IdentifierIs, ConcatProperties
    <2>4. k \o new = new /\ b \o new = new /\ flat \o bytes = bytes
      BY <2>1, <2>3, ConcatEmptySeq
    <2>5. Lead(FALSE, new, plains)
      BY <1>1, <2>2, Zenon DEF Lead
    <2>6. PICK kk, ff : kk = k \o new /\ ff = flat \o bytes
      OBVIOUS
    <2>7. Lead(saw, b \o kk, plains) /\ <<ff, plains>> \in Joined(FrameByte) /\ kk \in Seq(ChunkByte)
      BY <1>1, <2>1, <2>3, <2>4, <2>5, <2>6
    <2>8. Compressed(TRUE, saw, b, kk, ff)
      BY <1>1, <2>7, Zenon DEF Compressed
    <2>9. QED
      BY <2>6, <2>8
  <1>4. QED
    BY <1>2, <1>3

\* What decode hands on, and what is still to come.
Handed(d, beyond, flat) ==
    /\ ~d.error /\ d.out \in Seq(Plain) /\ Waiting(d.decoder.buffer)
    /\ \E x, y : /\ flat = x \o y /\ x \in Seq(FrameByte) /\ y \in Seq(FrameByte)
                 /\ <<x, d.out>> \in Joined(FrameByte)
                 /\ Compressed(TRUE, d.decoder.saw, d.decoder.buffer, beyond, y)

\* decode on a segment of a compressed stream.
LEMMA DecodeHands ==
    ASSUME NEW bytes \in Seq(ChunkByte), NEW beyond \in Seq(ChunkByte), NEW k, k = bytes \o beyond,
           NEW flat, Compressed(TRUE, decoder.saw, decoder.buffer, k, flat)
    PROVE  Handed(DecodeChunks(bytes), beyond, flat)
  <1>1. PICK b, s : b = decoder.buffer /\ s = decoder.saw
    OBVIOUS
  <1>2. PICK plains \in Seq(Plain) :
           /\ b \in Seq(ChunkByte) /\ s \in BOOLEAN
           /\ Lead(s, b \o k, plains) /\ <<flat, plains>> \in Joined(FrameByte)
    BY <1>1 DEF Compressed
  <1>3. PICK d : d = DecodeChunks(bytes)
    OBVIOUS
  <1>4. Fed(d, beyond, plains)
    BY <1>1, <1>2, <1>3, DecodeFed
  <1>5. /\ ~d.error /\ d.decoder.saw \in BOOLEAN /\ d.decoder.buffer \in Seq(ChunkByte)
        /\ Waiting(d.decoder.buffer) /\ d.out \in Seq(Plain)
    BY <1>4 DEF Fed
  <1>6. PICK rest \in Seq(Plain) : plains = d.out \o rest /\ Lead(d.decoder.saw, d.decoder.buffer \o beyond, rest)
    BY <1>4 DEF Fed
  <1>7. Split(FrameByte, flat, d.out, rest)
    <2>1. Seq(Plain) \subseteq Seq(Seq(FrameByte))
      <3>1. Plain \subseteq Seq(FrameByte)
        BY DEF Plain
      <3>2. QED
        BY <3>1, SeqMonotonic
    <2>2. PICK o : o = d.out
      OBVIOUS
    <2>3. o \in Seq(Seq(FrameByte)) /\ rest \in Seq(Seq(FrameByte)) /\ <<flat, o \o rest>> \in Joined(FrameByte)
      BY <1>2, <1>5, <1>6, <2>1, <2>2
    <2>4. Split(FrameByte, flat, o, rest)
      BY <2>3, JoinedSplit
    <2>5. QED
      BY <2>2, <2>4
  <1>8. PICK x \in Seq(FrameByte), y \in Seq(FrameByte) :
           flat = x \o y /\ <<x, d.out>> \in Joined(FrameByte) /\ <<y, rest>> \in Joined(FrameByte)
    BY <1>7 DEF Split
  <1>9. Compressed(TRUE, d.decoder.saw, d.decoder.buffer, beyond, y)
    BY <1>5, <1>6, <1>8, Zenon DEF Compressed
  <1>10. Handed(d, beyond, flat)
    BY <1>5, <1>8, <1>9, Zenon DEF Handed
  <1>11. QED
    BY <1>3, <1>10

-----------------------------------------------------------------------------
(* What the receiving end makes of it.                                      *)

\* The frames `got` are the first of `whole`.
Prefixes(whole, got) == \E rest \in Seq(Frames) : whole = got \o rest

\* The frames sent are those received, those that the buffer and the bytes
\* still to come spell out, and no others.
Spells(v, whole, got, b, flat) ==
    \E rest \in Seq(Frames) : whole = got \o rest /\ <<b \o flat, rest>> \in Spelled(v)

\* Associativity, for frames.
LEMMA FramesRegroup ==
    ASSUME NEW a \in Seq(Frames), NEW b \in Seq(Frames), NEW c \in Seq(Frames)
    PROVE  (a \o b) \o c = a \o (b \o c)
  BY ConcatAssociative

\* A consumer that has got on to where y is ahead.
Onward(c, v, y, sure) ==
    /\ c.frames \in Seq(Frames) /\ c.error \in BOOLEAN /\ (c.error => ~sure)
    /\ Prefixes(sentFrames, receivedFrames \o c.frames)
    /\ ~c.error => /\ c.buffer \in Seq(FrameByte) /\ Settled(c.buffer)
                   /\ Spells(v, sentFrames, receivedFrames \o c.frames, c.buffer, y)

\* The consumer of a segment's first chunk.
LEMMA ConsumerIs ==
    ASSUME receiveBuffer \in Seq(AnyByte)
    PROVE  /\ Consumer \in Consumers /\ Consumer.buffer = receiveBuffer
           /\ Consumer.frames = <<>> /\ Consumer.error = FALSE
  <1>1. <<>> \in Seq(Frames)
    BY EmptySeq
  <1>2. QED
    BY <1>1 DEF Consumer, Consumers

\* A segment's chunks of an acceptable stream.
LEMMA ConsumedOnward ==
    ASSUME NEW v \in {1, 2}, v = config.to.smuxver, SmuxBuf \in Nat,
           receivedFrames \in Seq(Frames), sentFrames \in Seq(Frames),
           receiveBuffer \in Seq(FrameByte), Settled(receiveBuffer),
           NEW sure \in BOOLEAN, NEW limit \in Nat, sure => MostWaiting + limit <= SmuxBuf,
           NEW x \in Seq(FrameByte), NEW y \in Seq(FrameByte), NEW flat, flat = x \o y,
           NEW chunks \in Seq({p \in Seq(FrameByte) : Len(p) <= limit}), <<x, chunks>> \in Joined(FrameByte),
           Spells(v, sentFrames, receivedFrames, receiveBuffer, flat)
    PROVE  Onward(Consumed(chunks), v, y, sure)
  <1>1. PICK rest \in Seq(Frames) :
           sentFrames = receivedFrames \o rest /\ <<receiveBuffer \o flat, rest>> \in Spelled(v)
    BY DEF Spells
  <1>2. receiveBuffer \in Seq(AnyByte)
    BY AnyBytes
  <1>3. PICK s : s = Consumer
    OBVIOUS
  <1>4. s \in Consumers /\ s.buffer = receiveBuffer /\ s.frames = <<>> /\ s.error = FALSE
    BY <1>2, <1>3, ConsumerIs
  <1>5. rest = s.frames \o rest
    BY <1>4, ConcatEmptySeq
  <1>6. s \in UpTo(v, rest, x \o y)
    BY <1>1, <1>4, <1>5 DEF UpTo
  <1>7. s \in UpOr(v, rest, x \o y, sure)
    BY <1>4, <1>5, <1>6 DEF UpOr
  <1>8. PICK c : c = Consumed(chunks)
    OBVIOUS
  <1>9. c \in UpOr(v, rest, y, sure)
    BY <1>3, <1>7, <1>8, ConsumedUp
  <1>10. c \in Consumers /\ (c.error => ~sure)
    BY <1>9 DEF UpOr
  <1>11. c.frames \in Seq(Frames) /\ c.error \in BOOLEAN
    BY <1>10 DEF Consumers
  <1>12. \A r \in Seq(Frames) : (receivedFrames \o c.frames) \o r = receivedFrames \o (c.frames \o r)
    <2>1. PICK g \in Seq(Frames) : g = c.frames
      BY <1>11
    <2>2. \A r \in Seq(Frames) : (receivedFrames \o g) \o r = receivedFrames \o (g \o r)
      BY FramesRegroup, Zenon
    <2>3. QED
      BY <2>1, <2>2
  <1>13. Prefixes(sentFrames, receivedFrames \o c.frames)
    <2>1. PICK r \in Seq(Frames) : rest = c.frames \o r
      BY <1>9 DEF UpOr
    <2>2. sentFrames = (receivedFrames \o c.frames) \o r
      BY <1>1, <1>12, <2>1
    <2>3. QED
      BY <2>2, Zenon DEF Prefixes
  <1>14. ASSUME ~c.error
         PROVE  /\ c.buffer \in Seq(FrameByte) /\ Settled(c.buffer)
                /\ Spells(v, sentFrames, receivedFrames \o c.frames, c.buffer, y)
    <2>1. c \in UpTo(v, rest, y) /\ Settled(c.buffer)
      BY <1>9, <1>14 DEF UpOr
    <2>2. PICK r \in Seq(Frames) : rest = c.frames \o r /\ <<c.buffer \o y, r>> \in Spelled(v)
      BY <2>1 DEF UpTo
    <2>3. sentFrames = (receivedFrames \o c.frames) \o r
      BY <1>1, <1>12, <2>2
    <2>4. Spells(v, sentFrames, receivedFrames \o c.frames, c.buffer, y)
      BY <2>2, <2>3, Zenon DEF Spells
    <2>5. c.buffer \in Seq(FrameByte)
      BY <2>1 DEF UpTo
    <2>6. QED
      BY <2>1, <2>4, <2>5
  <1>15. Onward(c, v, y, sure)
    BY <1>10, <1>11, <1>13, <1>14, Zenon DEF Onward
  <1>16. QED
    BY <1>8, <1>15

\* A consumer that has taken nothing of a stream it refuses.
Refusing(c, y) ==
    /\ c.frames = <<>> /\ c.error \in BOOLEAN
    /\ ~c.error => c.buffer \in Seq(AnyByte) /\ Foreign(c.buffer \o y) /\ Len(c.buffer) < HeaderSize

\* A segment's chunks of a stream that is refused.
LEMMA ConsumedRefusing ==
    ASSUME NEW S, S \subseteq AnyByte, receiveBuffer \in Seq(AnyByte),
           NEW x \in Seq(S), NEW y \in Seq(S), NEW chunks \in Seq(Seq(S)), <<x, chunks>> \in Joined(S),
           Foreign(receiveBuffer \o (x \o y)), Len(receiveBuffer) < HeaderSize
    PROVE  Refusing(Consumed(chunks), y)
  <1>1. PICK s : s = Consumer
    OBVIOUS
  <1>2. s \in Consumers /\ s.buffer = receiveBuffer /\ s.frames = <<>> /\ s.error = FALSE
    BY <1>1, ConsumerIs
  <1>3. s \in RefusedBy(x \o y)
    BY <1>2 DEF RefusedBy, ForeignTo, Refuses
  <1>4. PICK c : c = Consumed(chunks)
    OBVIOUS
  <1>5. c \in RefusedBy(y)
    BY <1>1, <1>3, <1>4, ConsumedForeign
  <1>6. QED
    BY <1>4, <1>5 DEF RefusedBy, ForeignTo, Refuses, Refusing, Consumers

\* What starts foreign stays so whatever follows.
LEMMA ForeignMore ==
    ASSUME NEW b \in Seq(AnyByte), NEW x \in Seq(AnyByte), Foreign(b)
    PROVE  Foreign(b \o x)
  <1>1. b \o x # <<>> /\ (b \o x)[1] = b[1] /\ Len(b \o x) >= Len(b)
    BY FirstOf DEF Foreign
  <1>2. Len(b) \in Nat /\ Len(b \o x) \in Nat /\ HeaderSize \in Nat
    <2>1. PICK w \in Seq(AnyByte) : w = b \o x
      BY ConcatProperties
    <2>2. QED
      BY <2>1, LenProperties, FramingAssumption
  <1>3. QED
    BY <1>1, <1>2 DEF Foreign

-----------------------------------------------------------------------------
(* The inductive invariant.                                                 *)

\* The types, without the state of the buffers.
FramingTyped ==
    /\ config \in [from : EndConfig, to : EndConfig, smuxbuf : SmuxBufs]
    /\ sentFrames \in Seq(Frames) /\ receivedFrames \in Seq(Frames)
    /\ wroteId \in BOOLEAN /\ closed \in BOOLEAN /\ decoder.saw \in BOOLEAN

\* A decoder that has been given nothing.
Fresh == decoder = [buffer |-> <<>>, saw |-> FALSE]

\* The bytes of frames that what is under way comes to.
Coming(flat) ==
    /\ flat \in Seq(FrameByte)
    /\ IF config.from.nocomp THEN flat = kcp
       ELSE Compressed(wroteId, decoder.saw, decoder.buffer, kcp, flat)

\* Buffer and coming bytes spell out the frames not received yet.
Spelling(flat) ==
    /\ receiveBuffer \in Seq(FrameByte) /\ Settled(receiveBuffer)
    /\ Spells(config.to.smuxver, sentFrames, receivedFrames, receiveBuffer, flat)

\* Buffer and coming bytes start with what this end takes for no header.
Refused(flat) ==
    /\ receiveBuffer \in Seq(AnyByte) /\ Len(receiveBuffer) < HeaderSize
    /\ IF sentFrames = <<>> THEN receiveBuffer = <<>> /\ flat = <<>>
       ELSE Foreign(receiveBuffer \o flat)

\* What the ends have in common.
SameVersion == config.from.smuxver = config.to.smuxver
SameNocomp == config.from.nocomp = config.to.nocomp

\* How the receiving end reads the frames that come.
Reading(flat) == Coming(flat) /\ IF SameVersion THEN Spelling(flat) ELSE Refused(flat)

\* Both ends compress, or neither does.
OpenAlike ==
    /\ Waiting(decoder.buffer) /\ (config.to.nocomp => Fresh)
    /\ \E flat : Reading(flat)

\* Compressed bytes come to an end that takes them for frames.
OpenCompressed ==
    /\ Fresh /\ kcp \in Seq(ChunkByte) /\ Refused(kcp)
    /\ wroteId => receiveBuffer \o kcp # <<>>

\* Frames come to an end that takes them for chunks.
OpenRaw ==
    /\ kcp \in Seq(FrameByte) /\ decoder.buffer \in Seq(FrameByte) /\ decoder.saw = FALSE
    /\ Len(decoder.buffer) < ChunkHeader /\ receiveBuffer = <<>>
    /\ sentFrames # <<>> => Len(decoder.buffer \o kcp) >= ChunkHeader

\* The state of a session that has not closed.
Open ==
    /\ sentFrames = <<>> => kcp = <<>>
    /\ SameNocomp => OpenAlike
    /\ ~SameNocomp => IF config.to.nocomp THEN OpenCompressed ELSE OpenRaw

\* The frames received are the first of those sent, none between ends that differ.
Received ==
    /\ Same => Prefixes(sentFrames, receivedFrames)
    /\ ~Same => receivedFrames = <<>>

\* The inductive invariant.
FramingInv == FramingTyped /\ Received /\ NoFalseError /\ (~closed => Open)

\* Same means same version and same nocomp.
LEMMA ConfigIs ==
    ASSUME FramingTyped
    PROVE  /\ config.from.smuxver \in {1, 2} /\ config.to.smuxver \in {1, 2}
           /\ config.from.nocomp \in BOOLEAN /\ config.to.nocomp \in BOOLEAN
           /\ SmuxBuf \in Nat /\ (Same <=> SameVersion /\ SameNocomp)
  <1>1. config.from \in EndConfig /\ config.to \in EndConfig /\ config.smuxbuf \in SmuxBufs
    BY DEF FramingTyped
  <1>2. SmuxBuf \in Nat
    BY <1>1, FramingAssumption DEF SmuxBuf
  <1>3. PICK a, b : a = config.from /\ b = config.to
    OBVIOUS
  <1>4. a \in EndConfig /\ b \in EndConfig
    BY <1>1, <1>3
  <1>5. a = b <=> a.smuxver = b.smuxver /\ a.nocomp = b.nocomp
    BY <1>4 DEF EndConfig
  <1>6. /\ a.smuxver \in {1, 2} /\ b.smuxver \in {1, 2}
        /\ a.nocomp \in BOOLEAN /\ b.nocomp \in BOOLEAN
    BY <1>4 DEF EndConfig
  <1>7. QED
    BY <1>2, <1>3, <1>5, <1>6 DEF Same, SameVersion, SameNocomp

-----------------------------------------------------------------------------
(* send_frame.                                                              *)

\* `new` is what encode may make of the bytes.
Encoded(wrote, bytes, new) ==
    \E c, plains : Carrying(c, plains, bytes) /\ new = (IF wrote THEN <<>> ELSE Identifier) \o c

\* send_frame with the bytes it gives to KCP.
Sends(f, bytes, new) ==
    /\ bytes = FrameBytes(f, config.from.smuxver) /\ sentFrames' = Append(sentFrames, f)
    /\ kcp' = kcp \o new
    /\ config' = config /\ decoder' = decoder /\ receiveBuffer' = receiveBuffer
    /\ receivedFrames' = receivedFrames /\ closed' = closed
    /\ IF config.from.nocomp THEN new = bytes /\ wroteId' = wroteId
       ELSE wroteId' = TRUE /\ Encoded(wroteId, bytes, new)

\* Every send_frame is one of these.
LEMMA SendFrameDoes ==
    ASSUME FramingTyped, NEW f \in Frames, SendFrame(f)
    PROVE  \E bytes \in Plain : \E new : Sends(f, bytes, new)
  <1>1. PICK v \in {1, 2} : v = config.from.smuxver
    BY ConfigIs
  <1>2. PICK bytes : bytes = FrameBytes(f, v)
    OBVIOUS
  <1>3. bytes \in Plain
    BY <1>2, FrameBytesAre DEF Plain
  <1>4. /\ sentFrames' = Append(sentFrames, f)
        /\ config' = config /\ decoder' = decoder /\ receiveBuffer' = receiveBuffer
        /\ receivedFrames' = receivedFrames /\ closed' = closed
    BY DEF SendFrame
  <1>5. \/ config.from.nocomp /\ kcp' = kcp \o bytes /\ wroteId' = wroteId
        \/ /\ ~config.from.nocomp /\ wroteId' = TRUE
           /\ \E ratio \in {1, 2} : kcp' = kcp \o EncodeChunks(bytes, ratio)
    BY <1>1, <1>2, Zenon DEF SendFrame
  <1>6. CASE config.from.nocomp
    <2>1. Sends(f, bytes, bytes)
      BY <1>1, <1>2, <1>4, <1>5, <1>6, Zenon DEF Sends
    <2>2. QED
      BY <1>3, <2>1
  <1>7. CASE ~config.from.nocomp
    <2>1. PICK ratio \in {1, 2} : kcp' = kcp \o EncodeChunks(bytes, ratio)
      BY <1>5, <1>7
    <2>2. PICK c, plains : /\ Carrying(c, plains, bytes)
                           /\ EncodeChunks(bytes, ratio) = (IF wroteId THEN <<>> ELSE Identifier) \o c
      BY <1>3, EncodeChunksIs
    <2>3. PICK new : new = EncodeChunks(bytes, ratio)
      OBVIOUS
    <2>4. Encoded(wroteId, bytes, new)
      BY <2>2, <2>3, Zenon DEF Encoded
    <2>5. Sends(f, bytes, new)
      BY <1>1, <1>2, <1>4, <1>5, <1>7, <2>1, <2>3, <2>4, Zenon DEF Sends
    <2>6. QED
      BY <1>3, <2>5
  <1>8. QED
    BY <1>6, <1>7

\* The first byte of a frame, or of chunks behind the identifier, is foreign.
LEMMA ForeignStart ==
    ASSUME FramingTyped, NEW f \in Frames
    PROVE  /\ ~SameVersion => Foreign(FrameBytes(f, config.from.smuxver))
           /\ \A c \in Seq(ChunkByte) : Foreign(Identifier \o c)
  <1>1. PICK v \in {1, 2}, w \in {1, 2} : v = config.from.smuxver /\ w = config.to.smuxver
    BY ConfigIs
  <1>2. ASSUME ~SameVersion PROVE Foreign(FrameBytes(f, v))
    <2>1. PICK b, n : b = FrameBytes(f, v) /\ n = HeaderSize + f.len
      OBVIOUS
    <2>2. /\ b # <<>> /\ Len(b) >= HeaderSize
          /\ b[1] = [unit |-> [kind |-> "frame", frame |-> f, version |-> v], pos |-> 1, size |-> n]
      BY <2>1, FrameBytesAre
    <2>3. b[1].unit.version = v
      BY <2>2
    <2>4. v # w
      BY <1>1, <1>2 DEF SameVersion
    <2>5. ~Acceptable(b[1])
      BY <1>1, <2>3, <2>4 DEF Acceptable
    <2>6. QED
      BY <2>1, <2>2, <2>5 DEF Foreign
  <1>3. ASSUME NEW c \in Seq(ChunkByte) PROVE Foreign(Identifier \o c)
    <2>1. PICK a, n : a = Identifier /\ n = IdentifierSize
      OBVIOUS
    <2>2. /\ a \in Seq(ChunkByte) /\ a # <<>> /\ Len(a) = n
          /\ a[1] = [unit |-> [kind |-> "identifier"], pos |-> 1, size |-> n]
      BY <2>1, IdentifierIs
    <2>3. a \o c # <<>> /\ (a \o c)[1] = a[1] /\ Len(a \o c) >= Len(a)
      BY <2>2, FirstOf
    <2>4. a[1].unit.kind = "identifier"
      BY <2>2
    <2>5. ~Acceptable(a[1])
      BY <2>4 DEF Acceptable
    <2>6. Len(a \o c) \in Nat /\ n \in Nat /\ n >= HeaderSize /\ HeaderSize \in Nat
      <3>1. PICK d \in Seq(ChunkByte) : d = a \o c
        BY <2>2, ConcatProperties
      <3>2. QED
        BY <2>1, <3>1, LenProperties, FramingAssumption
    <2>7. Len(a \o c) >= HeaderSize
      BY <2>2, <2>3, <2>6
    <2>8. QED
      BY <2>1, <2>3, <2>5, <2>7 DEF Foreign
  <1>4. QED
    BY <1>1, <1>2, <1>3

\* A stream that is refused stays so when more is sent.
LEMMA SendRefused ==
    ASSUME NEW old \in Seq(AnyByte), NEW new \in Seq(AnyByte), Refused(old),
           receiveBuffer \o old # <<>> \/ Foreign(new)
    PROVE  Foreign(receiveBuffer \o (old \o new))
  <1>1. receiveBuffer \in Seq(AnyByte)
    BY DEF Refused
  <1>2. (receiveBuffer \o old) \o new = receiveBuffer \o (old \o new)
    BY <1>1, AnyRegroup, Zenon
  <1>3. PICK b \in Seq(AnyByte) : b = receiveBuffer \o old
    BY <1>1, ConcatProperties
  <1>4. CASE b # <<>>
    <2>1. Foreign(b)
      <3>1. CASE sentFrames = <<>>
        <4>1. b = <<>> \o <<>>
          BY <1>3, <3>1 DEF Refused
        <4>2. QED
          BY <1>4, <4>1, EmptySeq, ConcatEmptySeq
      <3>2. QED
        BY <1>3, <3>1 DEF Refused
    <2>2. QED
      BY <1>2, <1>3, <2>1, ForeignMore
  <1>5. CASE b = <<>>
    <2>1. b \o new = new
      BY <1>5, ConcatEmptySeq
    <2>2. QED
      BY <1>2, <1>3, <1>5, <2>1
  <1>6. QED
    BY <1>4, <1>5

\* What is foreign is a matter of the configuration.
LEMMA ForeignStays ==
    ASSUME config' = config, NEW b
    PROVE  Foreign(b)' <=> Foreign(b)
  BY DEF Foreign, Acceptable

\* The configuration stays, and with it what it says.
LEMMA ConfigStays ==
    ASSUME config' = config
    PROVE  /\ SmuxBuf' = SmuxBuf /\ (Same' <=> Same)
           /\ (SameVersion' <=> SameVersion) /\ (SameNocomp' <=> SameNocomp)
  BY DEF SmuxBuf, Same, SameVersion, SameNocomp

\* A frame alone is a sequence of frames.
LEMMA OneFrame ==
    ASSUME NEW f \in Frames
    PROVE  <<f>> \in Seq(Frames)
  OBVIOUS

\* After a frame was sent there is one.
LEMMA SentSome ==
    ASSUME NEW s \in Seq(Frames), NEW f \in Frames
    PROVE  Append(s, f) # <<>>
  BY AppendProperties, EmptySeq, LenProperties

\* A frame more is spelled out by its bytes.
LEMMA SpellsMore ==
    ASSUME NEW v \in {1, 2}, NEW whole \in Seq(Frames), NEW got \in Seq(Frames), NEW b \in Seq(FrameByte),
           NEW flat \in Seq(FrameByte), Spells(v, whole, got, b, flat), NEW f \in Frames
    PROVE  Spells(v, Append(whole, f), got, b, flat \o FrameBytes(f, v))
  <1>1. PICK rest \in Seq(Frames) : whole = got \o rest /\ <<b \o flat, rest>> \in Spelled(v)
    BY DEF Spells
  <1>2. PICK a, g : a = FrameBytes(f, v) /\ g = <<f>>
    OBVIOUS
  <1>3. FrameUnits(v) \in SUBSET (Seq(FrameByte) \X Seq(Frames))
    BY FrameUnitsAre
  <1>4. <<a, g>> \in FrameUnits(v)
    BY <1>2, Zenon DEF FrameUnits
  <1>5. <<a, g>> \in Composed(FrameByte, Frames, FrameUnits(v))
    BY <1>3, <1>4, ComposedUnit
  <1>6. a \in Seq(FrameByte) /\ g \in Seq(Frames)
    BY <1>3, <1>5, ComposedPair
  <1>7. PICK w : w = b \o flat
    OBVIOUS
  <1>8. <<w, rest>> \in Composed(FrameByte, Frames, FrameUnits(v))
    BY <1>1, <1>7 DEF Spelled
  <1>9. <<w \o a, rest \o g>> \in Composed(FrameByte, Frames, FrameUnits(v))
    BY <1>3, <1>5, <1>8, ComposedConcat
  <1>10. (b \o flat) \o a = b \o (flat \o a)
    BY <1>6, FrameRegroup, Zenon
  <1>11. PICK more \in Seq(Frames) : more = rest \o g
    BY <1>6, ConcatProperties
  <1>12. <<b \o (flat \o a), more>> \in Spelled(v)
    BY <1>7, <1>9, <1>10, <1>11 DEF Spelled
  <1>13. Append(whole, f) = whole \o g
    BY <1>2, AppendIsConcat
  <1>14. (got \o rest) \o g = got \o (rest \o g)
    BY <1>6, FramesRegroup, Zenon
  <1>15. Append(whole, f) = got \o more
    BY <1>1, <1>11, <1>13, <1>14
  <1>16. QED
    BY <1>2, <1>12, <1>15, Zenon DEF Spells

\* send_frame between ends that both compress or both do not.
LEMMA SendAlike ==
    ASSUME FramingTyped, SameNocomp, OpenAlike, NEW f \in Frames, NEW bytes \in Plain, NEW new, Sends(f, bytes, new)
    PROVE  OpenAlike'
  <1>1. PICK flat : Reading(flat)
    BY DEF OpenAlike
  <1>2. flat \in Seq(FrameByte) /\ bytes \in Seq(FrameByte)
    BY <1>1 DEF Reading, Coming, Plain
  <1>3. /\ bytes = FrameBytes(f, config.from.smuxver) /\ sentFrames' = Append(sentFrames, f)
        /\ kcp' = kcp \o new
        /\ config' = config /\ decoder' = decoder /\ receiveBuffer' = receiveBuffer
        /\ receivedFrames' = receivedFrames
    BY DEF Sends
  <1>4. PICK more \in Seq(FrameByte) : more = flat \o bytes
    BY <1>2, ConcatProperties
  <1>5. Coming(more)'
    <2>1. CASE config.from.nocomp
      <3>1. flat = kcp /\ new = bytes
        BY <1>1, <2>1 DEF Reading, Coming, Sends
      <3>2. more = kcp'
        BY <1>3, <1>4, <3>1
      <3>3. QED
        BY <1>3, <2>1, <3>2 DEF Coming
    <2>2. CASE ~config.from.nocomp
      <3>1. wroteId' = TRUE /\ Encoded(wroteId, bytes, new)
        BY <2>2 DEF Sends
      <3>2. PICK c, plains : Carrying(c, plains, bytes) /\ new = (IF wroteId THEN <<>> ELSE Identifier) \o c
        BY <3>1 DEF Encoded
      <3>3. PICK saw, b, k, wrote : saw = decoder.saw /\ b = decoder.buffer /\ k = kcp /\ wrote = wroteId
        OBVIOUS
      <3>4. Compressed(wrote, saw, b, k, flat) /\ wrote \in BOOLEAN
        BY <1>1, <2>2, <3>3 DEF Reading, Coming, FramingTyped
      <3>5. new = (IF wrote THEN <<>> ELSE Identifier) \o c
        BY <3>2, <3>3
      <3>6. Compressed(TRUE, saw, b, k \o new, flat \o bytes)
        BY <1>2, <3>2, <3>4, <3>5, CompressedMore
      <3>7. Compressed(wroteId', decoder'.saw, decoder'.buffer, kcp', more)
        BY <1>3, <1>4, <3>1, <3>3, <3>6
      <3>8. ~config'.from.nocomp
        BY <1>3, <2>2
      <3>9. QED
        BY <3>7, <3>8 DEF Coming
    <2>3. QED
      BY <2>1, <2>2
  <1>6. CASE SameVersion
    <2>1. Spelling(flat)
      BY <1>1, <1>6 DEF Reading
    <2>2. PICK v \in {1, 2} : v = config.to.smuxver /\ v = config.from.smuxver
      BY <1>6, ConfigIs DEF SameVersion
    <2>3. Spells(v, Append(sentFrames, f), receivedFrames, receiveBuffer, flat \o FrameBytes(f, v))
      BY <1>2, <2>1, <2>2, SpellsMore DEF Spelling, FramingTyped
    <2>4. Spells(config'.to.smuxver, sentFrames', receivedFrames', receiveBuffer', more)
      BY <1>3, <1>4, <2>2, <2>3
    <2>5. Spelling(more)'
      BY <1>3, <2>1, <2>4 DEF Spelling
    <2>6. Reading(more)'
      BY <1>3, <1>5, <1>6, <2>5, ConfigStays DEF Reading
    <2>7. QED
      BY <1>3, <2>6 DEF OpenAlike, Fresh
  <1>7. CASE ~SameVersion
    <2>1. Refused(flat)
      BY <1>1, <1>7 DEF Reading
    <2>2. Foreign(bytes)
      BY <1>3, <1>7, ForeignStart
    <2>3. flat \in Seq(AnyByte) /\ bytes \in Seq(AnyByte)
      BY <1>2, AnyBytes
    <2>4. Foreign(receiveBuffer \o (flat \o bytes))
      BY <2>1, <2>2, <2>3, SendRefused
    <2>5. PICK w : w = receiveBuffer \o more
      OBVIOUS
    <2>6. Foreign(w)'
      BY <1>3, <1>4, <2>4, <2>5, ForeignStays
    <2>7. Foreign(receiveBuffer \o more)' /\ sentFrames' # <<>>
      BY <1>3, <2>5, <2>6, SentSome DEF FramingTyped
    <2>8. Refused(more)'
      BY <1>3, <2>1, <2>7 DEF Refused
    <2>9. Reading(more)'
      BY <1>3, <1>5, <1>7, <2>8, ConfigStays DEF Reading
    <2>10. QED
      BY <1>3, <2>9 DEF OpenAlike, Fresh
  <1>8. QED
    BY <1>6, <1>7

\* send_frame to an end that does not expect compression.
LEMMA SendCompressed ==
    ASSUME FramingTyped, ~SameNocomp, config.to.nocomp, OpenCompressed,
           NEW f \in Frames, NEW bytes \in Plain, NEW new, Sends(f, bytes, new)
    PROVE  OpenCompressed'
  <1>1. /\ kcp' = kcp \o new /\ config' = config /\ decoder' = decoder /\ receiveBuffer' = receiveBuffer
        /\ receivedFrames' = receivedFrames
    BY DEF Sends
  <1>2. ~config.from.nocomp
    BY ConfigIs DEF SameNocomp
  <1>3. PICK c, plains : Carrying(c, plains, bytes) /\ new = (IF wroteId THEN <<>> ELSE Identifier) \o c
    <2>1. Encoded(wroteId, bytes, new)
      BY <1>2 DEF Sends
    <2>2. QED
      BY <2>1 DEF Encoded
  <1>4. c \in Seq(ChunkByte)
    BY <1>3 DEF Carrying
  <1>5. kcp \in Seq(ChunkByte) /\ Refused(kcp) /\ (wroteId => receiveBuffer \o kcp # <<>>) /\ Fresh
    BY DEF OpenCompressed
  <1>6. new \in Seq(ChunkByte)
    BY <1>3, <1>4, IdentifierIs, EmptySeq, ConcatProperties
  <1>7. kcp \o new \in Seq(ChunkByte)
    BY <1>5, <1>6, ConcatProperties
  <1>8. receiveBuffer \o kcp # <<>> \/ Foreign(new)
    <2>1. CASE wroteId
      BY <1>5, <2>1
    <2>2. CASE ~wroteId
      BY <1>3, <1>4, <2>2, ForeignStart
    <2>3. QED
      BY <2>1, <2>2
  <1>9. Foreign(receiveBuffer \o (kcp \o new))
    <2>1. kcp \in Seq(AnyByte) /\ new \in Seq(AnyByte)
      BY <1>5, <1>6, AnyBytes
    <2>2. QED
      BY <1>5, <1>8, <2>1, SendRefused
  <1>10. PICK w : w = receiveBuffer \o kcp'
    OBVIOUS
  <1>11. Foreign(w)' /\ w # <<>>
    BY <1>1, <1>9, <1>10, ForeignStays DEF Foreign
  <1>12. Foreign(receiveBuffer \o kcp)' /\ receiveBuffer' \o kcp' # <<>> /\ sentFrames' # <<>>
    BY <1>1, <1>10, <1>11, SentSome DEF Sends, FramingTyped
  <1>13. Refused(kcp)'
    BY <1>1, <1>5, <1>12 DEF Refused
  <1>14. QED
    BY <1>1, <1>5, <1>7, <1>12, <1>13 DEF OpenCompressed, Fresh

\* send_frame to an end that does expect it.
LEMMA SendRaw ==
    ASSUME FramingTyped, ~SameNocomp, ~config.to.nocomp, OpenRaw,
           NEW f \in Frames, NEW bytes \in Plain, NEW new, Sends(f, bytes, new)
    PROVE  OpenRaw'
  <1>1. /\ kcp' = kcp \o new /\ config' = config /\ decoder' = decoder /\ receiveBuffer' = receiveBuffer
        /\ receivedFrames' = receivedFrames
    BY DEF Sends
  <1>2. config.from.nocomp
    BY ConfigIs DEF SameNocomp
  <1>3. new = bytes /\ bytes \in Seq(FrameByte)
    BY <1>2 DEF Sends, Plain
  <1>4. Len(bytes) >= HeaderSize
    <2>1. config.from.smuxver \in {1, 2} /\ bytes = FrameBytes(f, config.from.smuxver)
      BY ConfigIs DEF Sends
    <2>2. QED
      BY <2>1, FrameBytesAre
  <1>5. /\ kcp \in Seq(FrameByte) /\ decoder.buffer \in Seq(FrameByte) /\ decoder.saw = FALSE
        /\ Len(decoder.buffer) < ChunkHeader /\ receiveBuffer = <<>>
    BY DEF OpenRaw
  <1>6. PICK k : k = kcp \o bytes
    OBVIOUS
  <1>7. k \in Seq(FrameByte) /\ Len(k) = Len(kcp) + Len(bytes)
    BY <1>3, <1>5, <1>6, ConcatProperties
  <1>8. Len(decoder.buffer \o k) = Len(decoder.buffer) + Len(k)
    BY <1>5, <1>7, ConcatProperties
  <1>9. Len(decoder.buffer \o k) >= ChunkHeader
    <2>1. /\ Len(decoder.buffer) \in Nat /\ Len(k) \in Nat /\ Len(bytes) \in Nat /\ Len(kcp) \in Nat
          /\ HeaderSize \in Nat /\ ChunkHeader \in Nat /\ ChunkHeader <= HeaderSize
      BY <1>3, <1>5, <1>7, LenProperties, FramingAssumption
    <2>2. PICK a \in Nat, b \in Nat, c \in Nat : a = Len(decoder.buffer) /\ b = Len(bytes) /\ c = Len(kcp)
      BY <2>1
    <2>3. a + (c + b) >= ChunkHeader
      <3>1. b >= HeaderSize
        BY <1>4, <2>2
      <3>2. QED
        BY <2>1, <3>1
    <2>4. Len(decoder.buffer \o k) = a + (c + b)
      BY <1>7, <1>8, <2>2
    <2>5. QED
      BY <2>3, <2>4
  <1>10. kcp' = k
    BY <1>1, <1>3, <1>6
  <1>11. QED
    BY <1>1, <1>5, <1>7, <1>9, <1>10 DEF OpenRaw

\* send_frame keeps the invariant.
LEMMA SendFrameInv ==
    ASSUME FramingInv, NEW f \in Frames, SendFrame(f)
    PROVE  FramingInv'
  <1>1. FramingTyped /\ Received /\ NoFalseError /\ (~closed => Open)
    BY DEF FramingInv
  <1>11. PICK bytes \in Plain : \E new : Sends(f, bytes, new)
    BY <1>1, SendFrameDoes
  <1>2. PICK new : Sends(f, bytes, new)
    BY <1>11
  <1>3. /\ sentFrames' = Append(sentFrames, f)
        /\ config' = config /\ decoder' = decoder /\ receiveBuffer' = receiveBuffer
        /\ receivedFrames' = receivedFrames /\ closed' = closed
    BY <1>2 DEF Sends
  <1>4. wroteId' \in BOOLEAN
    BY <1>1, <1>2 DEF Sends, FramingTyped
  <1>5. FramingTyped'
    <2>1. sentFrames' \in Seq(Frames)
      BY <1>1, <1>3, AppendProperties DEF FramingTyped
    <2>2. QED
      BY <1>1, <1>3, <1>4, <2>1 DEF FramingTyped
  <1>6. Received'
    <2>1. CASE Same
      <3>1. PICK rest \in Seq(Frames) : sentFrames = receivedFrames \o rest
        BY <1>1, <2>1 DEF Received, Prefixes
      <3>2. PICK g \in Seq(Frames) : g = <<f>>
        BY OneFrame
      <3>3. PICK more \in Seq(Frames) : more = rest \o g
        BY ConcatProperties
      <3>4. sentFrames \in Seq(Frames) /\ receivedFrames \in Seq(Frames)
        BY <1>1 DEF FramingTyped
      <3>5. sentFrames' = sentFrames \o g
        BY <1>3, <3>2, <3>4, AppendIsConcat
      <3>6. (receivedFrames \o rest) \o g = receivedFrames \o (rest \o g)
        BY <3>4, FramesRegroup, Zenon
      <3>7. sentFrames' = receivedFrames' \o more
        BY <1>3, <3>1, <3>3, <3>5, <3>6
      <3>8. Prefixes(sentFrames', receivedFrames')
        BY <3>7, Zenon DEF Prefixes
      <3>9. QED
        BY <1>3, <2>1, <3>8, ConfigStays DEF Received
    <2>2. CASE ~Same
      BY <1>1, <1>3, <2>2, ConfigStays DEF Received
    <2>3. QED
      BY <2>1, <2>2
  <1>7. NoFalseError'
    BY <1>1, <1>3, ConfigStays DEF NoFalseError
  <1>10. sentFrames' # <<>>
    BY <1>1, <1>3, SentSome DEF FramingTyped
  <1>8. ASSUME ~closed' PROVE Open'
    <2>1. Open
      BY <1>1, <1>3, <1>8
    <2>2. CASE SameNocomp
      <3>1. OpenAlike'
        BY <1>1, <1>2, <2>1, <2>2, SendAlike DEF Open
      <3>2. QED
        BY <1>3, <2>2, <3>1, <1>10, ConfigStays DEF Open
    <2>3. CASE ~SameNocomp /\ config.to.nocomp
      <3>1. OpenCompressed'
        BY <1>1, <1>2, <2>1, <2>3, SendCompressed DEF Open
      <3>2. QED
        BY <1>3, <2>3, <3>1, <1>10, ConfigStays DEF Open
    <2>4. CASE ~SameNocomp /\ ~config.to.nocomp
      <3>1. OpenRaw'
        BY <1>1, <1>2, <2>1, <2>4, SendRaw DEF Open
      <3>2. QED
        BY <1>3, <2>4, <3>1, <1>10, ConfigStays DEF Open
    <2>5. QED
      BY <2>2, <2>3, <2>4
  <1>9. QED
    BY <1>5, <1>6, <1>7, <1>8 DEF FramingInv

-----------------------------------------------------------------------------
(* on_transport_bytes.                                                      *)

\* The chunks are consumed.
Consumes(chunks, error) ==
    /\ receiveBuffer' = Consumed(chunks).buffer
    /\ receivedFrames' = receivedFrames \o Consumed(chunks).frames
    /\ closed' = (Consumed(chunks).error \/ error)

\* n bytes of KCP, and those behind them.
Delivers(S, n, bytes, beyond) ==
    /\ bytes \in Seq(S) /\ beyond \in Seq(S) /\ Len(bytes) = n
    /\ kcp = bytes \o beyond /\ kcp' = beyond
    /\ config' = config /\ sentFrames' = sentFrames /\ wroteId' = wroteId
    /\ IF config.to.nocomp THEN decoder' = decoder /\ Consumes(<<bytes>>, FALSE)
       ELSE /\ decoder' = DecodeChunks(bytes).decoder
            /\ Consumes(DecodeChunks(bytes).out, DecodeChunks(bytes).error)

\* Every delivery is one of these.
LEMMA DeliverDoes ==
    ASSUME NEW S, kcp \in Seq(S), NEW n \in 1..Mss, Deliver(n)
    PROVE  /\ ~closed /\ kcp # <<>> /\ n <= Mss
           /\ \E bytes, beyond : Delivers(S, n, bytes, beyond)
  <1>1. PICK k \in Seq(S) : k = kcp
    OBVIOUS
  <1>2. ~closed /\ n <= Len(k) /\ Len(k) \in Nat /\ n \in Nat \ {0} /\ n <= Mss
    BY <1>1, LenProperties, FramingAssumption DEF Deliver
  <1>3. PICK bytes, beyond : bytes = SubSeq(k, 1, n) /\ beyond = SubSeq(k, n + 1, Len(k))
    OBVIOUS
  <1>4. bytes \in Seq(S) /\ beyond \in Seq(S) /\ Len(bytes) = n /\ bytes \o beyond = k
    <2>1. n \in 0..Len(k)
      BY <1>2
    <2>2. QED
      BY <1>3, <2>1, CutHere
  <1>5. /\ kcp' = beyond /\ config' = config /\ sentFrames' = sentFrames /\ wroteId' = wroteId
    BY <1>1, <1>3 DEF Deliver
  <1>6. \/ config.to.nocomp /\ Consume(<<bytes>>, FALSE) /\ decoder' = decoder
        \/ /\ ~config.to.nocomp
           /\ \E d \in {DecodeChunks(bytes)} : decoder' = d.decoder /\ Consume(d.out, d.error)
    BY <1>1, <1>3, Zenon DEF Deliver
  <1>7. IF config.to.nocomp THEN decoder' = decoder /\ Consumes(<<bytes>>, FALSE)
        ELSE /\ decoder' = DecodeChunks(bytes).decoder
             /\ Consumes(DecodeChunks(bytes).out, DecodeChunks(bytes).error)
    BY <1>6, Zenon DEF Consume, Consumes
  <1>8. kcp # <<>>
    BY <1>1, <1>2, EmptySeq
  <1>9. Delivers(S, n, bytes, beyond)
    BY <1>1, <1>4, <1>5, <1>7, Zenon DEF Delivers
  <1>10. QED
    BY <1>2, <1>8, <1>9

\* What a delivery hands to consume_stream_bytes: chunks of at most `limit`
\* bytes that make up x, and y is still to come.
Passes(flat, x, y, limit, chunks) ==
    /\ x \in Seq(FrameByte) /\ y \in Seq(FrameByte) /\ flat = x \o y
    /\ chunks \in Seq({p \in Seq(FrameByte) : Len(p) <= limit})
    /\ <<x, chunks>> \in Joined(FrameByte)
    /\ Coming(y)' /\ Waiting(decoder'.buffer) /\ (config'.to.nocomp => Fresh')
    /\ decoder'.saw \in BOOLEAN /\ config' = config /\ sentFrames' = sentFrames /\ wroteId' = wroteId
    /\ Consumes(chunks, FALSE)

\* A delivery between ends that both compress or both do not hands the next bytes
\* of frames to consume_stream_bytes, in chunks of bounded size.
LEMMA AlikePasses ==
    ASSUME FramingTyped, SameNocomp, OpenAlike, NEW flat, Reading(flat), NEW n \in 1..Mss, Deliver(n)
    PROVE  \E limit \in {Mss, Longest} : \E x, y, chunks : Passes(flat, x, y, limit, chunks)
  <1>1. Coming(flat) /\ flat \in Seq(FrameByte)
    BY DEF Reading, Coming
  <1>2. config.from.nocomp = config.to.nocomp /\ config.to.nocomp \in BOOLEAN
    BY ConfigIs DEF SameNocomp
  <1>3. CASE config.to.nocomp
    <2>1. flat = kcp /\ kcp \in Seq(FrameByte)
      BY <1>1, <1>2, <1>3 DEF Coming
    <2>2. PICK bytes, beyond : Delivers(FrameByte, n, bytes, beyond)
      BY <2>1, DeliverDoes
    <2>3. /\ bytes \in Seq(FrameByte) /\ beyond \in Seq(FrameByte) /\ Len(bytes) = n
          /\ kcp = bytes \o beyond /\ kcp' = beyond
          /\ config' = config /\ sentFrames' = sentFrames /\ wroteId' = wroteId
          /\ decoder' = decoder /\ Consumes(<<bytes>>, FALSE)
      BY <1>3, <2>2 DEF Delivers
    <2>4. n <= Mss
      BY FramingAssumption
    <2>5. PICK P : P = {p \in Seq(FrameByte) : Len(p) <= Mss}
      OBVIOUS
    <2>6. bytes \in P
      BY <2>3, <2>4, <2>5
    <2>7. PICK chunks : chunks = <<bytes>>
      OBVIOUS
    <2>8. chunks \in Seq(P)
      BY <2>6, <2>7
    <2>9. <<bytes, chunks>> \in Joined(FrameByte)
      BY <2>3, <2>7, JoinedOne
    <2>10. Coming(beyond)'
      BY <1>2, <1>3, <2>3 DEF Coming
    <2>11. Waiting(decoder'.buffer) /\ Fresh' /\ decoder'.saw \in BOOLEAN
      BY <1>3, <2>3 DEF OpenAlike, Fresh, FramingTyped
    <2>12. Passes(flat, bytes, beyond, Mss, chunks)
      BY <2>1, <2>3, <2>5, <2>7, <2>8, <2>9, <2>10, <2>11, Zenon DEF Passes
    <2>13. Mss \in {Mss, Longest}
      OBVIOUS
    <2>14. QED
      BY <2>12, <2>13, Zenon
  <1>4. CASE ~config.to.nocomp
    <2>1. Compressed(wroteId, decoder.saw, decoder.buffer, kcp, flat)
      BY <1>1, <1>2, <1>4 DEF Coming
    <2>2. kcp \in Seq(ChunkByte)
      BY <2>1 DEF Compressed
    <2>3. PICK bytes, beyond : Delivers(ChunkByte, n, bytes, beyond)
      BY <2>2, DeliverDoes
    <2>4. wroteId = TRUE
      <3>1. kcp # <<>>
        BY <2>2, DeliverDoes
      <3>2. QED
        BY <2>1, <3>1 DEF Compressed, FramingTyped
    <2>5. PICK d : d = DecodeChunks(bytes)
      OBVIOUS
    <2>6. /\ bytes \in Seq(ChunkByte) /\ beyond \in Seq(ChunkByte)
          /\ kcp = bytes \o beyond /\ kcp' = beyond
          /\ config' = config /\ sentFrames' = sentFrames /\ wroteId' = wroteId
          /\ decoder' = d.decoder /\ Consumes(d.out, d.error)
      BY <1>4, <2>3, <2>5 DEF Delivers
    <2>7. Compressed(TRUE, decoder.saw, decoder.buffer, kcp, flat)
      BY <2>1, <2>4
    <2>8. Handed(d, beyond, flat)
      BY <2>5, <2>6, <2>7, DecodeHands
    <2>9. /\ ~d.error /\ d.out \in Seq(Plain) /\ Waiting(d.decoder.buffer)
      BY <2>8 DEF Handed
    <2>10. PICK x, y : /\ flat = x \o y /\ x \in Seq(FrameByte) /\ y \in Seq(FrameByte)
                       /\ <<x, d.out>> \in Joined(FrameByte)
                       /\ Compressed(TRUE, d.decoder.saw, d.decoder.buffer, beyond, y)
      BY <2>8 DEF Handed
    <2>11. d.out \in Seq({p \in Seq(FrameByte) : Len(p) <= Longest})
      BY <2>9 DEF Plain
    <2>12. Coming(y)'
      <3>1. Compressed(wroteId', decoder'.saw, decoder'.buffer, kcp', y)
        BY <2>4, <2>6, <2>10
      <3>2. ~config'.from.nocomp
        BY <1>2, <1>4, <2>6
      <3>3. QED
        BY <2>10, <3>1, <3>2 DEF Coming
    <2>13. decoder'.saw \in BOOLEAN /\ Waiting(decoder'.buffer)
      BY <2>6, <2>9, <2>10 DEF Compressed
    <2>14. Consumes(d.out, FALSE)
      BY <2>6, <2>9 DEF Consumes
    <2>15. ~config'.to.nocomp
      BY <1>4, <2>6
    <2>16. PICK chunks : chunks = d.out
      OBVIOUS
    <2>17. Passes(flat, x, y, Longest, chunks)
      BY <2>6, <2>10, <2>11, <2>12, <2>13, <2>14, <2>15, <2>16, Zenon DEF Passes
    <2>18. Longest \in {Mss, Longest}
      OBVIOUS
    <2>19. QED
      BY <2>17, <2>18, Zenon
  <1>5. QED
    BY <1>2, <1>3, <1>4

\* The condition of NoFalseError.
Enough == Same /\ SmuxBuf >= MostWaiting + Max({Mss, Longest})

\* With that smuxbuf no chunk is too much.
LEMMA EnoughRoom ==
    ASSUME FramingTyped, Enough, NEW limit \in {Mss, Longest}
    PROVE  MostWaiting + limit <= SmuxBuf
  <1>1. Mss \in Nat /\ Longest \in Nat /\ Longest >= 1 /\ MostWaiting = Longest - 1
    BY FramingAssumption, LongestIs DEF MostWaiting
  <1>2. PICK X : X = {Mss, Longest}
    OBVIOUS
  <1>3. IsFiniteSet(X) /\ X # {} /\ X \in SUBSET Nat /\ limit \in X
    <2>1. IsFiniteSet({Mss})
      BY FS_Singleton
    <2>2. X = {Mss} \cup {Longest}
      BY <1>2
    <2>3. IsFiniteSet(X)
      BY <2>1, <2>2, FS_AddElement
    <2>4. QED
      BY <1>1, <1>2, <2>3
  <1>4. Max(X) \in Nat /\ limit <= Max(X)
    BY <1>3, MaxIs
  <1>5. SmuxBuf \in Nat /\ SmuxBuf >= MostWaiting + Max(X)
    <2>1. SmuxBuf \in Nat
      BY ConfigIs
    <2>2. SmuxBuf >= MostWaiting + Max(X)
      BY <1>2 DEF Enough
    <2>3. QED
      BY <2>1, <2>2
  <1>6. limit \in Nat
    BY <1>1
  <1>7. QED
    BY <1>1, <1>4, <1>5, <1>6

\* A step that keeps the invariant and takes no frame back.
KeepsOn == FramingInv' /\ Prefixes(receivedFrames', receivedFrames)

\* What is extended is a prefix.
LEMMA MoreFrames ==
    ASSUME NEW got, NEW fs \in Seq(Frames), NEW more, more = got \o fs
    PROVE  Prefixes(more, got)
  BY Zenon DEF Prefixes

\* The types after a delivery.
LEMMA TypedOn ==
    ASSUME FramingTyped, config' = config, sentFrames' = sentFrames, wroteId' = wroteId,
           receivedFrames' \in Seq(Frames), closed' \in BOOLEAN, decoder'.saw \in BOOLEAN
    PROVE  FramingTyped'
  BY DEF FramingTyped

\* What is consumed takes the invariant on.
LEMMA ConsumesOn ==
    ASSUME NEW chunks, NEW error \in BOOLEAN, Consumes(chunks, error), NEW c, c = Consumed(chunks),
           c.error \in BOOLEAN
    PROVE  /\ receiveBuffer' = c.buffer /\ receivedFrames' = receivedFrames \o c.frames
           /\ closed' \in BOOLEAN /\ (closed' <=> c.error \/ error)
  <1>1. /\ receiveBuffer' = c.buffer /\ receivedFrames' = receivedFrames \o c.frames
        /\ closed' = (c.error \/ error)
    BY Zenon DEF Consumes
  <1>2. QED
    BY <1>1, Zenon

\* A delivery of which nothing is handed on leaves the frames received alone.
LEMMA NothingOn ==
    ASSUME FramingTyped, Received, ~Same, NEW fs, fs = <<>>, receivedFrames' = receivedFrames \o fs,
           config' = config, sentFrames' = sentFrames
    PROVE  /\ receivedFrames' \in Seq(Frames) /\ Received' /\ NoFalseError'
           /\ Prefixes(receivedFrames', receivedFrames)
  <1>7. fs \in Seq(Frames)
    BY EmptySeq
  <1>8. Prefixes(receivedFrames', receivedFrames)
    BY <1>7, MoreFrames
  <1>1. receivedFrames = <<>>
    BY DEF Received
  <1>2. receivedFrames' = <<>>
    BY <1>1, ConcatEmptySeq, EmptySeq
  <1>3. ~Same'
    BY ConfigStays
  <1>4. NoFalseError'
    BY <1>3 DEF NoFalseError
  <1>5. Received'
    BY <1>2, <1>3 DEF Received
  <1>6. QED
    BY <1>2, <1>4, <1>5, <1>8, EmptySeq

\* A delivery between ends that both compress or both do not.
LEMMA DeliverAlike ==
    ASSUME FramingTyped, Received, SameNocomp, OpenAlike, sentFrames # <<>>, NEW n \in 1..Mss, Deliver(n)
    PROVE  KeepsOn
  <1>1. PICK flat : Reading(flat)
    BY DEF OpenAlike
  <1>2. PICK limit \in {Mss, Longest} : \E x, y, chunks : Passes(flat, x, y, limit, chunks)
    BY <1>1, AlikePasses
  <1>3. PICK x, y, chunks : Passes(flat, x, y, limit, chunks)
    BY <1>2
  <1>4. /\ x \in Seq(FrameByte) /\ y \in Seq(FrameByte) /\ flat = x \o y
        /\ chunks \in Seq({p \in Seq(FrameByte) : Len(p) <= limit})
        /\ <<x, chunks>> \in Joined(FrameByte)
        /\ Coming(y)' /\ Waiting(decoder'.buffer) /\ (config'.to.nocomp => Fresh')
        /\ decoder'.saw \in BOOLEAN /\ config' = config /\ sentFrames' = sentFrames /\ wroteId' = wroteId
        /\ Consumes(chunks, FALSE)
    BY <1>3, Zenon DEF Passes
  <1>5. limit \in Nat
    BY FramingAssumption, LongestIs
  <1>6. PICK c : c = Consumed(chunks)
    OBVIOUS
  <1>7. SameNocomp' /\ (SameVersion' <=> SameVersion) /\ (Same' <=> Same) /\ SmuxBuf' = SmuxBuf
    BY <1>4, ConfigStays
  <1>8. ASSUME receivedFrames' \in Seq(Frames), closed' \in BOOLEAN, Received', NoFalseError',
               Prefixes(receivedFrames', receivedFrames),
               ~closed' => IF SameVersion THEN Spelling(y)' ELSE Refused(y)'
        PROVE  KeepsOn
    <2>1. FramingTyped'
      BY <1>4, <1>8, TypedOn
    <2>2. ASSUME ~closed' PROVE Open'
      <3>1. Reading(y)'
        BY <1>4, <1>7, <1>8, <2>2 DEF Reading
      <3>2. OpenAlike'
        BY <1>4, <3>1 DEF OpenAlike
      <3>3. QED
        BY <1>4, <1>7, <3>2 DEF Open
    <2>3. QED
      BY <1>8, <2>1, <2>2 DEF FramingInv, KeepsOn
  <1>9. CASE SameVersion
    <2>1. Spelling(flat) /\ Same
      BY <1>1, <1>9, ConfigIs DEF Reading
    <2>2. PICK v \in {1, 2} : v = config.to.smuxver
      BY ConfigIs
    <2>3. SmuxBuf \in Nat
      BY ConfigIs
    <2>4. PICK sure \in BOOLEAN : sure <=> Enough
      OBVIOUS
    <2>5. sure => MostWaiting + limit <= SmuxBuf
      BY <2>4, EnoughRoom
    <2>6. /\ receiveBuffer \in Seq(FrameByte) /\ Settled(receiveBuffer)
          /\ Spells(v, sentFrames, receivedFrames, receiveBuffer, flat)
      BY <2>1, <2>2 DEF Spelling
    <2>7. Onward(c, v, y, sure)
      BY <1>4, <1>5, <1>6, <2>2, <2>3, <2>5, <2>6, ConsumedOnward DEF FramingTyped
    <2>8. /\ c.frames \in Seq(Frames) /\ c.error \in BOOLEAN /\ (c.error => ~sure)
          /\ Prefixes(sentFrames, receivedFrames \o c.frames)
          /\ ~c.error => /\ c.buffer \in Seq(FrameByte) /\ Settled(c.buffer)
                         /\ Spells(v, sentFrames, receivedFrames \o c.frames, c.buffer, y)
      BY <2>7 DEF Onward
    <2>9. /\ receiveBuffer' = c.buffer /\ receivedFrames' = receivedFrames \o c.frames
          /\ closed' \in BOOLEAN /\ (closed' <=> c.error)
      BY <1>4, <1>6, <2>8, ConsumesOn
    <2>10. receivedFrames' \in Seq(Frames)
      BY <2>8, <2>9, ConcatProperties DEF FramingTyped
    <2>11. Received'
      BY <1>4, <1>7, <2>1, <2>8, <2>9 DEF Received
    <2>12. NoFalseError'
      <3>1. Enough => ~closed'
        BY <2>4, <2>8, <2>9
      <3>2. QED
        BY <1>7, <3>1 DEF NoFalseError, Enough
    <2>13. ASSUME ~closed' PROVE Spelling(y)'
      <3>1. /\ c.buffer \in Seq(FrameByte) /\ Settled(c.buffer)
            /\ Spells(v, sentFrames, receivedFrames \o c.frames, c.buffer, y)
        BY <2>8, <2>9, <2>13
      <3>2. /\ receiveBuffer' \in Seq(FrameByte) /\ Settled(receiveBuffer')
            /\ Spells(config'.to.smuxver, sentFrames', receivedFrames', receiveBuffer', y)
        BY <1>4, <2>2, <2>9, <3>1
      <3>3. QED
        BY <3>2 DEF Spelling
    <2>14. Prefixes(receivedFrames', receivedFrames)
      BY <2>8, <2>9, MoreFrames
    <2>15. QED
      BY <1>8, <1>9, <2>9, <2>10, <2>11, <2>12, <2>13, <2>14
  <1>10. CASE ~SameVersion
    <2>1. Refused(flat) /\ ~Same
      BY <1>1, <1>10, ConfigIs DEF Reading
    <2>2. receiveBuffer \in Seq(AnyByte) /\ Len(receiveBuffer) < HeaderSize /\ Foreign(receiveBuffer \o (x \o y))
      BY <1>4, <2>1 DEF Refused
    <2>3. FrameByte \subseteq AnyByte
      BY DEF AnyByte
    <2>4. chunks \in Seq(Seq(FrameByte))
      <3>1. {p \in Seq(FrameByte) : Len(p) <= limit} \subseteq Seq(FrameByte)
        OBVIOUS
      <3>2. QED
        BY <1>4, <3>1, SeqMonotonic
    <2>5. Refusing(c, y)
      BY <1>4, <1>6, <2>2, <2>3, <2>4, ConsumedRefusing
    <2>6. /\ c.frames = <<>> /\ c.error \in BOOLEAN
          /\ ~c.error => c.buffer \in Seq(AnyByte) /\ Foreign(c.buffer \o y) /\ Len(c.buffer) < HeaderSize
      BY <2>5 DEF Refusing
    <2>7. /\ receiveBuffer' = c.buffer /\ receivedFrames' = receivedFrames \o c.frames
          /\ closed' \in BOOLEAN /\ (closed' <=> c.error)
      BY <1>4, <1>6, <2>6, ConsumesOn
    <2>8. /\ receivedFrames' \in Seq(Frames) /\ Received' /\ NoFalseError'
          /\ Prefixes(receivedFrames', receivedFrames)
      BY <1>4, <2>1, <2>6, <2>7, NothingOn
    <2>9. ASSUME ~closed' PROVE Refused(y)'
      <3>1. PICK w : w = c.buffer \o y
        OBVIOUS
      <3>2. Foreign(w)'
        BY <1>4, <2>6, <2>7, <2>9, <3>1, ForeignStays
      <3>3. Foreign(receiveBuffer \o y)'
        BY <2>7, <3>1, <3>2
      <3>4. QED
        BY <1>4, <2>6, <2>7, <2>9, <3>3 DEF Refused
    <2>10. QED
      BY <1>8, <1>10, <2>7, <2>8, <2>9
  <1>11. QED
    BY <1>9, <1>10

\* A delivery of compressed bytes to an end that takes them for frames.
LEMMA DeliverCompressed ==
    ASSUME FramingTyped, Received, ~SameNocomp, config.to.nocomp, OpenCompressed, sentFrames # <<>>,
           NEW n \in 1..Mss, Deliver(n)
    PROVE  KeepsOn
  <1>1. Fresh /\ kcp \in Seq(ChunkByte) /\ Refused(kcp) /\ (wroteId => receiveBuffer \o kcp # <<>>)
    BY DEF OpenCompressed
  <1>2. PICK bytes, beyond : Delivers(ChunkByte, n, bytes, beyond)
    BY <1>1, DeliverDoes
  <1>3. /\ bytes \in Seq(ChunkByte) /\ beyond \in Seq(ChunkByte)
        /\ kcp = bytes \o beyond /\ kcp' = beyond
        /\ config' = config /\ sentFrames' = sentFrames /\ wroteId' = wroteId
        /\ decoder' = decoder /\ Consumes(<<bytes>>, FALSE)
    BY <1>2 DEF Delivers
  <1>4. PICK chunks : chunks = <<bytes>>
    OBVIOUS
  <1>5. chunks \in Seq(Seq(ChunkByte)) /\ <<bytes, chunks>> \in Joined(ChunkByte)
    BY <1>3, <1>4, JoinedOne
  <1>6. /\ receiveBuffer \in Seq(AnyByte) /\ Len(receiveBuffer) < HeaderSize
        /\ Foreign(receiveBuffer \o (bytes \o beyond))
    BY <1>1, <1>3 DEF Refused
  <1>7. ChunkByte \subseteq AnyByte
    BY DEF AnyByte
  <1>8. PICK c : c = Consumed(chunks)
    OBVIOUS
  <1>9. Refusing(c, beyond)
    BY <1>3, <1>5, <1>6, <1>7, <1>8, ConsumedRefusing
  <1>10. /\ c.frames = <<>> /\ c.error \in BOOLEAN
         /\ ~c.error => c.buffer \in Seq(AnyByte) /\ Foreign(c.buffer \o beyond) /\ Len(c.buffer) < HeaderSize
    BY <1>9 DEF Refusing
  <1>11. Consumes(chunks, FALSE)
    BY <1>3, <1>4
  <1>12. /\ receiveBuffer' = c.buffer /\ receivedFrames' = receivedFrames \o c.frames
         /\ closed' \in BOOLEAN /\ (closed' <=> c.error)
    BY <1>8, <1>10, <1>11, ConsumesOn
  <1>13. ~Same /\ ~SameNocomp' /\ config'.to.nocomp
    BY <1>3, ConfigIs, ConfigStays
  <1>14. /\ receivedFrames' \in Seq(Frames) /\ Received' /\ NoFalseError'
         /\ Prefixes(receivedFrames', receivedFrames)
    BY <1>3, <1>10, <1>12, <1>13, NothingOn
  <1>15. FramingTyped'
    BY <1>3, <1>12, <1>14, TypedOn DEF FramingTyped
  <1>16. ASSUME ~closed' PROVE Open'
    <2>1. PICK w : w = c.buffer \o beyond
      OBVIOUS
    <2>2. Foreign(w)'
      BY <1>3, <1>10, <1>12, <1>16, <2>1, ForeignStays
    <2>3. Foreign(receiveBuffer \o kcp)'
      BY <1>3, <1>12, <2>1, <2>2
    <2>4. Refused(kcp)'
      BY <1>3, <1>10, <1>12, <1>16, <2>3 DEF Refused
    <2>5. receiveBuffer' \o kcp' # <<>>
      BY <2>3 DEF Foreign
    <2>6. OpenCompressed'
      BY <1>1, <1>3, <2>4, <2>5 DEF OpenCompressed, Fresh
    <2>7. QED
      BY <1>3, <1>13, <2>6 DEF Open
  <1>17. QED
    BY <1>14, <1>15, <1>16 DEF FramingInv, KeepsOn

\* No chunks change nothing.
LEMMA ConsumedNone ==
    ASSUME receiveBuffer = <<>>, NEW chunks, chunks = <<>>
    PROVE  Consumed(chunks).buffer = <<>> /\ Consumed(chunks).frames = <<>> /\ Consumed(chunks).error = FALSE
  <1>1. chunks \in Seq(Seq(AnyByte)) /\ receiveBuffer \in Seq(AnyByte)
    BY EmptySeq
  <1>2. PICK s : s = Consumer
    OBVIOUS
  <1>3. s \in Consumers /\ s.buffer = <<>> /\ s.frames = <<>> /\ s.error = FALSE
    BY <1>1, <1>2, ConsumerIs
  <1>4. PICK f : Consuming(f, chunks)
    BY <1>1, <1>2, <1>3, ConsumedIs
  <1>5. Len(chunks) = 0
    BY <1>1, EmptySeq
  <1>6. Consumed(chunks) = s
    BY <1>2, <1>4, <1>5 DEF Consuming
  <1>7. QED
    BY <1>3, <1>6

\* A delivery of frames to an end that takes them for chunks.
LEMMA DeliverRaw ==
    ASSUME FramingTyped, Received, ~SameNocomp, ~config.to.nocomp, OpenRaw, sentFrames # <<>>,
           NEW n \in 1..Mss, Deliver(n)
    PROVE  KeepsOn
  <1>1. /\ kcp \in Seq(FrameByte) /\ decoder.buffer \in Seq(FrameByte) /\ decoder.saw = FALSE
        /\ receiveBuffer = <<>> /\ Len(decoder.buffer \o kcp) >= ChunkHeader
    BY DEF OpenRaw
  <1>2. PICK bytes, beyond : Delivers(FrameByte, n, bytes, beyond)
    BY <1>1, DeliverDoes
  <1>3. PICK d : d = DecodeChunks(bytes)
    OBVIOUS
  <1>4. /\ bytes \in Seq(FrameByte) /\ beyond \in Seq(FrameByte)
        /\ kcp = bytes \o beyond /\ kcp' = beyond
        /\ config' = config /\ sentFrames' = sentFrames /\ wroteId' = wroteId
        /\ decoder' = d.decoder /\ Consumes(d.out, d.error)
    BY <1>2, <1>3 DEF Delivers
  <1>5. PICK b \in Seq(FrameByte) : b = decoder.buffer
    BY <1>1
  <1>6. /\ d.out = <<>> /\ d.error \in BOOLEAN
        /\ d.decoder = [buffer |-> b \o bytes, saw |-> FALSE]
        /\ ~d.error => Len(b \o bytes) < ChunkHeader
    BY <1>1, <1>3, <1>4, <1>5, DecodeRefuses
  <1>7. PICK c : c = Consumed(d.out)
    OBVIOUS
  <1>8. c.buffer = <<>> /\ c.frames = <<>> /\ c.error = FALSE
    BY <1>1, <1>6, <1>7, ConsumedNone
  <1>9. PICK e \in BOOLEAN : e = d.error
    BY <1>6
  <1>10. PICK chunks : chunks = d.out
    OBVIOUS
  <1>11. /\ receiveBuffer' = c.buffer /\ receivedFrames' = receivedFrames \o c.frames
         /\ closed' \in BOOLEAN /\ (closed' <=> c.error \/ e)
    BY <1>4, <1>7, <1>8, <1>9, <1>10, ConsumesOn
  <1>12. ~Same /\ ~SameNocomp' /\ ~config'.to.nocomp
    BY <1>4, ConfigIs, ConfigStays
  <1>13. /\ receivedFrames' \in Seq(Frames) /\ Received' /\ NoFalseError'
         /\ Prefixes(receivedFrames', receivedFrames)
    BY <1>4, <1>8, <1>11, <1>12, NothingOn
  <1>14. decoder'.buffer = b \o bytes /\ decoder'.saw = FALSE
    BY <1>4, <1>6
  <1>15. FramingTyped'
    BY <1>4, <1>11, <1>13, <1>14, TypedOn
  <1>16. ASSUME ~closed' PROVE Open'
    <2>1. Len(decoder'.buffer) < ChunkHeader
      BY <1>6, <1>8, <1>9, <1>11, <1>14, <1>16
    <2>2. (b \o bytes) \o beyond = b \o (bytes \o beyond)
      BY <1>4, FrameRegroup, Zenon
    <2>3. decoder'.buffer \o kcp' = decoder.buffer \o kcp
      BY <1>4, <1>5, <1>14, <2>2
    <2>4. decoder'.buffer \in Seq(FrameByte)
      BY <1>4, <1>14, ConcatProperties
    <2>5. OpenRaw'
      BY <1>1, <1>4, <1>8, <1>11, <1>14, <2>1, <2>3, <2>4 DEF OpenRaw
    <2>6. QED
      BY <1>4, <1>12, <2>5 DEF Open
  <1>17. QED
    BY <1>13, <1>15, <1>16 DEF FramingInv, KeepsOn

\* A delivery keeps the invariant and takes no frame back.
LEMMA DeliverInv ==
    ASSUME FramingInv, NEW n \in 1..Mss, Deliver(n)
    PROVE  KeepsOn
  <1>1. FramingTyped /\ Received /\ ~closed
    BY DEF FramingInv, Deliver
  <1>2. Open
    BY <1>1 DEF FramingInv
  <1>3. SameNocomp => OpenAlike
    BY <1>2 DEF Open
  <1>4. ~SameNocomp /\ config.to.nocomp => OpenCompressed
    BY <1>2 DEF Open
  <1>5. ~SameNocomp /\ ~config.to.nocomp => OpenRaw
    BY <1>2 DEF Open
  <1>6. sentFrames # <<>>
    <2>1. SUFFICES ASSUME sentFrames = <<>> PROVE FALSE
      OBVIOUS
    <2>2. kcp = <<>>
      BY <1>2, <2>1 DEF Open
    <2>3. kcp \in Seq(AnyByte)
      BY <2>2, EmptySeq
    <2>4. QED
      BY <2>2, <2>3, DeliverDoes
  <1>7. CASE SameNocomp
    BY <1>1, <1>3, <1>6, <1>7, DeliverAlike
  <1>8. CASE ~SameNocomp /\ config.to.nocomp
    BY <1>1, <1>4, <1>6, <1>8, DeliverCompressed
  <1>9. CASE ~SameNocomp /\ ~config.to.nocomp
    BY <1>1, <1>5, <1>6, <1>9, DeliverRaw
  <1>10. QED
    BY <1>7, <1>8, <1>9

\* A new session satisfies the invariant.
LEMMA InitInv ==
    ASSUME FramingInit
    PROVE  FramingInv
  <1>1. /\ config \in [from : EndConfig, to : EndConfig, smuxbuf : SmuxBufs]
        /\ sentFrames = <<>> /\ wroteId = FALSE /\ kcp = <<>>
        /\ decoder = [buffer |-> <<>>, saw |-> FALSE]
        /\ receiveBuffer = <<>> /\ receivedFrames = <<>> /\ closed = FALSE
    BY DEF FramingInit
  <1>2. decoder.buffer = <<>> /\ decoder.saw = FALSE /\ Fresh
    BY <1>1 DEF Fresh
  <1>3. FramingTyped
    BY <1>1, <1>2, EmptySeq DEF FramingTyped
  <1>4. PICK none : none = <<>>
    OBVIOUS
  <1>5. /\ none \in Seq(Frames) /\ none \in Seq(FrameByte) /\ none \in Seq(AnyByte)
        /\ none \in Seq(ChunkByte) /\ none \o none = none /\ Len(none) = 0
    BY <1>4, EmptySeq, ConcatEmptySeq
  <1>6. Received
    <2>1. Prefixes(sentFrames, receivedFrames)
      BY <1>1, <1>4, <1>5, MoreFrames
    <2>2. QED
      BY <1>1, <2>1 DEF Received
  <1>7. NoFalseError
    BY <1>1 DEF NoFalseError
  <1>8. Refused(none)
    BY <1>1, <1>4, <1>5, FramingAssumption DEF Refused
  <1>9. OpenAlike
    <2>1. Coming(none)
      <3>1. Compressed(wroteId, decoder.saw, decoder.buffer, kcp, none)
        BY <1>1, <1>2, <1>4, <1>5 DEF Compressed
      <3>2. QED
        BY <1>1, <1>4, <1>5, <3>1 DEF Coming
    <2>2. Spelling(none)
      <3>1. PICK v \in {1, 2} : v = config.to.smuxver
        BY <1>3, ConfigIs
      <3>2. FrameUnits(v) \in SUBSET (Seq(FrameByte) \X Seq(Frames))
        BY FrameUnitsAre
      <3>3. <<none, none>> \in Spelled(v)
        BY <1>4, <3>2, ComposedNothing DEF Spelled
      <3>4. none = none \o none /\ <<none \o none, none>> \in Spelled(v)
        BY <1>5, <3>3
      <3>5. Spells(v, none, none, none, none)
        BY <1>5, <3>4, Zenon DEF Spells
      <3>6. QED
        BY <1>1, <1>4, <1>5, <3>1, <3>5 DEF Spelling, Settled
    <2>3. Reading(none)
      BY <1>8, <2>1, <2>2 DEF Reading
    <2>4. Waiting(decoder.buffer)
      BY <1>2 DEF Waiting
    <2>5. QED
      BY <1>2, <2>3, <2>4 DEF OpenAlike
  <1>10. OpenCompressed
    BY <1>1, <1>2, <1>4, <1>5, <1>8 DEF OpenCompressed
  <1>11. OpenRaw
    BY <1>1, <1>2, <1>4, <1>5, FramingAssumption DEF OpenRaw
  <1>12. Open
    BY <1>1, <1>9, <1>10, <1>11 DEF Open
  <1>13. QED
    BY <1>3, <1>6, <1>7, <1>12 DEF FramingInv

\* A step of somebody else keeps it.
LEMMA StutterInv ==
    ASSUME FramingInv, UNCHANGED framingVars
    PROVE  FramingInv'
  <1>1. /\ config' = config /\ sentFrames' = sentFrames /\ wroteId' = wroteId /\ kcp' = kcp
        /\ decoder' = decoder /\ receiveBuffer' = receiveBuffer
        /\ receivedFrames' = receivedFrames /\ closed' = closed
    BY DEF framingVars
  <1>2. FramingTyped' /\ Received' /\ NoFalseError'
    BY <1>1 DEF FramingInv, FramingTyped, Received, NoFalseError, Same, SmuxBuf
  <1>3. SameVersion' = SameVersion /\ SameNocomp' = SameNocomp /\ Fresh' = Fresh
    BY <1>1 DEF SameVersion, SameNocomp, Fresh
  <1>4. \A flat : Refused(flat)' <=> Refused(flat)
    BY <1>1 DEF Refused, Foreign, Acceptable
  <1>5. \A flat : Coming(flat)' <=> Coming(flat)
    BY <1>1 DEF Coming
  <1>6. \A flat : Spelling(flat)' <=> Spelling(flat)
    BY <1>1 DEF Spelling
  <1>7. \A flat : Reading(flat)' <=> Reading(flat)
    BY <1>3, <1>4, <1>5, <1>6 DEF Reading
  <1>8. Refused(kcp)' <=> Refused(kcp)
    BY <1>1 DEF Refused, Foreign, Acceptable
  <1>9. OpenAlike => OpenAlike'
    BY <1>1, <1>3, <1>7 DEF OpenAlike
  <1>10. OpenCompressed => OpenCompressed'
    BY <1>1, <1>3, <1>8 DEF OpenCompressed
  <1>11. OpenRaw => OpenRaw'
    BY <1>1 DEF OpenRaw
  <1>12. Open => Open'
    BY <1>1, <1>3, <1>9, <1>10, <1>11 DEF Open
  <1>13. QED
    BY <1>1, <1>2, <1>12 DEF FramingInv

\* Every step keeps it.
LEMMA NextInv ==
    ASSUME FramingInv, [FramingNext]_framingVars
    PROVE  FramingInv'
  <1>1. CASE UNCHANGED framingVars
    BY <1>1, StutterInv
  <1>2. ASSUME NEW f \in Frames, SendFrame(f) PROVE FramingInv'
    BY <1>2, SendFrameInv
  <1>3. ASSUME NEW n \in 1..Mss, Deliver(n) PROVE FramingInv'
    <2>1. KeepsOn
      BY <1>3, DeliverInv
    <2>2. QED
      BY <2>1 DEF KeepsOn
  <1>4. QED
    BY <1>1, <1>2, <1>3 DEF FramingNext

\* The state of the byte path at every moment: what has been received, what the two
\* reassembly buffers hold and what KCP still carries are together the frames that
\* send_frame was given, or a stream that consume_stream_bytes and decode refuse.
THEOREM FramingInvariant == FramingSpec => []FramingInv
  <1>1. FramingInit => FramingInv
    BY InitInv
  <1>2. FramingInv /\ [FramingNext]_framingVars => FramingInv'
    BY NextInv
  <1>3. QED
    BY <1>1, <1>2, PTL DEF FramingSpec

\* The invariant says what the buffers hold.
LEMMA InvTypeOK ==
    ASSUME FramingInv
    PROVE  TypeOK
  <1>1. FramingTyped
    BY DEF FramingInv
  <1>2. ASSUME Same, ~closed
        PROVE  \A buf \in {decoder.buffer, receiveBuffer} :
                  buf # <<>> => buf[1].pos = 1 /\ Len(buf) < buf[1].size
    <2>1. SameVersion /\ SameNocomp
      BY <1>1, <1>2, ConfigIs
    <2>2. OpenAlike
      BY <1>2, <2>1 DEF FramingInv, Open
    <2>3. PICK flat : Spelling(flat)
      BY <2>1, <2>2 DEF OpenAlike, Reading
    <2>4. Settled(receiveBuffer) /\ Waiting(decoder.buffer)
      BY <2>2, <2>3 DEF Spelling, OpenAlike
    <2>5. QED
      BY <2>4 DEF Settled, Waiting
  <1>3. QED
    BY <1>1, <1>2 DEF FramingTyped, TypeOK

\* When KCP has nothing more, no byte of a frame is still to come.
LEMMA NothingComing ==
    ASSUME FramingTyped, OpenAlike, kcp = <<>>, NEW flat, Reading(flat)
    PROVE  flat = <<>>
  <1>1. flat \in Seq(FrameByte) /\ Coming(flat) /\ Waiting(decoder.buffer)
    BY DEF Reading, Coming, OpenAlike
  <1>2. CASE config.from.nocomp
    BY <1>1, <1>2 DEF Coming
  <1>3. CASE ~config.from.nocomp
    <2>1. Compressed(wroteId, decoder.saw, decoder.buffer, kcp, flat)
      BY <1>1, <1>3 DEF Coming
    <2>2. CASE wroteId
      <3>1. PICK b, s : b = decoder.buffer /\ s = decoder.saw
        OBVIOUS
      <3>2. PICK plains \in Seq(Plain) :
               /\ b \in Seq(ChunkByte) /\ s \in BOOLEAN
               /\ Lead(s, b \o kcp, plains) /\ <<flat, plains>> \in Joined(FrameByte)
        BY <2>1, <2>2, <3>1 DEF Compressed
      <3>3. b \o kcp = b
        BY <3>2, ConcatEmptySeq
      <3>4. Lead(s, b, plains) /\ Waiting(b)
        BY <1>1, <3>1, <3>2, <3>3
      <3>5. plains = <<>>
        BY <3>2, <3>4, NoChunkLeft
      <3>6. QED
        BY <3>2, <3>5, JoinedParts
    <2>3. CASE ~wroteId
      BY <2>1, <2>3 DEF Compressed
    <2>4. QED
      BY <2>2, <2>3
  <1>4. QED
    BY <1>2, <1>3

\* The invariant leaves nothing held back when KCP has nothing more.
LEMMA InvNothingHeld ==
    ASSUME FramingInv
    PROVE  NothingHeld
  <1>1. FramingTyped
    BY DEF FramingInv
  <1>2. ASSUME Same, ~closed, kcp = <<>> PROVE receivedFrames = sentFrames
    <2>1. SameVersion /\ SameNocomp
      BY <1>1, <1>2, ConfigIs
    <2>2. OpenAlike
      BY <1>2, <2>1 DEF FramingInv, Open
    <2>3. PICK flat : Reading(flat)
      BY <2>2 DEF OpenAlike
    <2>4. flat = <<>>
      BY <1>1, <1>2, <2>2, <2>3, NothingComing
    <2>5. Spelling(flat)
      BY <2>1, <2>3 DEF Reading
    <2>6. PICK v \in {1, 2} : v = config.to.smuxver
      BY <1>1, ConfigIs
    <2>7. PICK b \in Seq(FrameByte) : b = receiveBuffer /\ Settled(b)
      BY <2>5 DEF Spelling
    <2>8. PICK rest \in Seq(Frames) : sentFrames = receivedFrames \o rest /\ <<b \o flat, rest>> \in Spelled(v)
      BY <2>5, <2>6, <2>7 DEF Spelling, Spells
    <2>9. b \o flat = b
      BY <2>4, ConcatEmptySeq
    <2>10. rest = <<>>
      BY <2>7, <2>8, <2>9, NoFrameLeft
    <2>11. QED
      BY <1>1, <2>8, <2>10, ConcatEmptySeq DEF FramingTyped
  <1>3. QED
    BY <1>2 DEF NothingHeld

\* A stream that is refused has not come to an end unnoticed.
LEMMA NothingRefused ==
    ASSUME Refused(<<>>), sentFrames # <<>>
    PROVE  FALSE
  <1>1. receiveBuffer \in Seq(AnyByte) /\ Len(receiveBuffer) < HeaderSize /\ Foreign(receiveBuffer \o <<>>)
    BY DEF Refused
  <1>2. Foreign(receiveBuffer)
    BY <1>1, ConcatEmptySeq
  <1>3. Len(receiveBuffer) >= HeaderSize /\ Len(receiveBuffer) \in Nat
    BY <1>1, <1>2, LenProperties DEF Foreign
  <1>4. QED
    BY <1>1, <1>3, FramingAssumption

\* The invariant closes a mismatched session when KCP has nothing more.
LEMMA InvMismatchRefused ==
    ASSUME FramingInv
    PROVE  MismatchRefused
  <1>1. FramingTyped
    BY DEF FramingInv
  <1>2. ASSUME ~Same PROVE receivedFrames = <<>>
    BY <1>2 DEF FramingInv, Received
  <1>3. ASSUME ~Same, kcp = <<>>, sentFrames # <<>>, ~closed PROVE FALSE
    <2>1. Open
      BY <1>3 DEF FramingInv
    <2>2. CASE SameNocomp
      <3>1. OpenAlike
        BY <2>1, <2>2 DEF Open
      <3>2. PICK flat : Reading(flat)
        BY <3>1 DEF OpenAlike
      <3>3. flat = <<>>
        BY <1>1, <1>3, <3>1, <3>2, NothingComing
      <3>4. ~SameVersion
        BY <1>1, <1>3, <2>2, ConfigIs
      <3>5. Refused(flat)
        BY <3>2, <3>4 DEF Reading
      <3>6. QED
        BY <1>3, <3>3, <3>5, NothingRefused
    <2>3. CASE ~SameNocomp /\ config.to.nocomp
      <3>1. Refused(kcp)
        BY <2>1, <2>3 DEF Open, OpenCompressed
      <3>2. QED
        BY <1>3, <3>1, NothingRefused
    <2>4. CASE ~SameNocomp /\ ~config.to.nocomp
      <3>1. PICK b \in Seq(FrameByte) : b = decoder.buffer /\ Len(b) < ChunkHeader /\ Len(b \o kcp) >= ChunkHeader
        BY <1>3, <2>1, <2>4 DEF Open, OpenRaw
      <3>2. b \o kcp = b /\ Len(b) \in Nat
        BY <1>3, ConcatEmptySeq, LenProperties
      <3>3. QED
        BY <3>1, <3>2, FramingAssumption
    <2>5. QED
      BY <2>2, <2>3, <2>4
  <1>4. QED
    BY <1>2, <1>3 DEF MismatchRefused

\* Frames sent and received are frames, and between ends that agree decode's buffer_
\* and receive_buffer_ never hold more than an incomplete unit, for any sizes.
THEOREM FramingTypes == FramingSpec => []TypeOK
  BY FramingInvariant, InvTypeOK, PTL

\* Between ends that agree neither decode nor consume_stream_bytes reports an error,
\* wherever KCP cuts the stream, if smuxbuf has room for an incomplete frame and one
\* delivery.
THEOREM FramingNoFalseError == FramingSpec => []NoFalseError
  <1>1. FramingInv => NoFalseError
    BY DEF FramingInv
  <1>2. QED
    BY <1>1, FramingInvariant, PTL

\* When everything was delivered, consume_stream_bytes has handed on every frame
\* that send_frame was given.
THEOREM FramingNothingHeld == FramingSpec => []NothingHeld
  BY FramingInvariant, InvNothingHeld, PTL

\* An end of another smuxver or nocomp hands on no frame, and has called
\* protocol_error by the time the first frame has been delivered.
THEOREM FramingMismatchRefused == FramingSpec => []MismatchRefused
  BY FramingInvariant, InvMismatchRefused, PTL

-----------------------------------------------------------------------------
(* The channel.                                                             *)

\* A prefix is the first part of a sequence.
LEMMA PrefixIs ==
    ASSUME NEW got \in Seq(Frames), NEW rest \in Seq(Frames), NEW whole, whole = got \o rest
    PROVE  /\ Len(got) \in Nat /\ Len(whole) \in Nat /\ Len(got) <= Len(whole)
           /\ got = SubSeq(whole, 1, Len(got))
  <1>1. Len(got) \in Nat /\ Len(rest) \in Nat /\ Len(whole) = Len(got) + Len(rest)
    BY LenProperties, ConcatProperties
  <1>2. got = SubSeq(got \o rest, 1, Len(got))
    OBVIOUS
  <1>3. QED
    BY <1>1, <1>2

\* send_frame is the channel's Send.
LEMMA SendChannel ==
    ASSUME FramingInv, NEW f \in Frames, SendFrame(f)
    PROVE  Channel!Next
  <1>1. sentFrames' = Append(sentFrames, f) /\ receivedFrames' = receivedFrames /\ closed' = closed
    BY DEF SendFrame
  <1>2. QED
    BY <1>1 DEF Channel!Next, Channel!Send

\* A delivery is the channel's Receive.
LEMMA DeliverChannel ==
    ASSUME FramingInv, NEW n \in 1..Mss, Deliver(n)
    PROVE  Channel!Next
  <1>1. KeepsOn
    BY DeliverInv
  <1>2. FramingTyped' /\ Received' /\ FramingTyped
    BY <1>1 DEF KeepsOn, FramingInv
  <1>3. ~closed /\ sentFrames' = sentFrames /\ config' = config
    BY DEF Deliver
  <1>4. /\ closed' \in BOOLEAN /\ receivedFrames' \in Seq(Frames) /\ receivedFrames \in Seq(Frames)
        /\ sentFrames \in Seq(Frames)
    BY <1>2, <1>3 DEF FramingTyped
  <1>5. Len(receivedFrames) \in Nat /\ Len(receivedFrames') \in Nat /\ Len(receivedFrames) <= Len(receivedFrames')
    <2>1. PICK rest \in Seq(Frames) : receivedFrames' = receivedFrames \o rest
      BY <1>1 DEF KeepsOn, Prefixes
    <2>2. QED
      BY <1>4, <2>1, PrefixIs
  <1>6. PICK rest \in Seq(Frames) : sentFrames = receivedFrames' \o rest
    <2>1. CASE Same
      <3>1. Prefixes(sentFrames, receivedFrames')
        BY <1>2, <1>3, <2>1, ConfigStays DEF Received
      <3>2. QED
        BY <3>1 DEF Prefixes
    <2>2. CASE ~Same
      <3>1. receivedFrames' = <<>>
        BY <1>2, <1>3, <2>2, ConfigStays DEF Received
      <3>2. sentFrames = receivedFrames' \o sentFrames
        BY <1>4, <3>1, ConcatEmptySeq
      <3>3. QED
        BY <1>4, <3>2
    <2>3. QED
      BY <2>1, <2>2
  <1>7. /\ Len(sentFrames) \in Nat /\ Len(receivedFrames') <= Len(sentFrames)
        /\ receivedFrames' = SubSeq(sentFrames, 1, Len(receivedFrames'))
    BY <1>4, <1>6, PrefixIs
  <1>8. Len(receivedFrames') \in Len(receivedFrames)..Len(sentFrames)
    BY <1>5, <1>7
  <1>9. QED
    BY <1>3, <1>4, <1>7, <1>8 DEF Channel!Next, Channel!Receive

\* From send_frame to the switch of consume_stream_bytes the byte path is a channel
\* of whole frames: none lost, torn, repeated or overtaken until the session ends.
THEOREM FramingChannel == FramingSpec => ChannelSpec
  <1>1. FramingInit => Channel!Init
    BY DEF FramingInit, Channel!Init
  <1>2. FramingInv /\ [FramingNext]_framingVars => [Channel!Next]_Channel!vars
    <2>1. ASSUME FramingInv, FramingNext PROVE Channel!Next
      <3>1. CASE \E f \in Frames : SendFrame(f)
        BY <2>1, <3>1, SendChannel
      <3>2. CASE \E n \in 1..Mss : Deliver(n)
        BY <2>1, <3>2, DeliverChannel
      <3>3. QED
        BY <2>1, <3>1, <3>2 DEF FramingNext
    <2>2. UNCHANGED framingVars => UNCHANGED Channel!vars
      BY DEF framingVars, Channel!vars
    <2>3. QED
      BY <2>1, <2>2
  <1>3. QED
    BY <1>1, <1>2, FramingInvariant, PTL DEF FramingSpec, ChannelSpec, Channel!Spec
==============================================================================
