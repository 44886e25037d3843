----------------------------- MODULE SmuxProofs -----------------------------
(***************************************************************************)
(* TLAPS proofs about Smux, for every frame size, window, number of streams *)
(* and set of scenarios that SmuxAssumption admits.  Lemmas about numbers   *)
(* and about queues of buffers come first: FlattenSeq is defined by a       *)
(* recursive function, so what it computes is proved by induction on the    *)
(* length of the sequence, with SetInduction.                               *)
(***************************************************************************)
EXTENDS Smux, SequenceTheorems, WellFoundedInduction, TLAPS

-----------------------------------------------------------------------------
(* Numbers.                                                                 *)

\* The smallest element of a set of numbers.
LEMMA LeastElement ==
    ASSUME NEW S \in SUBSET Nat, S # {}
    PROVE  \E least \in S : \A n \in S : least <= n
  <1> DEFINE R == OpToRel(<, Nat)
  <1>1. IsWellFoundedOn(R, Nat)
    BY NatLessThanWellFounded, Zenon
  <1>2. ASSUME NEW m \in Nat, NEW n \in Nat, m < n PROVE <<m, n>> \in R
    BY <1>2 DEF OpToRel
  <1> HIDE DEF R
  <1>3. PICK least \in S : \A n \in S : ~(<<n, least>> \in R)
    BY <1>1, WFMin, Zenon
  <1>4. ASSUME NEW n \in S PROVE least <= n
    <2>1. least \in Nat /\ n \in Nat
      OBVIOUS
    <2>2. ~(<<n, least>> \in R)
      BY <1>3
    <2>3. ~(n < least)
      BY <2>1, <2>2, <1>2, Zenon
    <2>4. QED
      BY <2>1, <2>3
  <1>5. QED
    BY <1>4

\* Induction, for a set of numbers.
LEMMA SetInduction ==
    ASSUME NEW M \in SUBSET Nat, 0 \in M, \A n \in M : n + 1 \in M
    PROVE  M = Nat
  <1>1. SUFFICES ASSUME Nat \ M # {} PROVE FALSE
    BY Zenon
  <1>2. PICK least \in Nat \ M : \A n \in Nat \ M : least <= n
    <2>1. Nat \ M \in SUBSET Nat
      OBVIOUS
    <2>2. QED
      BY <1>1, <2>1, LeastElement, Zenon
  <1>3. least # 0 /\ least \in Nat
    BY <1>2
  <1>4. least - 1 \in Nat /\ ~(least <= least - 1)
    BY <1>3
  <1>5. least - 1 \in M
    BY <1>2, <1>4
  <1>6. (least - 1) + 1 = least
    BY <1>3
  <1>7. QED
    BY <1>2, <1>5, <1>6

-----------------------------------------------------------------------------
(* FlattenSeq.                                                              *)

\* The function by which FlattenSeq is defined.
Flattens(f, bufs) ==
    f = [i \in 1..Len(bufs) |-> IF i = 1 THEN bufs[i] ELSE f[i - 1] \o bufs[i]]

LEMMA FlattensExtends ==
    ASSUME NEW S, NEW bufs \in Seq(Seq(S)), NEW x \in Seq(S), bufs # <<>>,
           NEW f, Flattens(f, bufs)
    PROVE  \E g : Flattens(g, Append(bufs, x)) /\ g[Len(bufs) + 1] = f[Len(bufs)] \o x
  <1> DEFINE n == Len(bufs)
             more == Append(bufs, x)
             g == [i \in 1..(n + 1) |-> IF i = n + 1 THEN f[n] \o x ELSE f[i]]
  <1>1. n \in Nat \ {0}
    BY EmptySeq
  <1>2. Len(more) = n + 1 /\ more[n + 1] = x /\ \A i \in 1..n : more[i] = bufs[i]
    BY AppendProperties
  <1> HIDE DEF more, n
  <1>3. \A i \in 1..n : f[i] = IF i = 1 THEN bufs[i] ELSE f[i - 1] \o bufs[i]
    BY Zenon DEF Flattens, n
  <1>4. ASSUME NEW i \in 1..(n + 1) PROVE g[i] = IF i = 1 THEN more[i] ELSE g[i - 1] \o more[i]
    <2>1. CASE i = n + 1
      <3>1. g[i] = f[n] \o x /\ i # 1 /\ i - 1 = n /\ g[n] = f[n]
        BY <1>1, <2>1
      <3>2. QED
        BY <1>2, <2>1, <3>1, Zenon
    <2>2. CASE i \in 1..n
      <3>1. g[i] = f[i] /\ (i # 1 => g[i - 1] = f[i - 1])
        BY <1>1, <2>2
      <3>2. QED
        BY <1>2, <1>3, <2>2, <3>1
    <2>3. QED
      BY <1>1, <2>1, <2>2
  <1>5. g = [i \in 1..Len(more) |-> IF i = 1 THEN more[i] ELSE g[i - 1] \o more[i]]
    <2>1. 1..Len(more) = 1..(n + 1)
      BY <1>2
    <2>2. g = [i \in 1..(n + 1) |-> g[i]]
      OBVIOUS
    <2> HIDE DEF g
    <2>3. g = [i \in 1..(n + 1) |-> IF i = 1 THEN more[i] ELSE g[i - 1] \o more[i]]
      BY <1>4, <2>2, Zenon
    <2>4. QED
      BY <2>1, <2>3, Zenon
  <1>6. g[n + 1] = f[n] \o x
    BY <1>1
  <1> HIDE DEF g
  <1>7. QED
    BY <1>5, <1>6, Zenon DEF Flattens, more, n

LEMMA FlattensExists ==
    ASSUME NEW S, NEW bufs \in Seq(Seq(S)), bufs # <<>>
    PROVE  \E f : Flattens(f, bufs)
  <1> DEFINE M == {n \in Nat : \A b \in Seq(Seq(S)) : b # <<>> /\ Len(b) = n => \E f : Flattens(f, b)}
  <1>1. 0 \in M
    BY EmptySeq
  <1>2. ASSUME NEW n \in M PROVE n + 1 \in M
    <2>1. SUFFICES ASSUME NEW b \in Seq(Seq(S)), b # <<>>, Len(b) = n + 1 PROVE \E f : Flattens(f, b)
      OBVIOUS
    <2>2. PICK a \in Seq(Seq(S)), x \in Seq(S) : b = Append(a, x)
      BY <2>1, SequenceEmptyOrAppend, Zenon
    <2>3. Len(a) = n
      BY <2>1, <2>2, AppendProperties, LenProperties
    <2>4. CASE a = <<>>
      <3> DEFINE f == [i \in 1..1 |-> x]
      <3>1. Len(b) = 1 /\ b[1] = x
        BY <2>2, <2>4, AppendProperties, EmptySeq
      <3>2. f = [i \in 1..Len(b) |-> IF i = 1 THEN b[i] ELSE f[i - 1] \o b[i]]
        BY <3>1
      <3> HIDE DEF f
      <3>3. QED
        BY <3>2, Zenon DEF Flattens
    <2>5. CASE a # <<>>
      <3>1. PICK f : Flattens(f, a)
        BY <2>3, <2>5
      <3>2. QED
        BY <2>2, <2>5, <3>1, FlattensExtends
    <2>6. QED
      BY <2>4, <2>5
  <1>3. M = Nat
    <2>1. M \in SUBSET Nat
      OBVIOUS
    <2> HIDE DEF M
    <2>2. QED
      BY <1>1, <1>2, <2>1, SetInduction, Zenon
  <1>4. Len(bufs) \in M
    BY <1>3, LenProperties, Zenon
  <1>5. QED
    BY <1>4

\* Two such functions agree.
LEMMA FlattensUnique ==
    ASSUME NEW S, NEW bufs \in Seq(Seq(S)), bufs # <<>>,
           NEW f, Flattens(f, bufs), NEW g, Flattens(g, bufs)
    PROVE  f[Len(bufs)] = g[Len(bufs)]
  <1> DEFINE n == Len(bufs)
             M == {k \in Nat : k \in 1..n => f[k] = g[k]}
  <1>1. n \in Nat \ {0}
    BY EmptySeq
  <1> HIDE DEF n
  <1>2. \A i \in 1..n : /\ f[i] = IF i = 1 THEN bufs[i] ELSE f[i - 1] \o bufs[i]
                        /\ g[i] = IF i = 1 THEN bufs[i] ELSE g[i - 1] \o bufs[i]
    BY Zenon DEF Flattens, n
  <1>3. 0 \in M
    OBVIOUS
  <1>4. ASSUME NEW k \in M PROVE k + 1 \in M
    <2>1. SUFFICES ASSUME k + 1 \in 1..n PROVE f[k + 1] = g[k + 1]
      OBVIOUS
    <2>2. CASE k = 0
      BY <1>2, <2>1, <2>2
    <2>3. CASE k # 0
      <3>1. k \in 1..n /\ (k + 1) - 1 = k /\ k + 1 # 1
        BY <1>1, <2>1, <2>3
      <3>2. f[k] = g[k]
        BY <3>1
      <3>3. QED
        BY <1>2, <2>1, <3>1, <3>2
    <2>4. QED
      BY <2>2, <2>3
  <1>5. M = Nat
    <2>1. M \in SUBSET Nat
      OBVIOUS
    <2> HIDE DEF M
    <2>2. QED
      BY <1>3, <1>4, <2>1, SetInduction, Zenon
  <1>6. n \in M
    BY <1>1, <1>5, Zenon
  <1>7. QED
    BY <1>1, <1>6 DEF n

LEMMA FlattenByFunction ==
    ASSUME NEW S, NEW bufs \in Seq(Seq(S)), bufs # <<>>, NEW f, Flattens(f, bufs)
    PROVE  FlattenSeq(bufs) = f[Len(bufs)]
  <1> DEFINE R == CHOOSE g : g = [i \in 1..Len(bufs) |-> IF i = 1 THEN bufs[i] ELSE g[i - 1] \o bufs[i]]
  <1>1. Len(bufs) # 0
    BY EmptySeq
  <1>2. FlattenSeq(bufs) = R[Len(bufs)]
    BY <1>1 DEF FlattenSeq
  <1>3. R = [i \in 1..Len(bufs) |-> IF i = 1 THEN bufs[i] ELSE R[i - 1] \o bufs[i]]
    BY Zenon DEF Flattens
  <1> HIDE DEF R
  <1>4. Flattens(R, bufs)
    BY <1>3, Zenon DEF Flattens
  <1>5. QED
    BY <1>2, <1>4, FlattensUnique

LEMMA FlattenEmpty == FlattenSeq(<<>>) = <<>>
  <1>1. Len(<<>>) = 0
    BY EmptySeq
  <1>2. QED
    BY <1>1 DEF FlattenSeq

LEMMA FlattenAppend ==
    ASSUME NEW S, NEW bufs \in Seq(Seq(S)), NEW x \in Seq(S)
    PROVE  FlattenSeq(Append(bufs, x)) = FlattenSeq(bufs) \o x
  <1>1. Append(bufs, x) \in Seq(Seq(S)) /\ Append(bufs, x) # <<>> /\ Len(Append(bufs, x)) = Len(bufs) + 1
        /\ Append(bufs, x)[Len(bufs) + 1] = x
    BY AppendProperties
  <1>2. CASE bufs = <<>>
    <2>1. PICK f : Flattens(f, Append(bufs, x))
      BY <1>1, FlattensExists, Zenon
    <2>2. Len(bufs) = 0 /\ Len(bufs) + 1 = 1
      BY <1>2, EmptySeq
    <2>3. f[1] = x
      BY <1>1, <2>1, <2>2 DEF Flattens
    <2>4. FlattenSeq(Append(bufs, x)) = x
      BY <1>1, <2>1, <2>2, <2>3, FlattenByFunction, Zenon
    <2>5. FlattenSeq(bufs) \o x = x
      BY <1>2, FlattenEmpty, ConcatEmptySeq
    <2>6. QED
      BY <2>4, <2>5
  <1>3. CASE bufs # <<>>
    <2>1. PICK f : Flattens(f, bufs)
      BY <1>3, FlattensExists
    <2>2. PICK g : Flattens(g, Append(bufs, x)) /\ g[Len(bufs) + 1] = f[Len(bufs)] \o x
      BY <1>3, <2>1, FlattensExtends, Zenon
    <2>3. FlattenSeq(bufs) = f[Len(bufs)] /\ FlattenSeq(Append(bufs, x)) = g[Len(bufs) + 1]
      BY <1>1, <1>3, <2>1, <2>2, FlattenByFunction, Zenon
    <2>4. QED
      BY <2>2, <2>3
  <1>4. QED
    BY <1>2, <1>3

LEMMA FlattenType ==
    ASSUME NEW S, NEW bufs \in Seq(Seq(S))
    PROVE  FlattenSeq(bufs) \in Seq(S)
  <1> DEFINE M == {n \in Nat : \A b \in Seq(Seq(S)) : Len(b) = n => FlattenSeq(b) \in Seq(S)}
  <1>1. 0 \in M
    <2>1. \A b \in Seq(Seq(S)) : Len(b) = 0 => b = <<>>
      BY EmptySeq
    <2>2. QED
      BY <2>1, FlattenEmpty, EmptySeq
  <1>2. ASSUME NEW n \in M PROVE n + 1 \in M
    <2>1. SUFFICES ASSUME NEW b \in Seq(Seq(S)), Len(b) = n + 1 PROVE FlattenSeq(b) \in Seq(S)
      OBVIOUS
    <2>2. b # <<>>
      BY <2>1, EmptySeq
    <2>3. PICK a \in Seq(Seq(S)), x \in Seq(S) : b = Append(a, x)
      BY <2>2, SequenceEmptyOrAppend
    <2>4. Len(a) = n
      BY <2>1, <2>3, AppendProperties, LenProperties
    <2>5. FlattenSeq(b) = FlattenSeq(a) \o x /\ FlattenSeq(a) \in Seq(S)
      BY <2>3, <2>4, FlattenAppend
    <2>6. QED
      BY <2>5, ConcatProperties
  <1>3. M = Nat
    <2>1. M \in SUBSET Nat
      OBVIOUS
    <2> HIDE DEF M
    <2>2. QED
      BY <1>1, <1>2, <2>1, SetInduction, Zenon
  <1>4. QED
    BY <1>3, LenProperties

\* Concatenation is associative, as Zenon can use it.
LEMMA Associative ==
    \A S : \A a \in Seq(S), b \in Seq(S), c \in Seq(S) : (a \o b) \o c = a \o (b \o c)
  BY ConcatAssociative, Zenon

LEMMA AppendConcat ==
    ASSUME NEW S, NEW a \in Seq(S), NEW b \in Seq(S), NEW x \in S
    PROVE  a \o Append(b, x) = Append(a \o b, x)
  <1>1. a \o b \in Seq(S) /\ <<x>> \in Seq(S)
    BY ConcatProperties
  <1>2. Append(b, x) = b \o <<x>> /\ Append(a \o b, x) = (a \o b) \o <<x>>
    BY <1>1, AppendIsConcat
  <1>3. QED
    BY <1>1, <1>2, ConcatAssociative

LEMMA FlattenConcat ==
    ASSUME NEW S, NEW a \in Seq(Seq(S)), NEW b \in Seq(Seq(S))
    PROVE  FlattenSeq(a \o b) = FlattenSeq(a) \o FlattenSeq(b)
  <1>1a. \A p \in Seq(S), q \in Seq(S), r \in Seq(S) : (p \o q) \o r = p \o (q \o r)
    BY Associative
  <1> DEFINE M == {n \in Nat : \A c \in Seq(Seq(S)) :
                      Len(c) = n => FlattenSeq(a \o c) = FlattenSeq(a) \o FlattenSeq(c)}
  <1>0. FlattenSeq(a) \in Seq(S)
    BY FlattenType
  <1>1. 0 \in M
    <2>1. \A c \in Seq(Seq(S)) : Len(c) = 0 => c = <<>>
      BY EmptySeq
    <2>2. a \o <<>> = a /\ FlattenSeq(a) \o <<>> = FlattenSeq(a)
      BY <1>0, ConcatEmptySeq
    <2>3. QED
      BY <2>1, <2>2, FlattenEmpty, Zenon
  <1>2. ASSUME NEW n \in M PROVE n + 1 \in M
    <2>1. SUFFICES ASSUME NEW c \in Seq(Seq(S)), Len(c) = n + 1
                   PROVE  FlattenSeq(a \o c) = FlattenSeq(a) \o FlattenSeq(c)
      OBVIOUS
    <2>2. c # <<>>
      BY <2>1, EmptySeq
    <2>3. PICK d \in Seq(Seq(S)), x \in Seq(S) : c = Append(d, x)
      BY <2>2, SequenceEmptyOrAppend
    <2>4. Len(d) = n
      BY <2>1, <2>3, AppendProperties, LenProperties
    <2>5. FlattenSeq(a \o d) = FlattenSeq(a) \o FlattenSeq(d)
      BY <2>4
    <2>6. a \o c = Append(a \o d, x) /\ a \o d \in Seq(Seq(S))
      BY <2>3, AppendConcat, ConcatProperties
    <2>7. /\ FlattenSeq(a \o c) = FlattenSeq(a \o d) \o x
          /\ FlattenSeq(c) = FlattenSeq(d) \o x /\ FlattenSeq(d) \in Seq(S)
      BY <2>3, <2>6, FlattenAppend, FlattenType, Zenon
    <2>8. PICK fa, fd : fa = FlattenSeq(a) /\ fd = FlattenSeq(d)
      OBVIOUS
    <2>9. fa \in Seq(S) /\ fd \in Seq(S)
      BY <1>0, <2>7, <2>8, FlattenType
    <2>10. (fa \o fd) \o x = fa \o (fd \o x)
      <3>2. x \in Seq(S)
        OBVIOUS
      <3> HIDE DEF M
      <3>3. QED
        BY <1>1a, <2>9, <3>2, Zenon
    <2>11. QED
      BY <2>5, <2>7, <2>8, <2>10, Zenon
  <1>3. M = Nat
    <2>1. M \in SUBSET Nat
      OBVIOUS
    <2> HIDE DEF M
    <2>2. QED
      BY <1>1, <1>2, <2>1, SetInduction, Zenon
  <1>4. QED
    BY <1>3, LenProperties, Zenon

LEMMA FlattenOne ==
    ASSUME NEW S, NEW x \in Seq(S)
    PROVE  FlattenSeq(<<x>>) = x
  <1>1. <<>> \in Seq(Seq(S)) /\ Append(<<>>, x) = <<>> \o <<x>> /\ <<x>> \in Seq(Seq(S))
    BY EmptySeq, AppendIsConcat
  <1>2. <<>> \o <<x>> = <<x>> /\ <<>> \o x = x
    BY <1>1, ConcatEmptySeq
  <1>3. FlattenSeq(Append(<<>>, x)) = FlattenSeq(<<>>) \o x
    BY <1>1, FlattenAppend, Zenon
  <1>4. QED
    BY <1>1, <1>2, <1>3, FlattenEmpty, Zenon

LEMMA HeadThenTail ==
    ASSUME NEW S, NEW s \in Seq(S), s # <<>>
    PROVE  s = <<Head(s)>> \o Tail(s) /\ Head(s) \in S /\ Tail(s) \in Seq(S)
  <1>1. /\ Head(s) \in S /\ Tail(s) \in Seq(S) /\ Len(s) \in Nat \ {0}
        /\ Len(Tail(s)) = Len(s) - 1
        /\ \A i \in 1..Len(Tail(s)) : Tail(s)[i] = s[i + 1]
    BY HeadTailProperties, EmptySeq
  <1>2. Head(s) = s[1]
    BY HeadTailProperties, <1>1
  <1>3. <<Head(s)>> \in Seq(S) /\ Len(<<Head(s)>>) = 1 /\ <<Head(s)>>[1] = Head(s)
    BY <1>1
  <1>4. /\ <<Head(s)>> \o Tail(s) \in Seq(S) /\ Len(<<Head(s)>> \o Tail(s)) = Len(s)
        /\ \A i \in 1..Len(s) : (<<Head(s)>> \o Tail(s))[i] = IF i <= 1 THEN Head(s) ELSE Tail(s)[i - 1]
    BY <1>1, <1>3, ConcatProperties
  <1>5. \A i \in 1..Len(s) : (<<Head(s)>> \o Tail(s))[i] = s[i]
    BY <1>1, <1>2, <1>4
  <1>6. QED
    BY <1>1, <1>4, <1>5, SeqEqual

LEMMA FlattenHeadTail ==
    ASSUME NEW S, NEW bufs \in Seq(Seq(S)), bufs # <<>>
    PROVE  FlattenSeq(bufs) = Head(bufs) \o FlattenSeq(Tail(bufs))
  <1>1. bufs = <<Head(bufs)>> \o Tail(bufs) /\ Head(bufs) \in Seq(S) /\ Tail(bufs) \in Seq(Seq(S))
    BY HeadThenTail
  <1>2. FlattenSeq(<<Head(bufs)>>) = Head(bufs) /\ <<Head(bufs)>> \in Seq(Seq(S))
    BY <1>1, FlattenOne
  <1>3. FlattenSeq(<<Head(bufs)>> \o Tail(bufs)) = FlattenSeq(<<Head(bufs)>>) \o FlattenSeq(Tail(bufs))
    BY <1>1, <1>2, FlattenConcat, Zenon
  <1>4. QED
    BY <1>1, <1>2, <1>3, Zenon

\* Buffers that are all empty hold nothing.
LEMMA FlattenNothing ==
    ASSUME NEW S, NEW bufs \in Seq(Seq(S)), \A k \in 1..Len(bufs) : bufs[k] = <<>>
    PROVE  FlattenSeq(bufs) = <<>>
  <1> DEFINE M == {n \in Nat : \A b \in Seq(Seq(S)) :
                      Len(b) = n /\ (\A k \in 1..Len(b) : b[k] = <<>>) => FlattenSeq(b) = <<>>}
  <1>1. 0 \in M
    <2>1. \A b \in Seq(Seq(S)) : Len(b) = 0 => b = <<>>
      BY EmptySeq
    <2>2. QED
      BY <2>1, FlattenEmpty
  <1>2. ASSUME NEW n \in M PROVE n + 1 \in M
    <2>1. SUFFICES ASSUME NEW b \in Seq(Seq(S)), Len(b) = n + 1, \A k \in 1..Len(b) : b[k] = <<>>
                   PROVE  FlattenSeq(b) = <<>>
      OBVIOUS
    <2>2. b # <<>>
      BY <2>1, EmptySeq
    <2>3. PICK a \in Seq(Seq(S)), x \in Seq(S) : b = Append(a, x)
      BY <2>2, SequenceEmptyOrAppend
    <2>4. Len(a) = n /\ x = <<>> /\ \A k \in 1..Len(a) : a[k] = <<>>
      <3>1. /\ Len(b) = Len(a) + 1 /\ Len(a) \in Nat /\ b[Len(a) + 1] = x
            /\ \A i \in 1..Len(a) : b[i] = a[i]
        BY <2>3, AppendProperties, LenProperties
      <3>2. QED
        BY <2>1, <3>1
    <2>5. FlattenSeq(b) = FlattenSeq(a) \o x /\ FlattenSeq(a) = <<>>
      BY <2>3, <2>4, FlattenAppend
    <2>6. <<>> \o <<>> = <<>>
      BY ConcatEmptySeq, EmptySeq
    <2>7. QED
      BY <2>4, <2>5, <2>6
  <1>3. M = Nat
    <2>1. M \in SUBSET Nat
      OBVIOUS
    <2> HIDE DEF M
    <2>2. QED
      BY <1>1, <1>2, <2>1, SetInduction, Zenon
  <1>4. QED
    BY <1>3, LenProperties

\* Flattening in two steps or in one.
LEMMA FlattenTwice ==
    ASSUME NEW S, NEW bb \in Seq(Seq(Seq(S))), NEW flat \in Seq(Seq(S)),
           Len(flat) = Len(bb), \A k \in 1..Len(bb) : flat[k] = FlattenSeq(bb[k])
    PROVE  FlattenSeq(FlattenSeq(bb)) = FlattenSeq(flat)
  <1> DEFINE M == {n \in Nat : \A b \in Seq(Seq(Seq(S))), f \in Seq(Seq(S)) :
                      Len(b) = n /\ Len(f) = n /\ (\A k \in 1..n : f[k] = FlattenSeq(b[k]))
                      => FlattenSeq(FlattenSeq(b)) = FlattenSeq(f)}
  <1>1. 0 \in M
    <2>1. \A b \in Seq(Seq(Seq(S))) : Len(b) = 0 => b = <<>>
      BY EmptySeq
    <2>2. \A f \in Seq(Seq(S)) : Len(f) = 0 => f = <<>>
      BY EmptySeq
    <2>3. QED
      BY <2>1, <2>2, FlattenEmpty
  <1>2. ASSUME NEW n \in M PROVE n + 1 \in M
    <2>1. SUFFICES ASSUME NEW b \in Seq(Seq(Seq(S))), NEW f \in Seq(Seq(S)),
                          Len(b) = n + 1, Len(f) = n + 1,
                          \A k \in 1..(n + 1) : f[k] = FlattenSeq(b[k])
                   PROVE  FlattenSeq(FlattenSeq(b)) = FlattenSeq(f)
      OBVIOUS
    <2>2. b # <<>> /\ f # <<>>
      BY <2>1, EmptySeq
    <2>3. PICK c \in Seq(Seq(Seq(S))), x \in Seq(Seq(S)) : b = Append(c, x)
      BY <2>2, SequenceEmptyOrAppend
    <2>4. PICK g \in Seq(Seq(S)), y \in Seq(S) : f = Append(g, y)
      BY <2>2, SequenceEmptyOrAppend
    <2>5. /\ Len(c) = n /\ b[n + 1] = x /\ \A i \in 1..n : b[i] = c[i]
      BY <2>1, <2>3, AppendProperties, LenProperties
    <2>6. /\ Len(g) = n /\ f[n + 1] = y /\ \A i \in 1..n : f[i] = g[i]
      BY <2>1, <2>4, AppendProperties, LenProperties
    <2>7. FlattenSeq(FlattenSeq(c)) = FlattenSeq(g)
      <3>1. \A k \in 1..n : g[k] = FlattenSeq(c[k])
        <4>1. \A k \in 1..n : k \in 1..(n + 1)
          OBVIOUS
        <4>2. QED
          BY <2>1, <2>5, <2>6, <4>1
      <3>2. QED
        BY <2>5, <2>6, <3>1, Zenon
    <2>8. y = FlattenSeq(x)
      BY <2>1, <2>5, <2>6
    <2>9. FlattenSeq(b) = FlattenSeq(c) \o x /\ FlattenSeq(c) \in Seq(Seq(S))
      BY <2>3, FlattenAppend, FlattenType, ZenonT(40)
    <2>10. FlattenSeq(FlattenSeq(b)) = FlattenSeq(FlattenSeq(c)) \o FlattenSeq(x)
      BY <2>9, FlattenConcat, ZenonT(40)
    <2>11. FlattenSeq(f) = FlattenSeq(g) \o y
      BY <2>4, FlattenAppend, SMTT(30)
    <2>12. QED
      BY <2>7, <2>8, <2>10, <2>11
  <1>3. M = Nat
    <2>1. M \in SUBSET Nat
      OBVIOUS
    <2> HIDE DEF M
    <2>2. QED
      BY <1>1, <1>2, <2>1, SetInduction, Zenon
  <1>4. QED
    BY <1>3, LenProperties, Zenon

-----------------------------------------------------------------------------
(* Min and Max of two numbers, and sequences.                               *)

LEMMA MinMax ==
    ASSUME NEW a \in Int, NEW b \in Int
    PROVE  /\ Min({a, b}) = IF a <= b THEN a ELSE b
           /\ Max({a, b}) = IF a <= b THEN b ELSE a
  <1>1. Min({a, b}) = IF a <= b THEN a ELSE b
    <2>1. \E x \in {a, b} : \A y \in {a, b} : x <= y
      OBVIOUS
    <2>2. Min({a, b}) \in {a, b} /\ Min({a, b}) <= a /\ Min({a, b}) <= b
      BY <2>1 DEF Min
    <2>3. QED
      BY <2>2
  <1>2. Max({a, b}) = IF a <= b THEN b ELSE a
    <2>1. \E x \in {a, b} : \A y \in {a, b} : x >= y
      OBVIOUS
    <2>2. Max({a, b}) \in {a, b} /\ Max({a, b}) >= a /\ Max({a, b}) >= b
      BY <2>1 DEF Max
    <2>3. QED
      BY <2>2
  <1>3. QED
    BY <1>1, <1>2

\* One more element of a sequence.
LEMMA SubSeqNext ==
    ASSUME NEW S, NEW s \in Seq(S), NEW k \in Nat, k < Len(s)
    PROVE  /\ SubSeq(s, 1, k) \in Seq(S) /\ SubSeq(s, 1, k + 1) = Append(SubSeq(s, 1, k), s[k + 1])
           /\ s[k + 1] \in S
  <1>1. Len(s) \in Nat /\ k + 1 \in 1..Len(s) /\ (k + 1) - 1 = k
    BY LenProperties
  <1>2. s[k + 1] \in S
    BY <1>1, ElementOfSeq
  <1>3. SubSeq(s, 1, k) \in Seq(S)
    <2>1. \A i \in 1..k : s[i] \in S
      BY <1>1, ElementOfSeq
    <2>2. QED
      BY <2>1, SubSeqProperties
  <1>4. SubSeq(s, 1, k + 1) = SubSeq(s, 1, k) \o <<s[k + 1]>>
    BY <1>1, SubSeqRecursiveSecond
  <1>5. QED
    BY <1>2, <1>3, <1>4, AppendIsConcat
\* The two parts of a sequence cut after k elements.
LEMMA Halves ==
    ASSUME NEW S, NEW b \in Seq(S), NEW k \in 0..Len(b)
    PROVE  /\ SubSeq(b, 1, k) \in Seq(S) /\ SubSeq(b, k + 1, Len(b)) \in Seq(S)
           /\ SubSeq(b, 1, k) \o SubSeq(b, k + 1, Len(b)) = b
           /\ Len(SubSeq(b, 1, k)) = k
  <1>1. Len(b) \in Nat /\ k \in Nat /\ k + 1 \in Int /\ k <= Len(b) /\ 1 \in Int /\ k \in Int /\ Len(b) \in Int
    BY LenProperties
  <1>2. SubSeq(b, 1, k) \in Seq(S)
    <2>1. \A i \in 1..k : b[i] \in S
      BY <1>1, ElementOfSeq
    <2>2. QED
      BY <1>1, <2>1, SubSeqProperties
  <1>3. Len(SubSeq(b, 1, k)) = k
    <2>1. \A i \in 1..k : b[i] \in S
      BY <1>1, ElementOfSeq
    <2>2. Len(SubSeq(b, 1, k)) = IF 1 <= k THEN k - 1 + 1 ELSE 0
      BY <1>1, <2>1, SubSeqProperties
    <2>3. QED
      BY <1>1, <2>2
  <1>4. SubSeq(b, k + 1, Len(b)) \in Seq(S)
    <2>1. \A i \in (k + 1)..Len(b) : b[i] \in S
      BY <1>1, ElementOfSeq
    <2>2. QED
      BY <1>1, <2>1, SubSeqProperties
  <1>5. SubSeq(b, 1, k) \o SubSeq(b, k + 1, Len(b)) = SubSeq(b, 1, Len(b))
    <2>1. 1 \in 1..(Len(b) + 1) /\ k \in (1 - 1)..Len(b) /\ Len(b) \in k..Len(b)
      BY <1>1
    <2>2. QED
      BY <2>1, ConcatAdjacentSubSeq, Zenon
  <1>6. SubSeq(b, 1, Len(b)) = b
    BY SubSeqFull
  <1>7. QED
    BY <1>2, <1>3, <1>4, <1>5, <1>6, Zenon
LEMMA SeqFromFunction ==
    ASSUME NEW S, NEW n \in Nat, NEW f \in [1..n -> S]
    PROVE  f \in Seq(S) /\ DOMAIN f = 1..n /\ Len(f) = n
  <1>1. f \in UNION {[1..k -> S] : k \in Nat}
    OBVIOUS
  <1>2. f \in Seq(S)
    BY <1>1, SeqDef, Zenon
  <1>3. DOMAIN f = 1..Len(f) /\ Len(f) \in Nat /\ DOMAIN f = 1..n
    BY <1>2, LenProperties
  <1>4. Len(f) = n
    BY <1>3
  <1>5. QED
    BY <1>2, <1>3, <1>4

\* The least element of a set of numbers is what Min finds.
LEMMA MinOfSet ==
    ASSUME NEW D \in SUBSET Nat, D # {}
    PROVE  Min(D) \in D /\ \A n \in D : Min(D) <= n
  <1>1. \E x \in D : \A y \in D : x <= y
    BY LeastElement
  <1>2. QED
    BY <1>1, Zenon DEF Min

-----------------------------------------------------------------------------
(* What the helpers of Smux compute.                                        *)

\* Frames hold a whole buffer, in order, and none is empty or too long.
LEMMA ChunksHold ==
    ASSUME NEW S, NEW buf \in Seq(S)
    PROVE  /\ Chunks(buf) \in Seq(Seq(S)) /\ FlattenSeq(Chunks(buf)) = buf
           /\ \A k \in 1..Len(Chunks(buf)) : Len(Chunks(buf)[k]) \in 1..FrameSize
  <1> DEFINE n == (Len(buf) + FrameSize - 1) \div FrameSize
             upto(k) == Min({k * FrameSize, Len(buf)})
             chunk(k) == SubSeq(buf, (k - 1) * FrameSize + 1, upto(k))
             M == {k \in Nat : k <= n => FlattenSeq(SubSeq(Chunks(buf), 1, k)) = SubSeq(buf, 1, upto(k))}
  <1>1. FrameSize \in Nat \ {0} /\ Len(buf) \in Nat
    BY SmuxAssumption, LenProperties
  <1>2. /\ n \in Nat
        /\ n * FrameSize \in Nat /\ n * FrameSize <= Len(buf) + FrameSize - 1
        /\ Len(buf) <= n * FrameSize
    <2> DEFINE t == Len(buf) + FrameSize - 1
    <2>1. t \in Nat
      BY <1>1
    <2> HIDE DEF t
    <2>2. t \div FrameSize \in Nat /\ t = FrameSize * (t \div FrameSize) + (t % FrameSize) /\ t % FrameSize \in 0..(FrameSize - 1)
      BY <1>1, <2>1
    <2>3. n = t \div FrameSize
      BY DEF t
    <2> HIDE DEF n
    <2>4. n \in Nat /\ t = FrameSize * n + (t % FrameSize)
      BY <2>2, <2>3
    <2>7. FrameSize * n = n * FrameSize /\ n * FrameSize \in Nat
      BY <1>1, <2>4
    <2>5. t = Len(buf) + FrameSize - 1
      BY DEF t
    <2>6. QED
      BY <1>1, <2>1, <2>2, <2>4, <2>5, <2>7
  <1>3. ASSUME NEW k \in 1..n
        PROVE  /\ k * FrameSize \in Nat /\ (k - 1) * FrameSize \in Nat
               /\ k * FrameSize = (k - 1) * FrameSize + FrameSize
               /\ (k - 1) * FrameSize < Len(buf)
               /\ upto(k) = IF k * FrameSize <= Len(buf) THEN k * FrameSize ELSE Len(buf)
               /\ upto(k) \in 1..Len(buf)
    <2> HIDE DEF n
    <2>1. k \in Nat /\ k >= 1 /\ k - 1 \in Nat /\ n - k \in Nat
      BY <1>2
    <2>2. PICK m \in Nat : n = k + m
      BY <1>2, <2>1
    <2>3. n * FrameSize = k * FrameSize + m * FrameSize /\ m * FrameSize \in Nat
      BY <1>1, <2>1, <2>2
    <2>4. PICK j \in Nat : k = j + 1
      BY <2>1
    <2>5. k * FrameSize = j * FrameSize + FrameSize /\ k - 1 = j /\ j * FrameSize \in Nat
      BY <1>1, <2>4
    <2>6. upto(k) = IF k * FrameSize <= Len(buf) THEN k * FrameSize ELSE Len(buf)
      <3>1. k * FrameSize \in Int /\ Len(buf) \in Int
        BY <1>1, <2>5
      <3>2. QED
        BY <3>1, MinMax
    <2>7. QED
      BY <1>1, <1>2, <2>3, <2>5, <2>6
  <1> HIDE DEF n, upto
  <1>4. /\ Chunks(buf) = [k \in 1..n |-> chunk(k)]
        /\ DOMAIN Chunks(buf) = 1..n
    BY DEF Chunks, n, upto
  <1>5. ASSUME NEW k \in 1..n PROVE chunk(k) \in Seq(S) /\ Len(chunk(k)) \in 1..FrameSize
    <2> DEFINE from == (k - 1) * FrameSize + 1
    <2>1. from \in 1..Len(buf) /\ upto(k) \in from..Len(buf) /\ upto(k) - from + 1 \in 1..FrameSize
      BY <1>1, <1>3
    <2> HIDE DEF from
    <2>2. \A i \in from..upto(k) : buf[i] \in S
      BY <1>1, <2>1, ElementOfSeq
    <2>3. SubSeq(buf, from, upto(k)) \in Seq(S) /\ Len(SubSeq(buf, from, upto(k))) = upto(k) - from + 1
      BY <1>1, <2>1, <2>2, SubSeqProperties
    <2>4. QED
      BY <2>1, <2>3 DEF from
  <1>6. Chunks(buf) \in Seq(Seq(S)) /\ Len(Chunks(buf)) = n
    <2>1. Chunks(buf) \in [1..n -> Seq(S)]
      BY <1>4, <1>5
    <2>2. Chunks(buf) \in Seq(Seq(S))
      BY <1>2, <2>1, SeqDef
    <2> DEFINE c == Chunks(buf)
    <2>3. c \in Seq(Seq(S)) /\ DOMAIN c = 1..n
      BY <1>4, <2>2
    <2> HIDE DEF c
    <2>4. DOMAIN c = 1..Len(c) /\ Len(c) \in Nat
      BY <2>3, LenProperties
    <2>5. Len(c) = n
      BY <1>2, <2>3, <2>4
    <2>6. QED
      BY <2>2, <2>5 DEF c
  <1>7. M = Nat
    <2>1. M \in SUBSET Nat
      OBVIOUS
    <2>2. 0 \in M
      <3>1. SubSeq(Chunks(buf), 1, 0) = <<>> /\ SubSeq(buf, 1, 0) = <<>>
        BY SubSeqEmpty
      <3>2. upto(0) = 0
        BY <1>1, MinMax DEF upto
      <3>3. QED
        BY <3>1, <3>2, FlattenEmpty, Zenon
    <2>3. ASSUME NEW k \in M PROVE k + 1 \in M
      <3>1. SUFFICES ASSUME k + 1 <= n
                     PROVE  FlattenSeq(SubSeq(Chunks(buf), 1, k + 1)) = SubSeq(buf, 1, upto(k + 1))
        OBVIOUS
      <3>2. k \in Nat /\ k + 1 \in 1..n /\ (k + 1) - 1 = k
        BY <1>2, <3>1
      <3>3. /\ SubSeq(Chunks(buf), 1, k) \in Seq(Seq(S)) /\ chunk(k + 1) \in Seq(S)
            /\ SubSeq(Chunks(buf), 1, k + 1) = Append(SubSeq(Chunks(buf), 1, k), chunk(k + 1))
        <4>1. k < Len(Chunks(buf)) /\ Chunks(buf)[k + 1] = chunk(k + 1)
          <5>1. k < Len(Chunks(buf))
            BY <1>2, <1>6, <3>1, <3>2
          <5>2. Chunks(buf)[k + 1] = chunk(k + 1)
            BY <1>4, <3>2, Zenon
          <5>3. QED
            BY <5>1, <5>2
        <4>2. /\ SubSeq(Chunks(buf), 1, k) \in Seq(Seq(S))
              /\ SubSeq(Chunks(buf), 1, k + 1) = Append(SubSeq(Chunks(buf), 1, k), Chunks(buf)[k + 1])
          BY <1>6, <3>2, <4>1, SubSeqNext
        <4>3. QED
          BY <1>5, <3>2, <4>1, <4>2, Zenon
      <3>4. /\ k * FrameSize \in Nat /\ k * FrameSize < Len(buf)
            /\ upto(k + 1) \in (k * FrameSize)..Len(buf)
        BY <1>1, <1>3, <3>2
      <3>5. upto(k) = k * FrameSize
        BY <1>1, <3>4, MinMax DEF upto
      <3>6. FlattenSeq(SubSeq(Chunks(buf), 1, k)) = SubSeq(buf, 1, k * FrameSize)
        BY <1>2, <3>1, <3>2, <3>5
      <3>7. SubSeq(buf, 1, k * FrameSize) \o SubSeq(buf, k * FrameSize + 1, upto(k + 1)) = SubSeq(buf, 1, upto(k + 1))
        <4> DEFINE m == k * FrameSize
        <4>1. m \in Nat /\ m < Len(buf) /\ upto(k + 1) \in m..Len(buf)
          BY <3>4
        <4> HIDE DEF m
        <4>2. 1 \in 1..(Len(buf) + 1) /\ m \in (1 - 1)..Len(buf)
          BY <1>1, <4>1
        <4>3. SubSeq(buf, 1, m) \o SubSeq(buf, m + 1, upto(k + 1)) = SubSeq(buf, 1, upto(k + 1))
          BY <4>1, <4>2, ConcatAdjacentSubSeq, Zenon
        <4>4. QED
          BY <4>3, Zenon DEF m
      <3>8. chunk(k + 1) = SubSeq(buf, k * FrameSize + 1, upto(k + 1))
        BY <3>2, Zenon
      <3>9. QED
        BY <3>3, <3>6, <3>7, <3>8, FlattenAppend, Zenon
    <2> HIDE DEF M
    <2>4. QED
      BY <2>1, <2>2, <2>3, SetInduction, Zenon
  <1>8. FlattenSeq(Chunks(buf)) = buf
    <2>1. n \in M
      BY <1>2, <1>7
    <2>2. SubSeq(Chunks(buf), 1, n) = Chunks(buf) /\ SubSeq(buf, 1, Len(buf)) = buf
      BY <1>6, SubSeqFull
    <2>3. upto(n) = Len(buf)
      BY <1>1, <1>2, MinMax DEF upto
    <2>4. n <= n
      BY <1>2
    <2>5. FlattenSeq(SubSeq(Chunks(buf), 1, n)) = SubSeq(buf, 1, upto(n))
      BY <2>1, <2>4
    <2>6. QED
      BY <2>2, <2>3, <2>5, Zenon
  <1>9. QED
    BY <1>4, <1>5, <1>6, <1>8, Zenon
\* x is the first n bytes of f (or all of it), y the rest.
Splits(n, f, x, y) ==
    /\ x \o y = f
    /\ n >= Len(f) => x = f /\ y = <<>>
    /\ n < Len(f) => Len(x) = n

\* The next buffer is cut into h and t where n bytes end.
Cuts(n, f, h, t) ==
    /\ n <= Len(f) => h = <<>>
    /\ n >= Len(f) + Len(h \o t) => t = <<>>
    /\ n > Len(f) /\ n < Len(f) + Len(h \o t) => Len(h) = n - Len(f)

LEMMA ShareCases ==
    ASSUME NEW l \in Nat, NEW d \in Int
    PROVE  Max({0, Min({l, d})}) = IF d <= 0 THEN 0 ELSE IF l <= d THEN l ELSE d
  <1>1. PICK m : m = Min({l, d})
    OBVIOUS
  <1>2. m = IF l <= d THEN l ELSE d
    BY <1>1, MinMax
  <1>3. m \in Int
    BY <1>2
  <1>4. Max({0, m}) = IF 0 <= m THEN m ELSE 0
    BY <1>3, MinMax
  <1>5. QED
    BY <1>1, <1>2, <1>4

LEMMA SplitNext ==
    ASSUME NEW S, NEW n \in Nat, NEW f \in Seq(S), NEW x \in Seq(S), NEW y \in Seq(S),
           NEW h \in Seq(S), NEW t \in Seq(S)
    PROVE  Splits(n, f, x, y) /\ Cuts(n, f, h, t) => Splits(n, f \o (h \o t), x \o h, y \o t)
  <1>a. (f \o h) \o t = f \o (h \o t) /\ x \o (y \o t) = (x \o y) \o t
    <2>1. (f \o h) \o t = f \o (h \o t)
      BY ConcatAssociative, SMTT(30)
    <2>2. (x \o y) \o t = x \o (y \o t)
      BY ConcatAssociative, SMTT(30)
    <2>3. QED
      BY <2>1, <2>2, Zenon
  <1>0. SUFFICES ASSUME Splits(n, f, x, y), Cuts(n, f, h, t)
                 PROVE  Splits(n, f \o (h \o t), x \o h, y \o t)
    OBVIOUS
  <1>1. Len(h \o t) \in Nat /\ Len(f) \in Nat /\ Len(x) \in Nat /\ h \o t \in Seq(S)
    BY LenProperties, ConcatProperties
  <1>2. /\ f \o (h \o t) \in Seq(S) /\ Len(f \o (h \o t)) = Len(f) + Len(h \o t)
        /\ x \o h \in Seq(S) /\ Len(x \o h) = Len(x) + Len(h)
    BY <1>1, ConcatProperties
  <1>3. Len(h) \in Nat /\ (h = <<>> => Len(h) = 0)
    BY LenProperties, EmptySeq
  <1>4. CASE n >= Len(f)
    <2>1. x = f /\ y = <<>>
      BY <1>0, <1>4, Zenon DEF Splits
    <2>2. y \o t = t
      BY <2>1, ConcatEmptySeq
    <2>4. (x \o h) \o (y \o t) = f \o (h \o t)
      BY <1>a, <2>1, <2>2, Zenon
    <2>5. ASSUME n >= Len(f \o (h \o t)) PROVE x \o h = f \o (h \o t) /\ y \o t = <<>>
      <3>1. t = <<>>
        BY <1>2, <2>5, <1>0 DEF Cuts
      <3>2. h \o t = h
        BY <3>1, ConcatEmptySeq
      <3>3. QED
        BY <2>1, <2>2, <3>1, <3>2
    <2>6. ASSUME n < Len(f \o (h \o t)) PROVE Len(x \o h) = n
      <3>1. Len(x \o h) = Len(f) + Len(h) /\ n < Len(f) + Len(h \o t)
        BY <1>2, <2>1, <2>6
      <3>2. CASE n = Len(f)
        BY <1>1, <1>3, <3>1, <3>2, <1>0 DEF Cuts
      <3>3. CASE n > Len(f)
        BY <1>1, <1>3, <3>1, <3>3, <1>0 DEF Cuts
      <3>4. QED
        BY <1>1, <1>4, <3>2, <3>3
    <2>7. QED
      BY <2>4, <2>5, <2>6, Zenon DEF Splits
  <1>5. CASE n < Len(f)
    <2>1. h = <<>> /\ Len(x) = n /\ x \o y = f
      BY <1>1, <1>5, <1>0 DEF Splits, Cuts
    <2>2. x \o h = x /\ h \o t = t
      BY <2>1, ConcatEmptySeq
    <2>4. (x \o h) \o (y \o t) = f \o (h \o t)
      BY <1>a, <2>1, <2>2, Zenon
    <2>5. n < Len(f \o (h \o t)) /\ ~(n >= Len(f \o (h \o t))) /\ Len(x \o h) = n
      BY <1>1, <1>2, <1>5, <2>1, <2>2
    <2>6. QED
      BY <2>4, <2>5 DEF Splits
  <1>6. QED
    BY <1>1, <1>4, <1>5

\* The bytes Share gives to each buffer are the first n bytes of the queue.
LEMMA SplitBuffers ==
    ASSUME NEW S, NEW bufs \in Seq(Seq(S)), NEW n \in Nat,
           NEW heads \in Seq(Seq(S)), Len(heads) = Len(bufs),
           NEW rest \in Seq(Seq(S)), Len(rest) = Len(bufs),
           \A j \in 1..Len(bufs) :
              /\ heads[j] = SubSeq(bufs[j], 1, Share(bufs, n, j))
              /\ rest[j] = SubSeq(bufs[j], Share(bufs, n, j) + 1, Len(bufs[j]))
    PROVE  Splits(n, FlattenSeq(bufs), FlattenSeq(heads), FlattenSeq(rest))
  <1> DEFINE Split(k) == Splits(n, FlattenSeq(SubSeq(bufs, 1, k)), FlattenSeq(SubSeq(heads, 1, k)),
                                FlattenSeq(SubSeq(rest, 1, k)))
             M == {k \in Nat : k <= Len(bufs) => Split(k)}
  <1>1. Len(bufs) \in Nat
    BY LenProperties
  <1>2. M = Nat
    <2>1. M \in SUBSET Nat
      OBVIOUS
    <2>2. 0 \in M
      <3>1. SubSeq(bufs, 1, 0) = <<>> /\ SubSeq(heads, 1, 0) = <<>> /\ SubSeq(rest, 1, 0) = <<>>
        BY SubSeqEmpty
      <3>2. Splits(n, <<>>, <<>>, <<>>)
        <4>1. Len(<<>>) = 0 /\ <<>> \o <<>> = <<>>
          BY EmptySeq, ConcatEmptySeq
        <4>2. ~(n < 0)
          OBVIOUS
        <4>3. QED
          BY <4>1, <4>2 DEF Splits
      <3>3. Split(0)
        BY <3>1, <3>2, FlattenEmpty, Zenon
      <3> HIDE DEF Split
      <3>4. QED
        BY <3>3
    <2>3. ASSUME NEW k \in M PROVE k + 1 \in M
      <3>1. SUFFICES ASSUME k + 1 <= Len(bufs) PROVE Split(k + 1)
        OBVIOUS
      <3>2. k \in Nat /\ k < Len(bufs) /\ k + 1 \in 1..Len(bufs) /\ (k + 1) - 1 = k
        BY <1>1, <3>1
      <3>3. PICK f, x, y : /\ f = FlattenSeq(SubSeq(bufs, 1, k)) /\ x = FlattenSeq(SubSeq(heads, 1, k))
                           /\ y = FlattenSeq(SubSeq(rest, 1, k))
        OBVIOUS
      <3>4. PICK b, h, t : b = bufs[k + 1] /\ h = heads[k + 1] /\ t = rest[k + 1]
        BY Zenon
      <3>5. /\ b \in Seq(S) /\ h \in Seq(S) /\ t \in Seq(S)
            /\ SubSeq(bufs, 1, k) \in Seq(Seq(S)) /\ SubSeq(bufs, 1, k + 1) = Append(SubSeq(bufs, 1, k), b)
            /\ SubSeq(heads, 1, k) \in Seq(Seq(S)) /\ SubSeq(heads, 1, k + 1) = Append(SubSeq(heads, 1, k), h)
            /\ SubSeq(rest, 1, k) \in Seq(Seq(S)) /\ SubSeq(rest, 1, k + 1) = Append(SubSeq(rest, 1, k), t)
        BY <3>2, <3>4, SubSeqNext, Zenon
      <3>6. /\ f \in Seq(S) /\ x \in Seq(S) /\ y \in Seq(S)
            /\ FlattenSeq(SubSeq(bufs, 1, k + 1)) = f \o b
            /\ FlattenSeq(SubSeq(heads, 1, k + 1)) = x \o h
            /\ FlattenSeq(SubSeq(rest, 1, k + 1)) = y \o t
        BY <3>3, <3>5, FlattenType, FlattenAppend, Zenon
      <3>7. PICK sh : sh = Share(bufs, n, k + 1)
        OBVIOUS
      <3>8. h = SubSeq(b, 1, sh) /\ t = SubSeq(b, sh + 1, Len(b))
        BY <3>2, <3>4, <3>7, Zenon
      <3>9. Len(b) \in Nat /\ Len(f) \in Nat
        BY <3>5, <3>6, LenProperties
      <3>10. sh = IF n - Len(f) <= 0 THEN 0 ELSE IF Len(b) <= n - Len(f) THEN Len(b) ELSE n - Len(f)
        <4>1. sh = Max({0, Min({Len(b), n - Len(f)})})
          BY <3>2, <3>3, <3>4, <3>7 DEF Share, TotalLen
        <4>2. PICK l, d : l = Len(b) /\ d = n - Len(f)
          BY Zenon
        <4>3. l \in Nat /\ d \in Int
          BY <3>9, <4>2
        <4>4. Max({0, Min({l, d})}) = IF d <= 0 THEN 0 ELSE IF l <= d THEN l ELSE d
          BY <4>3, ShareCases, Zenon
        <4>5. QED
          BY <4>1, <4>2, <4>4
      <3>11. sh \in 0..Len(b)
        BY <3>9, <3>10
      <3>13. h \o t = b /\ Len(h) = sh
        BY <3>5, <3>8, <3>11, Halves, Zenon
      <3>14. Splits(n, f, x, y)
        BY <3>2, <3>3
      <3>15. Cuts(n, f, h, t)
        <4>1. ASSUME n <= Len(f) PROVE h = <<>>
          <5>1. sh = 0
            BY <3>9, <3>10, <4>1
          <5>2. QED
            BY <3>8, <5>1, SubSeqEmpty
        <4>2. ASSUME n >= Len(f) + Len(h \o t) PROVE t = <<>>
          <5>1. sh = Len(b)
            BY <3>9, <3>10, <3>13, <4>2
          <5>2. SubSeq(b, Len(b) + 1, Len(b)) = <<>>
            BY <3>9, SubSeqEmpty
          <5>3. QED
            BY <3>8, <5>1, <5>2
        <4>3. ASSUME n > Len(f), n < Len(f) + Len(h \o t) PROVE Len(h) = n - Len(f)
          BY <3>9, <3>10, <3>13, <4>3
        <4>4. QED
          BY <4>1, <4>2, <4>3 DEF Cuts
      <3>16. Splits(n, f \o (h \o t), x \o h, y \o t)
        BY <3>5, <3>6, <3>14, <3>15, SplitNext, Zenon
      <3>17. QED
        BY <3>6, <3>13, <3>16, Zenon
    <2> HIDE DEF M
    <2>4. QED
      BY <2>1, <2>2, <2>3, SetInduction, Zenon
  <1>3. Split(Len(bufs))
    <2>1. Len(bufs) \in M /\ Len(bufs) <= Len(bufs)
      BY <1>1, <1>2
    <2> HIDE DEF Split
    <2>2. QED
      BY <2>1
  <1>4. /\ SubSeq(bufs, 1, Len(bufs)) = bufs /\ SubSeq(heads, 1, Len(bufs)) = heads
        /\ SubSeq(rest, 1, Len(bufs)) = rest
    BY SubSeqFull
  <1>5. QED
    BY <1>3, <1>4, Zenon
-----------------------------------------------------------------------------
(* Types.                                                                   *)

Item == Ids \X (Nat \ {0})
Counter == 0..(Modulus - 1)

Frame == [cmd : {"syn", "fin"}, id : Ids]
            \cup [cmd : {"psh"}, id : Ids, data : Seq(Item)]
            \cup [cmd : {"upd"}, id : Ids, consumed : Counter, window : Counter]

\* What a stream that exists sends.
FramesOf(i) == {f \in Frame : f.id = i /\ f.cmd # "syn"}

\* The record of a stream whose handler may send the frames F.
StreamRec(F) ==
    [created : BOOLEAN, phase : {"idle", "resolve", "connect"}, tcp_ready : BOOLEAN,
     tcp_write_active : BOOLEAN, local_fin_sent : BOOLEAN,
     remote_fin_received : BOOLEAN, closed : BOOLEAN, close_timer : BOOLEAN,
     reads : Nat, done : Seq(Int), tcp_read_buffer : Seq(Item),
     pending_outbound : Seq(Seq(Item)), pending_tcp_writes : Seq(Seq(Item)),
     num_read : Counter, num_written : Counter, incr : Counter,
     peer_consumed : Counter, peer_window : Counter,
     send_shut : BOOLEAN, queued : Seq(Item), delivered : Seq(Item), out : Seq(F)]

\* The payload a frame carries for stream i.
Data(f, i) == IF f.cmd = "psh" /\ f.id = i THEN f.data ELSE <<>>

PayloadOf(frames, i) == FlattenSeq([k \in DOMAIN frames |-> Data(frames[k], i)])

LEMMA WirePayload == \A s, i : OnWire(s, i) = PayloadOf(net[s], i)
  BY DEF OnWire, PayloadOf, Data

LEMMA DataType ==
    ASSUME NEW f \in Frame, NEW i
    PROVE  Data(f, i) \in Seq(Item)
  <1>1. CASE f.cmd = "psh" /\ f.id = i
    <2>1. f.data \in Seq(Item)
      BY <1>1 DEF Frame
    <2>2. QED
      BY <1>1, <2>1 DEF Data
  <1>2. CASE ~(f.cmd = "psh" /\ f.id = i)
    <2>1. <<>> \in Seq(Item)
      BY EmptySeq
    <2>2. QED
      BY <1>2, <2>1 DEF Data
  <1>3. QED
    BY <1>1, <1>2

LEMMA Datas ==
    ASSUME NEW q \in Seq(Frame), NEW i
    PROVE  /\ [k \in DOMAIN q |-> Data(q[k], i)] \in Seq(Seq(Item))
           /\ Len([k \in DOMAIN q |-> Data(q[k], i)]) = Len(q)
           /\ \A k \in 1..Len(q) : [j \in DOMAIN q |-> Data(q[j], i)][k] = Data(q[k], i)
  <1> DEFINE m == [k \in DOMAIN q |-> Data(q[k], i)]
  <1>1. DOMAIN q = 1..Len(q) /\ Len(q) \in Nat /\ \A k \in 1..Len(q) : q[k] \in Frame
    BY LenProperties, ElementOfSeq
  <1>2. DOMAIN m = 1..Len(q) /\ \A k \in 1..Len(q) : m[k] = Data(q[k], i)
    BY <1>1
  <1>3. m = [k \in 1..Len(q) |-> Data(q[k], i)]
    BY <1>1
  <1>4. \A k \in 1..Len(q) : Data(q[k], i) \in Seq(Item)
    BY <1>1, DataType
  <1>5. m \in [1..Len(q) -> Seq(Item)]
    BY <1>3, <1>4
  <1>6. m \in Seq(Seq(Item))
    BY <1>1, <1>5, SeqDef
  <1>7. Len(m) = Len(q)
    <2>1. \A c \in Seq(Seq(Item)) : DOMAIN c = 1..Len(c) /\ Len(c) \in Nat
      BY LenProperties
    <2> HIDE DEF m
    <2>2. DOMAIN m = 1..Len(m) /\ Len(m) \in Nat
      BY <1>6, <2>1
    <2>3. QED
      BY <1>1, <1>2, <2>2
  <1>8. QED
    BY <1>2, <1>6, <1>7

LEMMA PayloadType ==
    ASSUME NEW q \in Seq(Frame), NEW i
    PROVE  PayloadOf(q, i) \in Seq(Item)
  BY Datas, FlattenType DEF PayloadOf

LEMMA PayloadEmpty == \A i : PayloadOf(<<>>, i) = <<>>
  <1> SUFFICES ASSUME NEW i PROVE PayloadOf(<<>>, i) = <<>>
    OBVIOUS
  <1>1. <<>> \in Seq(Frame) /\ Len(<<>>) = 0
    BY EmptySeq
  <1>2. PICK m : m = [k \in DOMAIN <<>> |-> Data(<<>>[k], i)]
    OBVIOUS
  <1>3. m \in Seq(Seq(Item)) /\ Len(m) = 0
    BY <1>1, <1>2, Datas
  <1>4. m = <<>>
    BY <1>3, EmptySeq
  <1>5. QED
    BY <1>2, <1>4, FlattenEmpty DEF PayloadOf

LEMMA PayloadConcat ==
    ASSUME NEW p \in Seq(Frame), NEW q \in Seq(Frame), NEW i
    PROVE  PayloadOf(p \o q, i) = PayloadOf(p, i) \o PayloadOf(q, i)
  <1>1. PICK a, b, c : /\ a = [k \in DOMAIN p |-> Data(p[k], i)]
                       /\ b = [k \in DOMAIN q |-> Data(q[k], i)]
                       /\ c = [k \in DOMAIN (p \o q) |-> Data((p \o q)[k], i)]
    BY Zenon
  <1>2. /\ p \o q \in Seq(Frame) /\ Len(p \o q) = Len(p) + Len(q)
        /\ \A k \in 1..(Len(p) + Len(q)) :
              (p \o q)[k] = IF k <= Len(p) THEN p[k] ELSE q[k - Len(p)]
        /\ Len(p) \in Nat /\ Len(q) \in Nat
    BY ConcatProperties, LenProperties
  <1>3. /\ a \in Seq(Seq(Item)) /\ Len(a) = Len(p) /\ \A k \in 1..Len(p) : a[k] = Data(p[k], i)
        /\ b \in Seq(Seq(Item)) /\ Len(b) = Len(q) /\ \A k \in 1..Len(q) : b[k] = Data(q[k], i)
    BY <1>1, Datas, Zenon
  <1>4. /\ c \in Seq(Seq(Item)) /\ Len(c) = Len(p \o q)
        /\ \A k \in 1..Len(p \o q) : c[k] = Data((p \o q)[k], i)
    BY <1>1, <1>2, Datas, Zenon
  <1>5. /\ a \o b \in Seq(Seq(Item)) /\ Len(a \o b) = Len(p) + Len(q)
        /\ \A k \in 1..(Len(p) + Len(q)) : (a \o b)[k] = IF k <= Len(p) THEN a[k] ELSE b[k - Len(p)]
    <2>1. a \in Seq(Seq(Item)) /\ b \in Seq(Seq(Item))
      BY <1>3
    <2>2. /\ a \o b \in Seq(Seq(Item)) /\ Len(a \o b) = Len(a) + Len(b)
          /\ \A k \in 1..(Len(a) + Len(b)) : (a \o b)[k] = IF k <= Len(a) THEN a[k] ELSE b[k - Len(a)]
      BY <2>1, ConcatProperties
    <2>3. Len(a) = Len(p) /\ Len(b) = Len(q)
      BY <1>3
    <2>4. QED
      BY <2>2, <2>3, Zenon
  <1>6. ASSUME NEW k \in 1..(Len(p) + Len(q)) PROVE c[k] = (a \o b)[k]
    <2>1. CASE k <= Len(p)
      <3>1. k \in 1..Len(p)
        BY <1>2, <2>1
      <3>2. QED
        BY <1>2, <1>3, <1>4, <1>5, <2>1, <3>1, Zenon
    <2>2. CASE ~(k <= Len(p))
      <3>1. k - Len(p) \in 1..Len(q)
        BY <1>2, <2>2
      <3>2. QED
        BY <1>2, <1>3, <1>4, <1>5, <2>2, <3>1, Zenon
    <2>3. QED
      BY <2>1, <2>2, Zenon
  <1>7. c = a \o b
    BY <1>2, <1>4, <1>5, <1>6, SeqEqual, Zenon
  <1>8. FlattenSeq(a \o b) = FlattenSeq(a) \o FlattenSeq(b)
    BY <1>3, FlattenConcat
  <1>9. QED
    BY <1>1, <1>7, <1>8, Zenon DEF PayloadOf

LEMMA PayloadOne ==
    ASSUME NEW f \in Frame, NEW i
    PROVE  PayloadOf(<<f>>, i) = Data(f, i)
  <1>0. PICK q : q = <<f>>
    BY Zenon
  <1>1. PICK a : a = [k \in DOMAIN q |-> Data(q[k], i)]
    BY Zenon
  <1>2. q \in Seq(Frame) /\ Len(q) = 1 /\ q[1] = f
    BY <1>0
  <1>3. a \in Seq(Seq(Item)) /\ Len(a) = 1 /\ a[1] = Data(f, i)
    <2>1. a \in Seq(Seq(Item)) /\ Len(a) = Len(q) /\ \A k \in 1..Len(q) : a[k] = Data(q[k], i)
      BY <1>1, <1>2, Datas, Zenon
    <2>2. QED
      BY <1>2, <2>1
  <1>4. Data(f, i) \in Seq(Item)
    BY DataType
  <1>5. a = <<Data(f, i)>>
    <2>1. /\ <<Data(f, i)>> \in Seq(Seq(Item)) /\ Len(<<Data(f, i)>>) = 1
          /\ <<Data(f, i)>>[1] = Data(f, i)
      BY <1>4
    <2>2. \A k \in 1..1 : k = 1
      OBVIOUS
    <2>3. QED
      BY <1>3, <2>1, <2>2, SeqEqual
  <1>6. FlattenSeq(<<Data(f, i)>>) = Data(f, i)
    BY <1>4, FlattenOne
  <1>7. QED
    BY <1>0, <1>1, <1>5, <1>6 DEF PayloadOf

\* Frames that carry nothing for stream j.
LEMMA PayloadNone ==
    ASSUME NEW q \in Seq(Frame), NEW j,
           \A k \in 1..Len(q) : ~(q[k].cmd = "psh" /\ q[k].id = j)
    PROVE  PayloadOf(q, j) = <<>>
  <1>1. PICK m : m = [k \in DOMAIN q |-> Data(q[k], j)]
    BY Zenon
  <1>2. m \in Seq(Seq(Item)) /\ Len(m) = Len(q) /\ \A k \in 1..Len(q) : m[k] = Data(q[k], j)
    BY <1>1, Datas
  <1>3. \A k \in 1..Len(m) : m[k] = <<>>
    BY <1>2 DEF Data
  <1>4. FlattenSeq(m) = <<>>
    BY <1>2, <1>3, FlattenNothing
  <1>5. QED
    BY <1>1, <1>4 DEF PayloadOf

\* The frames a buffer is cut into carry the buffer.
LEMMA PayloadPsh ==
    ASSUME NEW i \in Ids, NEW chunks \in Seq(Seq(Item))
    PROVE  /\ [k \in DOMAIN chunks |-> Psh(i, chunks[k])] \in Seq(FramesOf(i))
           /\ PayloadOf([k \in DOMAIN chunks |-> Psh(i, chunks[k])], i) = FlattenSeq(chunks)
  <1>1. PICK q : q = [k \in DOMAIN chunks |-> Psh(i, chunks[k])]
    BY Zenon
  <1>2. DOMAIN chunks = 1..Len(chunks) /\ Len(chunks) \in Nat /\ \A k \in 1..Len(chunks) : chunks[k] \in Seq(Item)
    BY LenProperties, ElementOfSeq
  <1>3. \A x \in Seq(Item) : Psh(i, x) \in FramesOf(i) /\ Data(Psh(i, x), i) = x
    BY DEF Psh, FramesOf, Frame, Data
  <1>4. q \in [1..Len(chunks) -> FramesOf(i)]
    BY <1>1, <1>2, <1>3
  <1>5. q \in Seq(FramesOf(i)) /\ DOMAIN q = DOMAIN chunks
    <2>1. q \in Seq(FramesOf(i))
      <3>1. PICK F, n : F = FramesOf(i) /\ n = Len(chunks)
        OBVIOUS
      <3>2. n \in Nat /\ q \in [1..n -> F]
        BY <1>2, <1>4, <3>1
      <3>3. q \in UNION {[1..k -> F] : k \in Nat}
        BY <3>2
      <3>4. q \in Seq(F)
        BY <3>3, SeqDef, Zenon
      <3>5. QED
        BY <3>1, <3>4
    <2>2. QED
      BY <1>1, <2>1
  <1>6. \A k \in DOMAIN q : Data(q[k], i) = chunks[k]
    BY <1>1, <1>2, <1>3, <1>5
  <1>7. [k \in DOMAIN q |-> Data(q[k], i)] = chunks
    <2>1. chunks = [k \in DOMAIN chunks |-> chunks[k]]
      BY <1>2, LenProperties
    <2>2. [k \in DOMAIN q |-> Data(q[k], i)] = [k \in DOMAIN chunks |-> chunks[k]]
      BY <1>5, <1>6
    <2>3. QED
      BY <2>1, <2>2
  <1>8. QED
    BY <1>1, <1>5, <1>7 DEF PayloadOf
-----------------------------------------------------------------------------
(* try_flush_outbound.                                                      *)

FlushedChunks(bufs, n) ==
    FlattenSeq([j \in DOMAIN bufs |-> Chunks(SubSeq(bufs[j], 1, Share(bufs, n, j)))])

FlushedRest(bufs, n) ==
    [j \in DOMAIN bufs |-> SubSeq(bufs[j], Share(bufs, n, j) + 1, Len(bufs[j]))]

FlushedFront(bufs, rest) == Min({j \in DOMAIN bufs : rest[j] # <<>>} \cup {Len(bufs) + 1})

FlushedLeft(bufs, n) ==
    SubSeq(FlushedRest(bufs, n), FlushedFront(bufs, FlushedRest(bufs, n)), Len(FlushedRest(bufs, n)))

\* What is sent and what stays is what was queued, in order.
LEMMA FlushSplits ==
    ASSUME NEW S, NEW bufs \in Seq(Seq(S)), NEW n \in Nat
    PROVE  /\ FlushedChunks(bufs, n) \in Seq({x \in Seq(S) : Len(x) \in 1..FrameSize})
           /\ FlushedLeft(bufs, n) \in Seq(Seq(S))
           /\ FlattenSeq(FlushedChunks(bufs, n)) \o FlattenSeq(FlushedLeft(bufs, n)) = FlattenSeq(bufs)
           /\ Len(FlattenSeq(FlushedChunks(bufs, n))) = IF n <= TotalLen(bufs) THEN n ELSE TotalLen(bufs)
  <1> PICK chunks, rest, front :
           /\ chunks = FlattenSeq([j \in DOMAIN bufs |-> Chunks(SubSeq(bufs[j], 1, Share(bufs, n, j)))])
           /\ rest = [j \in DOMAIN bufs |-> SubSeq(bufs[j], Share(bufs, n, j) + 1, Len(bufs[j]))]
           /\ front = Min({j \in DOMAIN bufs : rest[j] # <<>>} \cup {Len(bufs) + 1})
    BY Zenon
  <1> DEFINE heads == [j \in DOMAIN bufs |-> SubSeq(bufs[j], 1, Share(bufs, n, j))]
             cut == [j \in DOMAIN bufs |-> Chunks(SubSeq(bufs[j], 1, Share(bufs, n, j)))]
             T == {x \in Seq(S) : Len(x) \in 1..FrameSize}
  <1>1. DOMAIN bufs = 1..Len(bufs) /\ Len(bufs) \in Nat /\ \A j \in 1..Len(bufs) : bufs[j] \in Seq(S)
    BY LenProperties, ElementOfSeq
  <1>2. ASSUME NEW j \in 1..Len(bufs) PROVE Share(bufs, n, j) \in 0..Len(bufs[j])
    <2>1. SubSeq(bufs, 1, j - 1) \in Seq(Seq(S))
      <3>1. j - 1 \in 0..Len(bufs)
        BY <1>1
      <3>2. QED
        BY <3>1, Halves
    <2>2. TotalLen(SubSeq(bufs, 1, j - 1)) \in Nat
      BY <2>1, FlattenType, LenProperties DEF TotalLen
    <2>3. PICK l, d : l = Len(bufs[j]) /\ d = n - TotalLen(SubSeq(bufs, 1, j - 1))
      OBVIOUS
    <2>4. l \in Nat /\ d \in Int
      BY <1>1, <2>2, <2>3, LenProperties
    <2>5. Max({0, Min({l, d})}) = IF d <= 0 THEN 0 ELSE IF l <= d THEN l ELSE d
      BY <2>4, ShareCases, Zenon
    <2>6. Share(bufs, n, j) = Max({0, Min({l, d})})
      BY <2>3 DEF Share
    <2>7. Share(bufs, n, j) \in 0..l
      BY <2>4, <2>5, <2>6
    <2>8. QED
      BY <2>3, <2>7
  <1>3. ASSUME NEW j \in 1..Len(bufs)
        PROVE  /\ SubSeq(bufs[j], 1, Share(bufs, n, j)) \in Seq(S)
               /\ SubSeq(bufs[j], Share(bufs, n, j) + 1, Len(bufs[j])) \in Seq(S)
    BY <1>1, <1>2, Halves, Zenon
  <1>4. heads \in Seq(Seq(S)) /\ DOMAIN heads = 1..Len(bufs) /\ Len(heads) = Len(bufs)
    <2>1. heads \in [1..Len(bufs) -> Seq(S)]
      BY <1>1, <1>3, Zenon
    <2> HIDE DEF heads
    <2>2. QED
      BY <1>1, <2>1, SeqFromFunction, Zenon
  <1>5. rest \in Seq(Seq(S)) /\ DOMAIN rest = 1..Len(bufs) /\ Len(rest) = Len(bufs)
    <2>1. rest \in [1..Len(bufs) -> Seq(S)]
      BY <1>1, <1>3, Zenon
    <2>2. QED
      BY <1>1, <2>1, SeqFromFunction
  <1>6. Splits(n, FlattenSeq(bufs), FlattenSeq(heads), FlattenSeq(rest))
    <2>1. \A j \in 1..Len(bufs) :
             /\ heads[j] = SubSeq(bufs[j], 1, Share(bufs, n, j))
             /\ rest[j] = SubSeq(bufs[j], Share(bufs, n, j) + 1, Len(bufs[j]))
      BY <1>1, Zenon
    <2> HIDE DEF heads
    <2>2. QED
      BY <1>4, <1>5, <2>1, SplitBuffers, Zenon
  <1>7. chunks \in Seq(T) /\ FlattenSeq(chunks) = FlattenSeq(heads)
    <2>1. \A b \in Seq(S) : Chunks(b) \in Seq(Seq(S)) /\ FlattenSeq(Chunks(b)) = b
      BY ChunksHold
    <2>2. ASSUME NEW b \in Seq(S) PROVE Chunks(b) \in Seq(T)
      <3>1. Chunks(b) \in Seq(Seq(S)) /\ \A k \in 1..Len(Chunks(b)) : Len(Chunks(b)[k]) \in 1..FrameSize
        BY ChunksHold
      <3>2. PICK c : c = Chunks(b)
        OBVIOUS
      <3>3. c \in Seq(Seq(S)) /\ DOMAIN c = 1..Len(c) /\ Len(c) \in Nat
        BY <3>1, <3>2, LenProperties
      <3>4. \A k \in 1..Len(c) : c[k] \in T
        BY <3>1, <3>2, <3>3, ElementOfSeq
      <3>5. c = [k \in 1..Len(c) |-> c[k]]
        BY <3>3, LenProperties
      <3>6. c \in [1..Len(c) -> T]
        <4> HIDE DEF T
        <4>1. QED
          BY <3>4, <3>5
      <3>7. QED
        BY <3>2, <3>3, <3>6, SeqFromFunction, Zenon
    <2>3. /\ DOMAIN cut = 1..Len(bufs)
          /\ \A j \in 1..Len(bufs) : cut[j] = Chunks(heads[j]) /\ heads[j] \in Seq(S)
      BY <1>1, <1>3
    <2>4. chunks = FlattenSeq(cut)
      OBVIOUS
    <2>5. cut = [j \in 1..Len(bufs) |-> cut[j]]
      BY <1>1
    <2> HIDE DEF cut, heads
    <2>6. cut \in [1..Len(bufs) -> Seq(T)]
      <3> HIDE DEF T
      <3>1. \A j \in 1..Len(bufs) : cut[j] \in Seq(T)
        BY <2>2, <2>3, Zenon
      <3>2. QED
        BY <2>5, <3>1
    <2>7. cut \in [1..Len(bufs) -> Seq(Seq(S))]
      <3>1. \A j \in 1..Len(bufs) : cut[j] \in Seq(Seq(S))
        BY <2>1, <2>3, Zenon
      <3>2. QED
        BY <2>5, <3>1
    <2>8. cut \in Seq(Seq(T)) /\ cut \in Seq(Seq(Seq(S))) /\ Len(cut) = Len(bufs)
      <3> HIDE DEF T
      <3>1. QED
        BY <1>1, <2>6, <2>7, SeqFromFunction, Zenon
    <2>9. chunks \in Seq(T)
      <3> HIDE DEF T
      <3>1. QED
        BY <2>4, <2>8, FlattenType
    <2>10. \A j \in 1..Len(cut) : heads[j] = FlattenSeq(cut[j])
      BY <2>1, <2>3, <2>8
    <2>11. FlattenSeq(FlattenSeq(cut)) = FlattenSeq(heads)
      BY <1>4, <2>8, <2>10, FlattenTwice
    <2>12. QED
      BY <2>4, <2>9, <2>11
  <1>8. /\ SubSeq(rest, front, Len(rest)) \in Seq(Seq(S))
        /\ FlattenSeq(SubSeq(rest, front, Len(rest))) = FlattenSeq(rest)
    <2> DEFINE D == {j \in DOMAIN bufs : rest[j] # <<>>} \cup {Len(bufs) + 1}
    <2>1. D \in SUBSET Nat /\ D # {} /\ \A j \in D : j \in 1..(Len(bufs) + 1)
      <3>1. PICK P : P = {j \in DOMAIN bufs : rest[j] # <<>>}
        BY Zenon
      <3>2. P \subseteq 1..Len(bufs)
        BY <1>1, <3>1, Zenon
      <3>3. D = P \cup {Len(bufs) + 1}
        BY <3>1
      <3> HIDE DEF D
      <3>4. \A j \in D : j \in 1..(Len(bufs) + 1)
        BY <1>1, <3>2, <3>3
      <3>5. Len(bufs) + 1 \in D
        BY <3>3
      <3>6. D \subseteq Nat
        BY <1>1, <3>4
      <3>7. QED
        BY <3>4, <3>5, <3>6
    <2>2. front = Min(D)
      OBVIOUS
    <2>3. front \in D /\ \A j \in D : front <= j
      <3>1. PICK E : E = D
        BY Zenon
      <3> HIDE DEF D
      <3>2. E \in SUBSET Nat /\ E # {}
        BY <2>1, <3>1
      <3>3. Min(E) \in E /\ \A n_1 \in E : Min(E) <= n_1
        BY <3>2, MinOfSet
      <3>4. QED
        BY <2>2, <3>1, <3>3, Zenon
    <2>4. front \in 1..(Len(bufs) + 1) /\ front - 1 \in 0..Len(rest) /\ (front - 1) + 1 = front
      BY <1>1, <1>5, <2>1, <2>3
    <2>5. \A j \in 1..(front - 1) : rest[j] = <<>>
      <3>1. SUFFICES ASSUME NEW j \in 1..(front - 1), rest[j] # <<>> PROVE FALSE
        BY Zenon
      <3>2. j \in 1..Len(bufs) /\ ~(front <= j)
        BY <1>1, <2>4, <3>1
      <3>3. j \in D
        BY <1>1, <3>1, <3>2
      <3>4. QED
        BY <2>3, <3>2, <3>3, Zenon
    <2> HIDE DEF D
    <2>6. PICK a, b : a = SubSeq(rest, 1, front - 1) /\ b = SubSeq(rest, front, Len(rest))
      BY Zenon
    <2>7. a \in Seq(Seq(S)) /\ b \in Seq(Seq(S)) /\ a \o b = rest /\ Len(a) = front - 1
      BY <1>5, <2>4, <2>6, Halves, ZenonT(40)
    <2>8. \A j \in 1..Len(a) : a[j] = <<>>
      <3>1. \A j \in 1..(front - 1) : a[j] = rest[j]
        BY <2>4, <2>6
      <3>2. QED
        BY <2>5, <2>7, <3>1, Zenon
    <2>9. FlattenSeq(a) = <<>> /\ FlattenSeq(b) \in Seq(S)
      BY <2>7, <2>8, FlattenNothing, FlattenType, Zenon
    <2>10. FlattenSeq(rest) = FlattenSeq(a) \o FlattenSeq(b)
      BY <2>7, FlattenConcat, Zenon
    <2>11. QED
      BY <2>6, <2>7, <2>9, <2>10, ConcatEmptySeq, Zenon
  <1>9. FlattenSeq(bufs) \in Seq(S) /\ Len(FlattenSeq(bufs)) \in Nat
    BY FlattenType, LenProperties
  <1> HIDE DEF heads, T
  <1>10. FlattenSeq(chunks) \o FlattenSeq(SubSeq(rest, front, Len(rest))) = FlattenSeq(bufs)
    BY <1>6, <1>7, <1>8, Zenon DEF Splits
  <1>11. Len(FlattenSeq(chunks)) = IF n <= TotalLen(bufs) THEN n ELSE TotalLen(bufs)
    <2>1. PICK h, f : h = FlattenSeq(heads) /\ f = FlattenSeq(bufs)
      OBVIOUS
    <2>2. (n >= Len(f) => h = f) /\ (n < Len(f) => Len(h) = n) /\ Len(f) \in Nat
      BY <1>6, <1>9, <2>1 DEF Splits
    <2>3. QED
      BY <1>7, <2>1, <2>2 DEF TotalLen
  <1>12. chunks = FlushedChunks(bufs, n) /\ SubSeq(rest, front, Len(rest)) = FlushedLeft(bufs, n)
    BY DEF FlushedChunks, FlushedRest, FlushedFront, FlushedLeft
  <1>13. QED
    BY <1>7, <1>8, <1>10, <1>11, <1>12, Zenon DEF T
-----------------------------------------------------------------------------
(* What a handler does to its stream.                                       *)

Extends(a, b) == \E z \in Seq(Item) : b = a \o z

\* What stream i has handed to its session and what it still holds.
Sent(r, i) == PayloadOf(r.out, i) \o FlattenSeq(r.pending_outbound)

\* What holds of a stream between and inside its handlers.
Sound(r) ==
    /\ r.tcp_write_active => r.pending_tcp_writes # <<>>
    /\ \A k \in 1..Len(r.done) : r.done[k] <= Len(r.tcp_read_buffer)
    /\ r.closed => r.pending_outbound = <<>> /\ r.done = <<>> /\ r.reads = 0

(* From a to b a handler of stream i takes and delivers nothing, and sends  *)
(* what was pending, in order; only a close drops any of it.                *)
Moves(i, a, b) ==
    /\ b.created = a.created
    /\ a.closed => b.closed
    /\ b.queued = a.queued
    /\ b.delivered = a.delivered
    /\ b.pending_tcp_writes = a.pending_tcp_writes
    /\ Extends(Sent(b, i), Sent(a, i))
    /\ ~b.closed => Sent(b, i) = Sent(a, i)

\* Nothing of what Sound and Moves are about.
Same(a, b) ==
    /\ b.created = a.created /\ b.closed = a.closed
    /\ b.queued = a.queued /\ b.delivered = a.delivered
    /\ b.pending_tcp_writes = a.pending_tcp_writes
    /\ b.pending_outbound = a.pending_outbound /\ b.out = a.out
    /\ b.done = a.done /\ b.tcp_read_buffer = a.tcp_read_buffer

LEMMA FramesOfFrames == \A i : FramesOf(i) \subseteq Frame
  BY DEF FramesOf

LEMMA SentType ==
    ASSUME NEW i, NEW r \in StreamRec(FramesOf(i))
    PROVE  /\ r.out \in Seq(Frame) /\ PayloadOf(r.out, i) \in Seq(Item)
           /\ FlattenSeq(r.pending_outbound) \in Seq(Item) /\ Sent(r, i) \in Seq(Item)
  <1>1. r.out \in Seq(FramesOf(i)) /\ r.pending_outbound \in Seq(Seq(Item))
    BY DEF StreamRec
  <1>2. r.out \in Seq(Frame)
    BY <1>1, FramesOfFrames, SeqMonotonic
  <1>3. PayloadOf(r.out, i) \in Seq(Item) /\ FlattenSeq(r.pending_outbound) \in Seq(Item)
    BY <1>1, <1>2, PayloadType, FlattenType
  <1>4. QED
    BY <1>2, <1>3, ConcatProperties DEF Sent

LEMMA ExtendsSelf == \A a \in Seq(Item) : Extends(a, a)
  <1>1. <<>> \in Seq(Item)
    BY EmptySeq
  <1>2. \A a \in Seq(Item) : a \o <<>> = a
    BY ConcatEmptySeq
  <1>3. QED
    BY <1>1, <1>2, Zenon DEF Extends

LEMMA ExtendsTrans ==
    ASSUME NEW a \in Seq(Item), NEW b, NEW c, Extends(a, b), Extends(b, c)
    PROVE  Extends(a, c)
  <1>1. PICK y \in Seq(Item) : b = a \o y
    BY Zenon DEF Extends
  <1>2. PICK z \in Seq(Item) : c = b \o z
    BY Zenon DEF Extends
  <1>3. (a \o y) \o z = a \o (y \o z) /\ y \o z \in Seq(Item)
    BY ConcatAssociative, ConcatProperties
  <1>4. QED
    BY <1>1, <1>2, <1>3, Zenon DEF Extends

LEMMA SameMoves ==
    ASSUME NEW i, NEW a \in StreamRec(FramesOf(i)), NEW b, Same(a, b)
    PROVE  Moves(i, a, b)
  <1>1. Sent(b, i) = Sent(a, i)
    BY DEF Same, Sent
  <1>2. Extends(Sent(a, i), Sent(a, i))
    BY SentType, ExtendsSelf
  <1>3. QED
    BY <1>1, <1>2, Zenon DEF Same, Moves

LEMMA MovesTrans ==
    ASSUME NEW i, NEW a, NEW b, NEW c \in StreamRec(FramesOf(i)), Moves(i, a, b), Moves(i, b, c)
    PROVE  Moves(i, a, c)
  <1>1. Extends(Sent(c, i), Sent(a, i))
    BY SentType, ExtendsTrans DEF Moves
  <1>2. QED
    BY <1>1, Zenon DEF Moves

LEMMA StartTcpReadKeeps ==
    ASSUME NEW F, NEW r \in StreamRec(F), Sound(r)
    PROVE  /\ StartTcpRead(r) \in StreamRec(F) /\ Sound(StartTcpRead(r))
           /\ Same(r, StartTcpRead(r))
  <1> DEFINE b == [r EXCEPT !.reads = r.reads + 1]
  <1>1. b \in StreamRec(F)
    <2>1. r.reads + 1 \in Nat
      BY DEF StreamRec
    <2>2. QED
      BY <2>1, Zenon DEF StreamRec
  <1>2. Same(r, b) /\ b.tcp_write_active = r.tcp_write_active
    BY Zenon DEF StreamRec, Same
  <1> HIDE DEF b
  <1>3. CASE r.closed \/ ~r.tcp_ready \/ r.local_fin_sent \/ HasPendingOutbound(r)
    BY <1>3, Zenon DEF StartTcpRead, Same
  <1>4. CASE ~(r.closed \/ ~r.tcp_ready \/ r.local_fin_sent \/ HasPendingOutbound(r))
    <2>1. StartTcpRead(r) = b
      BY <1>4, Zenon DEF StartTcpRead, b
    <2>2. Sound(b)
      BY <1>2, <1>4, Zenon DEF Sound, Same
    <2>3. QED
      BY <1>1, <1>2, <2>1, <2>2
  <1>5. QED
    BY <1>3, <1>4
LEMMA FlushTcpWritesKeeps ==
    ASSUME NEW F, NEW r \in StreamRec(F), Sound(r)
    PROVE  /\ FlushTcpWrites(r) \in StreamRec(F) /\ Sound(FlushTcpWrites(r))
           /\ Same(r, FlushTcpWrites(r))
  <1> DEFINE b == [r EXCEPT !.tcp_write_active = TRUE]
  <1>1. b \in StreamRec(F)
    BY Zenon DEF StreamRec
  <1>2. Same(r, b) /\ b.reads = r.reads
    BY Zenon DEF StreamRec, Same
  <1> HIDE DEF b
  <1>3. CASE r.closed \/ ~r.tcp_ready \/ r.tcp_write_active \/ r.pending_tcp_writes = <<>>
    BY <1>3, Zenon DEF FlushTcpWrites, Same
  <1>4. CASE ~(r.closed \/ ~r.tcp_ready \/ r.tcp_write_active \/ r.pending_tcp_writes = <<>>)
    <2>1. FlushTcpWrites(r) = b
      BY <1>4, Zenon DEF FlushTcpWrites, b
    <2>2. Sound(b)
      BY <1>2, <1>4, Zenon DEF Sound, Same
    <2>3. QED
      BY <1>1, <1>2, <2>1, <2>2
  <1>5. QED
    BY <1>3, <1>4

LEMMA ShutdownKeeps ==
    ASSUME NEW F, NEW r \in StreamRec(F), Sound(r)
    PROVE  /\ ShutdownTcpSendIfReady(r) \in StreamRec(F) /\ Sound(ShutdownTcpSendIfReady(r))
           /\ Same(r, ShutdownTcpSendIfReady(r))
  <1> DEFINE b == [r EXCEPT !.send_shut = TRUE]
  <1>1. b \in StreamRec(F)
    BY Zenon DEF StreamRec
  <1>2. Same(r, b) /\ b.reads = r.reads /\ b.tcp_write_active = r.tcp_write_active
    BY Zenon DEF StreamRec, Same
  <1> HIDE DEF b
  <1>3. Sound(b)
    BY <1>2, Zenon DEF Sound, Same
  <1>4. ShutdownTcpSendIfReady(r) = r \/ ShutdownTcpSendIfReady(r) = b
    BY Zenon DEF ShutdownTcpSendIfReady, b
  <1>5. Same(r, r)
    BY DEF Same
  <1>6. QED
    BY <1>1, <1>2, <1>3, <1>4, <1>5

LEMMA MaybeFinishKeeps ==
    ASSUME NEW F, NEW r \in StreamRec(F), Sound(r)
    PROVE  /\ MaybeFinish(r) \in StreamRec(F) /\ Sound(MaybeFinish(r))
           /\ Same(r, MaybeFinish(r))
  <1> DEFINE b == [r EXCEPT !.close_timer = TRUE]
  <1>1. b \in StreamRec(F)
    BY Zenon DEF StreamRec
  <1>2. Same(r, b) /\ b.reads = r.reads /\ b.tcp_write_active = r.tcp_write_active
    BY Zenon DEF StreamRec, Same
  <1> HIDE DEF b
  <1>3. Sound(b)
    BY <1>2, Zenon DEF Sound, Same
  <1>4. MaybeFinish(r) = r \/ MaybeFinish(r) = b
    BY Zenon DEF MaybeFinish, b
  <1>5. Same(r, r)
    BY DEF Same
  <1>6. QED
    BY <1>1, <1>2, <1>3, <1>4, <1>5

\* A frame without payload.
LEMMA SendFrameKeeps ==
    ASSUME NEW i, NEW r \in StreamRec(FramesOf(i)), NEW f \in FramesOf(i), f.cmd # "psh", Sound(r)
    PROVE  /\ SendFrame(r, f) \in StreamRec(FramesOf(i)) /\ Sound(SendFrame(r, f))
           /\ Moves(i, r, SendFrame(r, f)) /\ SendFrame(r, f).closed = r.closed
  <1> DEFINE o == Append(r.out, f)
             b == [r EXCEPT !.out = o]
  <1>1. o \in Seq(FramesOf(i))
    <2>1. r.out \in Seq(FramesOf(i))
      BY DEF StreamRec
    <2>2. QED
      BY <2>1, AppendProperties
  <1>2. PayloadOf(o, i) = PayloadOf(r.out, i)
    <2>1. r.out \in Seq(Frame) /\ f \in Frame /\ PayloadOf(r.out, i) \in Seq(Item)
      BY SentType, FramesOfFrames
    <2>2. PICK q : q = <<f>>
      BY Zenon
    <2>6. o = r.out \o q /\ q \in Seq(Frame)
      BY <2>1, <2>2, AppendIsConcat
    <2>3. PayloadOf(o, i) = PayloadOf(r.out, i) \o PayloadOf(q, i)
      BY <2>1, <2>6, PayloadConcat
    <2>4. PayloadOf(<<f>>, i) = <<>>
      BY <2>1, PayloadOne DEF Data
    <2>5. QED
      BY <2>1, <2>2, <2>3, <2>4, ConcatEmptySeq, Zenon
  <1>3. SendFrame(r, f) = b
    BY DEF SendFrame
  <1> HIDE DEF o
  <1>4. b \in StreamRec(FramesOf(i))
    BY <1>1, Zenon DEF StreamRec
  <1>5. /\ b.created = r.created /\ b.closed = r.closed /\ b.queued = r.queued
        /\ b.delivered = r.delivered /\ b.pending_tcp_writes = r.pending_tcp_writes
        /\ b.pending_outbound = r.pending_outbound /\ b.out = o /\ b.done = r.done
        /\ b.tcp_read_buffer = r.tcp_read_buffer /\ b.reads = r.reads
        /\ b.tcp_write_active = r.tcp_write_active
    BY Zenon DEF StreamRec
  <1> HIDE DEF b
  <1>6. Sent(b, i) = Sent(r, i)
    BY <1>2, <1>5 DEF Sent
  <1>7. Extends(Sent(r, i), Sent(r, i))
    BY SentType, ExtendsSelf
  <1>8. Moves(i, r, b)
    BY <1>5, <1>6, <1>7, Zenon DEF Moves
  <1>9. Sound(b)
    BY <1>5, Zenon DEF Sound
  <1>10. QED
    BY <1>3, <1>4, <1>5, <1>8, <1>9

LEMMA SendLocalFinKeeps ==
    ASSUME NEW i \in Ids, NEW r \in StreamRec(FramesOf(i)), Sound(r)
    PROVE  /\ SendLocalFin(i, r) \in StreamRec(FramesOf(i)) /\ Sound(SendLocalFin(i, r))
           /\ Moves(i, r, SendLocalFin(i, r)) /\ SendLocalFin(i, r).closed = r.closed
  <1> DEFINE b == [r EXCEPT !.local_fin_sent = TRUE]
  <1>1. b \in StreamRec(FramesOf(i))
    BY Zenon DEF StreamRec
  <1>2. Same(r, b) /\ b.reads = r.reads /\ b.tcp_write_active = r.tcp_write_active
    BY Zenon DEF StreamRec, Same
  <1> HIDE DEF b
  <1>3. Sound(b) /\ b.closed = r.closed
    BY <1>2, Zenon DEF Sound, Same
  <1>4. Fin(i) \in FramesOf(i) /\ Fin(i).cmd # "psh"
    BY DEF Fin, FramesOf, Frame
  <1>5. Moves(i, r, b)
    BY <1>2, SameMoves
  <1>6. /\ SendFrame(b, Fin(i)) \in StreamRec(FramesOf(i)) /\ Sound(SendFrame(b, Fin(i)))
        /\ Moves(i, b, SendFrame(b, Fin(i))) /\ SendFrame(b, Fin(i)).closed = r.closed
    BY <1>1, <1>3, <1>4, SendFrameKeeps
  <1>7. Moves(i, r, SendFrame(b, Fin(i)))
    BY <1>1, <1>5, <1>6, MovesTrans
  <1>8. Moves(i, r, r)
    BY SameMoves DEF Same
  <1>9. SendLocalFin(i, r) = r \/ SendLocalFin(i, r) = SendFrame(b, Fin(i))
    BY Zenon DEF SendLocalFin, b
  <1>10. QED
    BY <1>6, <1>7, <1>8, <1>9

LEMMA CloseKeeps ==
    ASSUME NEW i \in Ids, NEW r \in StreamRec(FramesOf(i)), Sound(r)
    PROVE  /\ Close(i, r) \in StreamRec(FramesOf(i)) /\ Sound(Close(i, r))
           /\ Moves(i, r, Close(i, r)) /\ Close(i, r).closed
  <1> DEFINE a == SendLocalFin(i, r)
             b == [a EXCEPT !.closed = TRUE, !.close_timer = FALSE, !.reads = 0, !.done = <<>>,
                            !.tcp_read_buffer = <<>>, !.pending_outbound = <<>>]
  <1>1. a \in StreamRec(FramesOf(i)) /\ Sound(a) /\ Moves(i, r, a)
    BY SendLocalFinKeeps
  <1>2. Close(i, r) = IF r.closed THEN r ELSE b
    BY DEF Close
  <1> HIDE DEF a
  <1>3. <<>> \in Seq(Item) /\ <<>> \in Seq(Seq(Item)) /\ <<>> \in Seq(Int) /\ Len(<<>>) = 0
    BY EmptySeq
  <1>4. b \in StreamRec(FramesOf(i))
    BY <1>1, <1>3, Zenon DEF StreamRec
  <1>5. /\ b.created = a.created /\ b.closed /\ b.queued = a.queued
        /\ b.delivered = a.delivered /\ b.pending_tcp_writes = a.pending_tcp_writes
        /\ b.pending_outbound = <<>> /\ b.out = a.out /\ b.done = <<>>
        /\ b.tcp_read_buffer = <<>> /\ b.reads = 0
        /\ b.tcp_write_active = a.tcp_write_active
    BY <1>1, Zenon DEF StreamRec
  <1> HIDE DEF b
  <1>6. Sound(b)
    <2>1. \A k \in 1..Len(b.done) : FALSE
      BY <1>3, <1>5
    <2>2. QED
      BY <1>1, <1>5, <2>1, Zenon DEF Sound
  <1>7. Moves(i, a, b)
    <2>1. Sent(b, i) = PayloadOf(a.out, i) \o <<>> /\ Sent(a, i) = PayloadOf(a.out, i) \o FlattenSeq(a.pending_outbound)
      BY <1>5, FlattenEmpty, Zenon DEF Sent
    <2>2. PayloadOf(a.out, i) \in Seq(Item) /\ FlattenSeq(a.pending_outbound) \in Seq(Item)
      BY <1>1, SentType
    <2>3. PayloadOf(a.out, i) \o <<>> = PayloadOf(a.out, i)
      BY <2>2, ConcatEmptySeq
    <2>4. Extends(Sent(b, i), Sent(a, i))
      BY <2>1, <2>2, <2>3 DEF Extends
    <2>5. QED
      BY <1>5, <2>4, Zenon DEF Moves
  <1>8. Moves(i, r, b)
    BY <1>1, <1>4, <1>7, MovesTrans
  <1>9. Moves(i, r, r)
    BY SameMoves DEF Same
  <1>10. QED
    BY <1>2, <1>4, <1>5, <1>6, <1>8, <1>9
LEMMA ModulusFacts ==
    /\ Modulus \in Nat /\ Modulus > 0 /\ 0 \in Counter
    /\ \A n \in Int : n % Modulus \in Counter
    /\ InitWindow \in Counter /\ StreamBuf \in Counter /\ Max({1, StreamBuf}) = StreamBuf
  <1>1. Modulus \in Nat /\ StreamBuf \in Nat \ {0} /\ InitWindow \in Nat \ {0} /\ 2 * StreamBuf < Modulus /\ 2 * InitWindow < Modulus
    BY SmuxAssumption
  <1>2. Modulus > 0 /\ 0 \in Counter /\ InitWindow \in Counter /\ StreamBuf \in Counter
    BY <1>1 DEF Counter
  <1>3. \A n \in Int : n % Modulus \in Counter
    BY <1>1, <1>2 DEF Counter
  <1>4. Max({1, StreamBuf}) = StreamBuf
    BY <1>1, MinMax
  <1>5. QED
    BY <1>1, <1>2, <1>3, <1>4

LEMMA MarkKeeps ==
    ASSUME NEW s, NEW i \in Ids, NEW r \in StreamRec(FramesOf(i)), NEW bytes \in Nat, Sound(r)
    PROVE  /\ MarkPayloadConsumed(s, i, r, bytes) \in StreamRec(FramesOf(i))
           /\ Sound(MarkPayloadConsumed(s, i, r, bytes))
           /\ Moves(i, r, MarkPayloadConsumed(s, i, r, bytes))
           /\ MarkPayloadConsumed(s, i, r, bytes).closed = r.closed
  <1> DEFINE read == (r.num_read + bytes) % Modulus
             unacked == (r.incr + bytes) % Modulus
             due == unacked >= Max({1, StreamBuf \div 2}) \/ read = bytes
             b == [r EXCEPT !.num_read = read, !.incr = IF due THEN 0 ELSE unacked]
             f == Upd(i, read, Max({1, StreamBuf}))
  <1>1. read \in Counter /\ unacked \in Counter /\ 0 \in Counter /\ Max({1, StreamBuf}) \in Counter
    <2>1. r.num_read \in Int /\ r.incr \in Int
      BY ModulusFacts DEF StreamRec, Counter
    <2>2. r.num_read + bytes \in Int /\ r.incr + bytes \in Int
      BY <2>1
    <2>3. QED
      BY <2>2, ModulusFacts
  <1>2. \/ MarkPayloadConsumed(s, i, r, bytes) = r
        \/ MarkPayloadConsumed(s, i, r, bytes) = b
        \/ MarkPayloadConsumed(s, i, r, bytes) = SendFrame(b, f)
    BY Zenon DEF MarkPayloadConsumed
  <1>3. f \in FramesOf(i) /\ f.cmd # "psh"
    BY <1>1 DEF Upd, FramesOf, Frame
  <1> HIDE DEF read, unacked, due, f
  <1>4. b \in StreamRec(FramesOf(i))
    <2>1. CASE due
      BY <1>1, <2>1, Zenon DEF StreamRec
    <2>2. CASE ~due
      BY <1>1, <2>2, Zenon DEF StreamRec
    <2>3. QED
      BY <2>1, <2>2
  <1>5. Same(r, b) /\ b.reads = r.reads /\ b.tcp_write_active = r.tcp_write_active
    BY Zenon DEF StreamRec, Same
  <1> HIDE DEF b
  <1>6. Sound(b) /\ b.closed = r.closed /\ Moves(i, r, b)
    <2>1. Sound(b) /\ b.closed = r.closed
      BY <1>5, Zenon DEF Sound, Same
    <2>2. QED
      BY <1>5, <2>1, SameMoves
  <1>7. /\ SendFrame(b, f) \in StreamRec(FramesOf(i)) /\ Sound(SendFrame(b, f))
        /\ Moves(i, b, SendFrame(b, f)) /\ SendFrame(b, f).closed = r.closed
    BY <1>3, <1>4, <1>6, SendFrameKeeps
  <1>8. Moves(i, r, SendFrame(b, f))
    BY <1>6, <1>7, MovesTrans
  <1>9. Moves(i, r, r)
    BY SameMoves DEF Same
  <1>10. QED
    BY <1>2, <1>4, <1>6, <1>7, <1>8, <1>9, Zenon

LEMMA TryFlushKeeps ==
    ASSUME NEW s, NEW i \in Ids, NEW r \in StreamRec(FramesOf(i)), Sound(r)
    PROVE  /\ TryFlushOutbound(s, i, r) \in StreamRec(FramesOf(i)) /\ Sound(TryFlushOutbound(s, i, r))
           /\ Moves(i, r, TryFlushOutbound(s, i, r)) /\ TryFlushOutbound(s, i, r).closed = r.closed
  <1> DEFINE bufs == r.pending_outbound
             total == TotalLen(bufs)
             n == IF Version[s] = 2 THEN Max({0, Min({total, AvailablePeerWindow(r)})}) ELSE total
             chunks == FlattenSeq([j \in DOMAIN bufs |-> Chunks(SubSeq(bufs[j], 1, Share(bufs, n, j)))])
             rest == [j \in DOMAIN bufs |-> SubSeq(bufs[j], Share(bufs, n, j) + 1, Len(bufs[j]))]
             front == Min({j \in DOMAIN bufs : rest[j] # <<>>} \cup {Len(bufs) + 1})
             psh == [k \in DOMAIN chunks |-> Psh(i, chunks[k])]
             o == r.out \o psh
             w == (r.num_written + n) % Modulus
             left == SubSeq(rest, front, Len(rest))
             b == [r EXCEPT !.out = o, !.num_written = w, !.pending_outbound = left]
  <1>1. TryFlushOutbound(s, i, r) = IF r.closed THEN r ELSE b
    BY Zenon DEF TryFlushOutbound
  <1>2. bufs \in Seq(Seq(Item)) /\ r.num_written \in Int /\ r.peer_consumed \in Int /\ r.peer_window \in Int
    BY ModulusFacts DEF StreamRec, Counter
  <1>3. n \in Nat
    <2>1. total \in Nat
      BY <1>2, FlattenType, LenProperties DEF TotalLen
    <2>2. AvailablePeerWindow(r) \in Int
      <3>1. (r.num_written - r.peer_consumed) % Modulus \in Int
        BY <1>2, ModulusFacts
      <3>2. QED
        BY <1>2, <3>1 DEF AvailablePeerWindow
    <2>3. PICK l, d : l = total /\ d = AvailablePeerWindow(r)
      OBVIOUS
    <2>4. l \in Nat /\ d \in Int
      BY <2>1, <2>2, <2>3
    <2>5. Max({0, Min({l, d})}) \in Nat
      BY <2>4, ShareCases
    <2> HIDE DEF total
    <2>6. QED
      BY <2>3, <2>4, <2>5
  <1>4. w \in Counter
    <2> HIDE DEF n
    <2>1. r.num_written + n \in Int
      BY <1>2, <1>3
    <2>2. QED
      BY <2>1, ModulusFacts
  <1>5. /\ chunks \in Seq({x \in Seq(Item) : Len(x) \in 1..FrameSize})
        /\ left \in Seq(Seq(Item))
        /\ FlattenSeq(chunks) \o FlattenSeq(left) = FlattenSeq(bufs)
    <2>1. chunks = FlushedChunks(bufs, n) /\ left = FlushedLeft(bufs, n)
      BY Zenon DEF FlushedChunks, FlushedRest, FlushedFront, FlushedLeft
    <2> HIDE DEF n, bufs, chunks, left
    <2>2. QED
      BY <1>2, <1>3, <2>1, FlushSplits, Zenon
  <1> HIDE DEF n, chunks, left, w
  <1>6. chunks \in Seq(Seq(Item))
    <2>1. {x \in Seq(Item) : Len(x) \in 1..FrameSize} \subseteq Seq(Item)
      OBVIOUS
    <2>2. QED
      BY <1>5, <2>1, SeqMonotonic
  <1>7. psh \in Seq(FramesOf(i)) /\ PayloadOf(psh, i) = FlattenSeq(chunks)
    BY <1>6, PayloadPsh
  <1> HIDE DEF psh
  <1>8. o \in Seq(FramesOf(i)) /\ PayloadOf(o, i) = PayloadOf(r.out, i) \o FlattenSeq(chunks)
    <2>1. r.out \in Seq(FramesOf(i))
      BY DEF StreamRec
    <2>2. r.out \in Seq(Frame) /\ psh \in Seq(Frame)
      BY <1>7, <2>1, FramesOfFrames, SeqMonotonic
    <2>3. PICK p : p = r.out
      OBVIOUS
    <2>4. PayloadOf(p \o psh, i) = PayloadOf(p, i) \o PayloadOf(psh, i)
      BY <2>2, <2>3, PayloadConcat
    <2>5. o \in Seq(FramesOf(i))
      BY <1>7, <2>1, ConcatProperties
    <2>6. QED
      BY <1>7, <2>3, <2>4, <2>5
  <1> HIDE DEF o
  <1>9. b \in StreamRec(FramesOf(i))
    BY <1>4, <1>5, <1>8, Zenon DEF StreamRec
  <1>10. /\ b.created = r.created /\ b.closed = r.closed /\ b.queued = r.queued
         /\ b.delivered = r.delivered /\ b.pending_tcp_writes = r.pending_tcp_writes
         /\ b.pending_outbound = left /\ b.out = o /\ b.done = r.done
         /\ b.tcp_read_buffer = r.tcp_read_buffer /\ b.reads = r.reads
         /\ b.tcp_write_active = r.tcp_write_active
    BY Zenon DEF StreamRec
  <1> HIDE DEF b
  <1>11. Sent(b, i) = Sent(r, i)
    <2>1. PICK x, y, z : x = PayloadOf(r.out, i) /\ y = FlattenSeq(chunks) /\ z = FlattenSeq(left)
      OBVIOUS
    <2>2. x \in Seq(Item) /\ y \in Seq(Item) /\ z \in Seq(Item)
      BY <1>5, <1>6, <2>1, SentType, FlattenType
    <2>3. (x \o y) \o z = x \o (y \o z)
      BY <2>2, ConcatAssociative
    <2>4. y \o z = FlattenSeq(r.pending_outbound)
      BY <1>5, <2>1
    <2>5. Sent(b, i) = (x \o y) \o z
      BY <1>8, <1>10, <2>1, Zenon DEF Sent
    <2>6. Sent(r, i) = x \o FlattenSeq(r.pending_outbound)
      BY <2>1 DEF Sent
    <2>7. QED
      BY <2>3, <2>4, <2>5, <2>6, Zenon
  <1>12. Extends(Sent(r, i), Sent(r, i))
    BY SentType, ExtendsSelf
  <1>13. Moves(i, r, b)
    BY <1>10, <1>11, <1>12, Zenon DEF Moves
  <1>14. ASSUME ~r.closed PROVE Sound(b)
    BY <1>10, <1>14, Zenon DEF Sound
  <1>15. Moves(i, r, r)
    BY SameMoves DEF Same
  <1>16. QED
    BY <1>1, <1>9, <1>10, <1>13, <1>14, <1>15, Zenon
-----------------------------------------------------------------------------
(* The handlers.                                                            *)

\* What stream r has delivered or is about to deliver.
Held(r) == r.delivered \o FlattenSeq(r.pending_tcp_writes)

\* As Moves, of a handler that queues x and may deliver what it holds.
Steps(i, a, b, x) ==
    /\ b.created = a.created
    /\ a.closed => b.closed /\ x = <<>>
    /\ b.queued = a.queued \o x
    /\ Held(b) = Held(a)
    /\ Extends(Sent(b, i), Sent(a, i) \o x)
    /\ ~b.closed => Sent(b, i) = Sent(a, i) \o x

LEMMA MovesSteps ==
    ASSUME NEW i, NEW a \in StreamRec(FramesOf(i)), NEW b, Moves(i, a, b)
    PROVE  Steps(i, a, b, <<>>)
  <1>1. a.queued \o <<>> = a.queued
    <2>1. a.queued \in Seq(Item)
      BY DEF StreamRec
    <2>2. QED
      BY <2>1, ConcatEmptySeq
  <1>2. Sent(a, i) \o <<>> = Sent(a, i)
    BY SentType, ConcatEmptySeq
  <1>3. QED
    BY <1>1, <1>2, Zenon DEF Moves, Steps, Held

LEMMA StepsMoves ==
    ASSUME NEW i, NEW a, NEW b, NEW c \in StreamRec(FramesOf(i)), NEW x,
           Steps(i, a, b, x), Moves(i, b, c)
    PROVE  Steps(i, a, c, x)
  <1>1. Extends(Sent(c, i), Sent(a, i) \o x)
    <2>1. Sent(c, i) \in Seq(Item)
      BY SentType
    <2>2. Extends(Sent(c, i), Sent(b, i)) /\ Extends(Sent(b, i), Sent(a, i) \o x)
      BY DEF Steps, Moves
    <2>3. QED
      BY <2>1, <2>2, ExtendsTrans
  <1>2. QED
    BY <1>1, Zenon DEF Moves, Steps, Held

LEMMA MovesThenSteps ==
    ASSUME NEW i, NEW a, NEW b, NEW c, NEW x,
           Moves(i, a, b), ~b.closed, Steps(i, b, c, x)
    PROVE  Steps(i, a, c, x)
  BY Zenon DEF Moves, Steps, Held

LEMMA DoneTail ==
    ASSUME NEW i, NEW a \in StreamRec(FramesOf(i)), Sound(a), a.done # <<>>,
           NEW r, r = [a EXCEPT !.done = Tail(@)]
    PROVE  /\ r \in StreamRec(FramesOf(i)) /\ Sound(r) /\ Moves(i, a, r)
           /\ ~r.closed /\ r.tcp_read_buffer = a.tcp_read_buffer
           /\ Head(a.done) \in Int /\ Head(a.done) <= Len(r.tcp_read_buffer)
  <1>1. a.done \in Seq(Int)
    BY DEF StreamRec
  <1>2. PICK d : d = Tail(a.done)
    BY Zenon
  <1>3. /\ d \in Seq(Int) /\ Head(a.done) = a.done[1] /\ a.done[1] \in Int /\ Len(d) = Len(a.done) - 1
        /\ \A k \in 1..Len(d) : d[k] = a.done[k + 1] /\ Len(a.done) \in Nat \ {0}
    BY <1>1, <1>2, HeadTailProperties, EmptySeq
  <1>4. r = [a EXCEPT !.done = d]
    BY <1>2
  <1>5. r \in StreamRec(FramesOf(i))
    BY <1>3, <1>4, ZenonT(40) DEF StreamRec
  <1>6. /\ r.created = a.created /\ r.closed = a.closed /\ r.queued = a.queued
        /\ r.delivered = a.delivered /\ r.pending_tcp_writes = a.pending_tcp_writes
        /\ r.pending_outbound = a.pending_outbound /\ r.out = a.out /\ r.done = d
        /\ r.tcp_read_buffer = a.tcp_read_buffer /\ r.reads = a.reads
        /\ r.tcp_write_active = a.tcp_write_active
    BY <1>4, Zenon DEF StreamRec
  <1>7. ~a.closed
    BY DEF Sound
  <1>8. Sent(r, i) = Sent(a, i)
    BY <1>6 DEF Sent
  <1>9. Extends(Sent(a, i), Sent(a, i))
    BY SentType, ExtendsSelf
  <1>10. Moves(i, a, r)
    BY <1>6, <1>8, <1>9, Zenon DEF Moves
  <1>11. Len(a.done) \in Nat \ {0}
    BY <1>1, EmptySeq
  <1>12. ASSUME NEW k \in 1..Len(d) PROVE d[k] <= Len(r.tcp_read_buffer)
    <2>1. k + 1 \in 1..Len(a.done) /\ d[k] = a.done[k + 1]
      BY <1>3, <1>11, SMTT(30)
    <2>2. QED
      BY <1>6, <2>1 DEF Sound
  <1>13. Sound(r)
    BY <1>6, <1>7, <1>12, Zenon DEF Sound
  <1>14. Head(a.done) <= Len(r.tcp_read_buffer)
    <2>1. 1 \in 1..Len(a.done)
      BY <1>11
    <2>2. QED
      BY <1>3, <1>6, <2>1 DEF Sound
  <1>15. QED
    BY <1>3, <1>5, <1>6, <1>7, <1>10, <1>13, <1>14

LEMMA QueueSteps ==
    ASSUME NEW i, NEW r \in StreamRec(FramesOf(i)), Sound(r), ~r.closed, NEW x \in Seq(Item)
    PROVE  /\ QueueOutbound(r, x) \in StreamRec(FramesOf(i)) /\ Sound(QueueOutbound(r, x))
           /\ Steps(i, r, QueueOutbound(r, x), x) /\ ~QueueOutbound(r, x).closed
  <1>1. PICK p, q : p = Append(r.pending_outbound, x) /\ q = r.queued \o x
    BY Zenon
  <1>2. r.pending_outbound \in Seq(Seq(Item)) /\ r.queued \in Seq(Item)
    BY DEF StreamRec
  <1>3. p \in Seq(Seq(Item)) /\ q \in Seq(Item) /\ FlattenSeq(p) = FlattenSeq(r.pending_outbound) \o x
    <2>1. p \in Seq(Seq(Item))
      BY <1>1, <1>2, AppendProperties
    <2>2. q \in Seq(Item)
      BY <1>1, <1>2, ConcatProperties
    <2>3. FlattenSeq(p) = FlattenSeq(r.pending_outbound) \o x
      BY <1>1, <1>2, FlattenAppend, Zenon
    <2>4. QED
      BY <2>1, <2>2, <2>3
  <1>4. PICK b : b = [r EXCEPT !.pending_outbound = p, !.queued = q]
    OBVIOUS
  <1>5. QueueOutbound(r, x) = b
    BY <1>1, <1>4 DEF QueueOutbound
  <1>6. b \in StreamRec(FramesOf(i))
    BY <1>3, <1>4, Zenon DEF StreamRec
  <1>7. /\ b.created = r.created /\ b.closed = r.closed /\ b.queued = q
        /\ b.delivered = r.delivered /\ b.pending_tcp_writes = r.pending_tcp_writes
        /\ b.pending_outbound = p /\ b.out = r.out /\ b.done = r.done
        /\ b.tcp_read_buffer = r.tcp_read_buffer /\ b.reads = r.reads
        /\ b.tcp_write_active = r.tcp_write_active
    BY <1>4, Zenon DEF StreamRec
  <1>8. Sound(b)
    BY <1>7, Zenon DEF Sound
  <1>9. Sent(b, i) = Sent(r, i) \o x
    <2>1. PICK y, z : y = PayloadOf(r.out, i) /\ z = FlattenSeq(r.pending_outbound)
      OBVIOUS
    <2>2. y \in Seq(Item) /\ z \in Seq(Item)
      BY <2>1, SentType
    <2>3. (y \o z) \o x = y \o (z \o x)
      BY <2>2, ConcatAssociative
    <2>4. Sent(b, i) = y \o (z \o x) /\ Sent(r, i) = y \o z
      BY <1>3, <1>7, <2>1, Zenon DEF Sent
    <2>5. QED
      BY <2>3, <2>4, Zenon
  <1>10. Extends(Sent(b, i), Sent(b, i))
    BY <1>6, SentType, ExtendsSelf
  <1>11. Steps(i, r, b, x)
    BY <1>1, <1>7, <1>9, <1>10, Zenon DEF Steps, Held
  <1>12. QED
    BY <1>5, <1>6, <1>7, <1>8, <1>11
\* A payload is written to the application.
LEMMA WrittenSteps ==
    ASSUME NEW i, NEW r \in StreamRec(FramesOf(i)), Sound(r), ~r.tcp_write_active,
           r.pending_tcp_writes # <<>>, NEW b,
           b = [r EXCEPT !.pending_tcp_writes = Tail(@), !.delivered = @ \o Head(r.pending_tcp_writes)]
    PROVE  /\ b \in StreamRec(FramesOf(i)) /\ Sound(b)
           /\ Steps(i, r, b, <<>>) /\ b.closed = r.closed
           /\ Len(Head(r.pending_tcp_writes)) \in Nat
  <1>1. PICK w, f, d, p : /\ w = r.pending_tcp_writes /\ f = Head(w) /\ p = Tail(w)
                          /\ d = r.delivered \o f
    BY Zenon
  <1>2. r.pending_tcp_writes \in Seq(Seq(Item)) /\ r.delivered \in Seq(Item) /\ r.queued \in Seq(Item)
    BY DEF StreamRec
  <1>3. f \in Seq(Item) /\ p \in Seq(Seq(Item)) /\ FlattenSeq(w) = f \o FlattenSeq(p)
    <2>1. w \in Seq(Seq(Item)) /\ w # <<>>
      BY <1>1, <1>2
    <2>2. QED
      BY <1>1, <2>1, HeadThenTail, FlattenHeadTail, Zenon
  <1>4. d \in Seq(Item) /\ FlattenSeq(p) \in Seq(Item) /\ Len(f) \in Nat
    <2>1. d \in Seq(Item)
      BY <1>1, <1>2, <1>3, ConcatProperties
    <2>2. QED
      BY <1>3, <2>1, FlattenType, LenProperties
  <1>5. b = [r EXCEPT !.pending_tcp_writes = p, !.delivered = d]
    BY <1>1
  <1>6. b \in StreamRec(FramesOf(i))
    BY <1>3, <1>4, <1>5, ZenonT(40) DEF StreamRec
  <1>7. /\ b.created = r.created /\ b.closed = r.closed /\ b.queued = r.queued
        /\ b.delivered = d /\ b.pending_tcp_writes = p
        /\ b.pending_outbound = r.pending_outbound /\ b.out = r.out /\ b.done = r.done
        /\ b.tcp_read_buffer = r.tcp_read_buffer /\ b.reads = r.reads
        /\ b.tcp_write_active = r.tcp_write_active
    BY <1>5, Zenon DEF StreamRec
  <1>8. Sound(b)
    BY <1>7, Zenon DEF Sound
  <1>9. Held(b) = Held(r)
    <2>1. PICK x, y : x = r.delivered /\ y = FlattenSeq(p)
      OBVIOUS
    <2>2. x \in Seq(Item) /\ y \in Seq(Item)
      BY <1>2, <1>4, <2>1
    <2>3. (x \o f) \o y = x \o (f \o y)
      BY <1>3, <2>2, ConcatAssociative
    <2>4. Held(b) = (x \o f) \o y /\ Held(r) = x \o (f \o y)
      BY <1>1, <1>3, <1>7, <2>1, Zenon DEF Held
    <2>5. QED
      BY <2>3, <2>4
  <1>10. Sent(b, i) = Sent(r, i) /\ Sent(r, i) \in Seq(Item)
    BY <1>7, SentType DEF Sent
  <1>11. Extends(Sent(r, i), Sent(r, i)) /\ Sent(r, i) \o <<>> = Sent(r, i) /\ r.queued \o <<>> = r.queued
    BY <1>2, <1>10, ExtendsSelf, ConcatEmptySeq
  <1>12. Steps(i, r, b, <<>>)
    BY <1>7, <1>9, <1>10, <1>11, Zenon DEF Steps
  <1>13. QED
    BY <1>1, <1>4, <1>6, <1>7, <1>8, <1>12

\* A payload arrives.
LEMMA OnDataKeeps ==
    ASSUME NEW i, NEW r \in StreamRec(FramesOf(i)), Sound(r), NEW x \in Seq(Item)
    PROVE  /\ OnData(i, r, x) \in StreamRec(FramesOf(i)) /\ Sound(OnData(i, r, x))
           /\ OnData(i, r, x).created = r.created /\ OnData(i, r, x).closed = r.closed
           /\ OnData(i, r, x).queued = r.queued
           /\ OnData(i, r, x).delivered = r.delivered
           /\ Held(OnData(i, r, x)) = Held(r) \o x
           /\ Sent(OnData(i, r, x), i) = Sent(r, i)
  <1>1. PICK p : p = Append(r.pending_tcp_writes, x)
    BY Zenon
  <1>2. r.pending_tcp_writes \in Seq(Seq(Item)) /\ r.delivered \in Seq(Item)
    BY DEF StreamRec
  <1>3. p \in Seq(Seq(Item)) /\ p # <<>> /\ FlattenSeq(p) = FlattenSeq(r.pending_tcp_writes) \o x
    <2>1. p \in Seq(Seq(Item)) /\ p # <<>>
      BY <1>1, <1>2, AppendProperties
    <2>2. QED
      BY <1>1, <1>2, <2>1, FlattenAppend, Zenon
  <1>4. PICK b : b = [r EXCEPT !.pending_tcp_writes = p]
    BY Zenon
  <1>5. b \in StreamRec(FramesOf(i))
    BY <1>3, <1>4, Zenon DEF StreamRec
  <1>6. /\ b.created = r.created /\ b.closed = r.closed /\ b.queued = r.queued
        /\ b.delivered = r.delivered /\ b.pending_tcp_writes = p
        /\ b.pending_outbound = r.pending_outbound /\ b.out = r.out /\ b.done = r.done
        /\ b.tcp_read_buffer = r.tcp_read_buffer /\ b.reads = r.reads
    BY <1>4, Zenon DEF StreamRec
  <1>7. Sound(b)
    BY <1>3, <1>6, Zenon DEF Sound
  <1>8. Held(b) = Held(r) \o x
    <2>1. PICK y, z : y = r.delivered /\ z = FlattenSeq(r.pending_tcp_writes)
      OBVIOUS
    <2>2. y \in Seq(Item) /\ z \in Seq(Item)
      BY <1>2, <2>1, FlattenType
    <2>3. (y \o z) \o x = y \o (z \o x)
      BY <2>2, ConcatAssociative
    <2>4. Held(b) = y \o (z \o x) /\ Held(r) = y \o z
      BY <1>3, <1>6, <2>1, Zenon DEF Held
    <2>5. QED
      BY <2>3, <2>4, Zenon
  <1>9. OnData(i, r, x) = FlushTcpWrites(b)
    BY <1>1, <1>4 DEF OnData
  <1>10. FlushTcpWrites(b) \in StreamRec(FramesOf(i)) /\ Sound(FlushTcpWrites(b)) /\ Same(b, FlushTcpWrites(b))
    BY <1>5, <1>7, FlushTcpWritesKeeps
  <1>11. Held(FlushTcpWrites(b)) = Held(b) /\ Sent(FlushTcpWrites(b), i) = Sent(r, i)
    BY <1>6, <1>10 DEF Same, Held, Sent
  <1>12. QED
    BY <1>6, <1>8, <1>9, <1>10, <1>11, Zenon DEF Same

LEMMA OnFinKeeps ==
    ASSUME NEW i, NEW r \in StreamRec(FramesOf(i)), Sound(r)
    PROVE  OnFin(r) \in StreamRec(FramesOf(i)) /\ Sound(OnFin(r)) /\ Moves(i, r, OnFin(r))
  <1>1. PICK a : a = [r EXCEPT !.remote_fin_received = TRUE]
    BY Zenon
  <1>2. a \in StreamRec(FramesOf(i))
    BY <1>1, Zenon DEF StreamRec
  <1>3. Same(r, a) /\ a.reads = r.reads /\ a.tcp_write_active = r.tcp_write_active
    BY <1>1, Zenon DEF StreamRec, Same
  <1>4. Sound(a)
    BY <1>3, Zenon DEF Sound, Same
  <1>5. PICK b : b = ShutdownTcpSendIfReady(a)
    OBVIOUS
  <1>6. b \in StreamRec(FramesOf(i)) /\ Sound(b) /\ Same(a, b)
    BY <1>2, <1>4, <1>5, ShutdownKeeps
  <1>7. PICK c : c = MaybeFinish(b)
    OBVIOUS
  <1>8. c \in StreamRec(FramesOf(i)) /\ Sound(c) /\ Same(b, c)
    BY <1>6, <1>7, MaybeFinishKeeps
  <1>9. Same(r, c) /\ Same(r, r)
    BY <1>3, <1>6, <1>8 DEF Same
  <1>10. OnFin(r) = r \/ OnFin(r) = c
    BY <1>1, <1>5, <1>7 DEF OnFin
  <1>11. Moves(i, r, r) /\ Moves(i, r, c)
    BY <1>9, SameMoves
  <1>12. QED
    BY <1>8, <1>10, <1>11

LEMMA OnUpdateKeeps ==
    ASSUME NEW s, NEW i \in Ids, NEW r \in StreamRec(FramesOf(i)), Sound(r),
           NEW c \in Counter, NEW w \in Counter
    PROVE  /\ OnUpdate(s, i, r, c, w) \in StreamRec(FramesOf(i)) /\ Sound(OnUpdate(s, i, r, c, w))
           /\ Moves(i, r, OnUpdate(s, i, r, c, w))
  <1>1. PICK a : a = [r EXCEPT !.peer_consumed = c, !.peer_window = w]
    OBVIOUS
  <1>2. a \in StreamRec(FramesOf(i))
    BY <1>1, Zenon DEF StreamRec
  <1>3. Same(r, a) /\ a.reads = r.reads /\ a.tcp_write_active = r.tcp_write_active
    BY <1>1, Zenon DEF StreamRec, Same
  <1>4. Sound(a) /\ Moves(i, r, a)
    <2>1. Sound(a)
      BY <1>3, Zenon DEF Sound, Same
    <2>2. QED
      BY <1>3, <2>1, SameMoves
  <1>5. PICK b : b = TryFlushOutbound(s, i, a)
    OBVIOUS
  <1>6. b \in StreamRec(FramesOf(i)) /\ Sound(b) /\ Moves(i, a, b)
    BY <1>2, <1>4, <1>5, TryFlushKeeps
  <1>7. Moves(i, r, b)
    BY <1>4, <1>6, MovesTrans
  <1>8. PICK d : d = StartTcpRead(b)
    OBVIOUS
  <1>9. d \in StreamRec(FramesOf(i)) /\ Sound(d) /\ Moves(i, b, d)
    <2>1. d \in StreamRec(FramesOf(i)) /\ Sound(d) /\ Same(b, d)
      BY <1>6, <1>8, StartTcpReadKeeps
    <2>2. QED
      BY <1>6, <2>1, SameMoves
  <1>10. Moves(i, r, d)
    BY <1>7, <1>9, MovesTrans
  <1>11. OnUpdate(s, i, r, c, w) = b \/ OnUpdate(s, i, r, c, w) = d
    BY <1>1, <1>5, <1>8 DEF OnUpdate
  <1>12. QED
    BY <1>6, <1>7, <1>9, <1>10, <1>11
-----------------------------------------------------------------------------
(* Types, and the steps that handle one stream.                             *)

Types ==
    /\ stream \in [Side -> [Ids -> StreamRec(Frame)]]
    /\ net \in [Side -> Seq(Frame)]
    /\ session \in [Side -> [closed : BOOLEAN, next_stream_id : Int]]
    /\ app \in [Side -> [Ids -> [sent : Nat, taken : Nat, eof : BOOLEAN, gone : BOOLEAN]]]
    /\ \A s \in Side, i \in Ids :
          /\ stream[s][i].out = <<>> /\ Sound(stream[s][i])
          /\ ~stream[s][i].created => stream[s][i] = NoStream

\* One handler of stream i of side s, which queues x.
Handled(s, i, b, x) ==
    /\ stream[s][i].created
    /\ b \in StreamRec(FramesOf(i)) /\ Sound(b) /\ x \in Seq(Item)
    /\ Steps(i, stream[s][i], b, x)
    /\ StreamStep(s, i, b)

LEMMA StreamHere ==
    ASSUME Types, NEW s \in Side, NEW i \in Ids
    PROVE  /\ stream[s][i] \in StreamRec(Frame) /\ stream[s][i] \in StreamRec(FramesOf(i))
           /\ stream[s][i].out = <<>> /\ Sound(stream[s][i])
           /\ ~stream[s][i].created => stream[s][i] = NoStream
  <1>1. PICK r : r = stream[s][i]
    OBVIOUS
  <1>2. r \in StreamRec(Frame) /\ r.out = <<>> /\ Sound(r) /\ (~r.created => r = NoStream)
    BY <1>1 DEF Types
  <1>3. <<>> \in Seq(FramesOf(i))
    BY EmptySeq
  <1>4. r \in StreamRec(FramesOf(i))
    BY <1>2, <1>3 DEF StreamRec
  <1>5. QED
    BY <1>1, <1>2, <1>4

LEMMA NoStreamIdle ==
    /\ NoStream.reads = 0 /\ NoStream.done = <<>> /\ ~NoStream.tcp_write_active
    /\ ~NoStream.close_timer /\ NoStream.phase = "idle" /\ ~NoStream.created /\ ~NoStream.closed
    /\ NoStream.queued = <<>> /\ NoStream.delivered = <<>> /\ NoStream.out = <<>>
    /\ NoStream.pending_outbound = <<>> /\ NoStream.pending_tcp_writes = <<>>
  BY DEF NoStream

LEMMA ReadHandlerSteps ==
    ASSUME Types, NEW s \in Side, NEW i \in Ids, ReadHandler(s, i)
    PROVE  \E b, x : Handled(s, i, b, x)
  <1>1. PICK a : a = stream[s][i]
    OBVIOUS
  <1>2. PICK r : r = [a EXCEPT !.done = Tail(@)]
    BY Zenon
  <1>3. PICK result : result = Head(a.done)
    OBVIOUS
  <1>4. a \in StreamRec(FramesOf(i)) /\ Sound(a) /\ (~a.created => a = NoStream)
    BY <1>1, StreamHere
  <1>5. a.done # <<>>
    BY <1>1 DEF ReadHandler
  <1>6. a.created
    BY <1>4, <1>5, NoStreamIdle
  <1>7. /\ r \in StreamRec(FramesOf(i)) /\ Sound(r) /\ Moves(i, a, r)
        /\ ~r.closed /\ result \in Int /\ result <= Len(r.tcp_read_buffer)
    BY <1>2, <1>3, <1>4, <1>5, DoneTail, Zenon
  <1>8. <<>> \in Seq(Item)
    BY EmptySeq
  <1>9. \/ /\ result > 0
           /\ \E queued \in {QueueOutbound(r, SubSeq(r.tcp_read_buffer, 1, result))} :
              \E flushed \in {TryFlushOutbound(s, i, queued)} :
                 StreamStep(s, i, IF HasPendingOutbound(flushed) THEN flushed ELSE StartTcpRead(flushed))
        \/ /\ result = EndOfStream
           /\ StreamStep(s, i, MaybeFinish(SendLocalFin(i, r)))
        \/ /\ result = ReadFailed
           /\ StreamStep(s, i, Close(i, r))
    BY <1>1, <1>2, <1>3 DEF ReadHandler
  <1>10. CASE /\ result > 0
              /\ \E queued \in {QueueOutbound(r, SubSeq(r.tcp_read_buffer, 1, result))} :
                 \E flushed \in {TryFlushOutbound(s, i, queued)} :
                    StreamStep(s, i, IF HasPendingOutbound(flushed) THEN flushed ELSE StartTcpRead(flushed))
    <2>1. PICK x : x = SubSeq(r.tcp_read_buffer, 1, result)
      BY Zenon
    <2>2. x \in Seq(Item)
      <3>1. r.tcp_read_buffer \in Seq(Item)
        BY <1>7 DEF StreamRec
      <3>2. result \in 0..Len(r.tcp_read_buffer)
        BY <1>7, <1>10, <3>1, LenProperties
      <3>3. QED
        BY <2>1, <3>1, <3>2, Halves
    <2>3. PICK q : q = QueueOutbound(r, x)
      OBVIOUS
    <2>4. PICK f : f = TryFlushOutbound(s, i, q)
      OBVIOUS
    <2>5. q \in StreamRec(FramesOf(i)) /\ Sound(q) /\ Steps(i, r, q, x)
      BY <1>7, <2>2, <2>3, QueueSteps
    <2>6. Steps(i, a, q, x)
      BY <1>7, <2>5, MovesThenSteps
    <2>7. f \in StreamRec(FramesOf(i)) /\ Sound(f) /\ Moves(i, q, f)
      BY <2>4, <2>5, TryFlushKeeps
    <2>8. Steps(i, a, f, x)
      BY <2>6, <2>7, StepsMoves
    <2>9. PICK g : g = StartTcpRead(f)
      OBVIOUS
    <2>10. g \in StreamRec(FramesOf(i)) /\ Sound(g) /\ Moves(i, f, g)
      <3>1. g \in StreamRec(FramesOf(i)) /\ Sound(g) /\ Same(f, g)
        BY <2>7, <2>9, StartTcpReadKeeps
      <3>2. QED
        BY <2>7, <3>1, SameMoves
    <2>11. Steps(i, a, g, x)
      BY <2>8, <2>10, StepsMoves
    <2>12. StreamStep(s, i, f) \/ StreamStep(s, i, g)
      <3>1. StreamStep(s, i, IF HasPendingOutbound(f) THEN f ELSE g)
        BY <1>10, <2>1, <2>3, <2>4, <2>9
      <3>2. QED
        BY <3>1, Zenon
    <2>13. Handled(s, i, f, x) \/ Handled(s, i, g, x)
      BY <1>1, <1>6, <2>2, <2>7, <2>8, <2>10, <2>11, <2>12, Zenon DEF Handled
    <2>14. QED
      BY <2>13, Zenon
  <1>11. CASE /\ result = EndOfStream
              /\ StreamStep(s, i, MaybeFinish(SendLocalFin(i, r)))
    <2>1. PICK b : b = SendLocalFin(i, r)
      OBVIOUS
    <2>2. PICK c : c = MaybeFinish(b)
      OBVIOUS
    <2>3. b \in StreamRec(FramesOf(i)) /\ Sound(b) /\ Moves(i, r, b)
      BY <1>7, <2>1, SendLocalFinKeeps
    <2>4. c \in StreamRec(FramesOf(i)) /\ Sound(c) /\ Same(b, c)
      BY <2>2, <2>3, MaybeFinishKeeps
    <2>5. Moves(i, a, c)
      BY <1>7, <2>3, <2>4, SameMoves, MovesTrans
    <2>6. Steps(i, a, c, <<>>)
      BY <1>4, <2>5, MovesSteps
    <2>7. Handled(s, i, c, <<>>)
      BY <1>1, <1>6, <1>8, <1>11, <2>1, <2>2, <2>4, <2>6, Zenon DEF Handled
    <2>8. QED
      BY <2>7, Zenon
  <1>12. CASE result = ReadFailed /\ StreamStep(s, i, Close(i, r))
    <2>1. PICK b : b = Close(i, r)
      OBVIOUS
    <2>2. b \in StreamRec(FramesOf(i)) /\ Sound(b) /\ Moves(i, r, b)
      BY <1>7, <2>1, CloseKeeps
    <2>3. Steps(i, a, b, <<>>)
      BY <1>4, <1>7, <2>2, MovesTrans, MovesSteps
    <2>4. Handled(s, i, b, <<>>)
      BY <1>1, <1>6, <1>8, <1>12, <2>1, <2>2, <2>3, Zenon DEF Handled
    <2>5. QED
      BY <2>4, Zenon
  <1>13. QED
    BY <1>9, <1>10, <1>11, <1>12, Zenon

LEMMA CloseTimerSteps ==
    ASSUME Types, NEW s \in Side, NEW i \in Ids, CloseTimer(s, i)
    PROVE  \E b, x : Handled(s, i, b, x)
  <1>1. PICK a, b : a = stream[s][i] /\ b = Close(i, a)
    OBVIOUS
  <1>2. a \in StreamRec(FramesOf(i)) /\ Sound(a) /\ (~a.created => a = NoStream)
    BY <1>1, StreamHere
  <1>3. a.created
    <2>1. a.close_timer
      BY <1>1 DEF CloseTimer
    <2>2. QED
      BY <1>2, <2>1, NoStreamIdle
  <1>4. b \in StreamRec(FramesOf(i)) /\ Sound(b) /\ Moves(i, a, b)
    BY <1>1, <1>2, CloseKeeps
  <1>5. Steps(i, a, b, <<>>) /\ <<>> \in Seq(Item)
    BY <1>2, <1>4, MovesSteps, EmptySeq
  <1>6. StreamStep(s, i, b)
    BY <1>1 DEF CloseTimer
  <1>7. Handled(s, i, b, <<>>)
    BY <1>1, <1>3, <1>4, <1>5, <1>6, Zenon DEF Handled
  <1>8. QED
    BY <1>7, Zenon

LEMMA WriteHandlerSteps ==
    ASSUME Types, NEW s \in Side, NEW i \in Ids, WriteHandler(s, i)
    PROVE  \E b, x : Handled(s, i, b, x)
  <1>1. PICK a : a = stream[s][i]
    OBVIOUS
  <1>2. PICK r : r = [a EXCEPT !.tcp_write_active = FALSE]
    BY Zenon
  <1>3. PICK front : front = Head(r.pending_tcp_writes)
    OBVIOUS
  <1>4. PICK w : w = [r EXCEPT !.pending_tcp_writes = Tail(@), !.delivered = @ \o front]
    OBVIOUS
  <1>5. a \in StreamRec(FramesOf(i)) /\ Sound(a) /\ (~a.created => a = NoStream)
    BY <1>1, StreamHere
  <1>6. a.tcp_write_active
    BY <1>1 DEF WriteHandler
  <1>7. a.created /\ a.pending_tcp_writes # <<>>
    BY <1>5, <1>6, NoStreamIdle DEF Sound
  <1>8. r \in StreamRec(FramesOf(i)) /\ Sound(r) /\ Moves(i, a, r) /\ ~r.tcp_write_active
        /\ r.pending_tcp_writes # <<>> /\ Same(a, r)
    <2>1. r \in StreamRec(FramesOf(i))
      BY <1>2, <1>5, Zenon DEF StreamRec
    <2>2. Same(a, r) /\ r.reads = a.reads /\ ~r.tcp_write_active
      BY <1>2, <1>5, Zenon DEF StreamRec, Same
    <2>3. Sound(r)
      BY <1>5, <2>2, Zenon DEF Sound, Same
    <2>4. Moves(i, a, r)
      BY <1>5, <2>2, SameMoves
    <2>5. QED
      BY <1>7, <2>1, <2>2, <2>3, <2>4, Zenon DEF Same
  <1>9. <<>> \in Seq(Item)
    BY EmptySeq
  <1>10. PICK f : f = SendLocalFin(i, r)
    OBVIOUS
  <1>11. PICK m : m = MaybeFinish(f)
    OBVIOUS
  <1>12. PICK c : c = Close(i, r)
    OBVIOUS
  <1>13. PICK n : n = FlushTcpWrites(MarkPayloadConsumed(s, i, w, Len(front)))
    OBVIOUS
  <1>14. PICK o : o = MaybeFinish(ShutdownTcpSendIfReady(n))
    OBVIOUS
  <1>15. StreamStep(s, i, o) \/ StreamStep(s, i, m) \/ StreamStep(s, i, c)
    BY <1>1, <1>2, <1>3, <1>4, <1>10, <1>11, <1>12, <1>13, <1>14 DEF WriteHandler
  <1>16. Handled(s, i, o, <<>>) \/ ~StreamStep(s, i, o)
    <2>1. w \in StreamRec(FramesOf(i)) /\ Sound(w) /\ Steps(i, r, w, <<>>) /\ w.closed = r.closed
          /\ Len(front) \in Nat
      BY <1>3, <1>4, <1>8, WrittenSteps, Zenon
    <2>2. Steps(i, a, w, <<>>)
      BY <1>8, <2>1, Zenon DEF Same, Steps, Held, Sent
    <2>3. PICK y : y = MarkPayloadConsumed(s, i, w, Len(front))
      OBVIOUS
    <2>4. y \in StreamRec(FramesOf(i)) /\ Sound(y) /\ Moves(i, w, y)
      BY <2>1, <2>3, MarkKeeps
    <2>5. n \in StreamRec(FramesOf(i)) /\ Sound(n) /\ Same(y, n)
      BY <1>13, <2>3, <2>4, FlushTcpWritesKeeps
    <2>6. PICK z : z = ShutdownTcpSendIfReady(n)
      OBVIOUS
    <2>7. z \in StreamRec(FramesOf(i)) /\ Sound(z) /\ Same(n, z)
      BY <2>5, <2>6, ShutdownKeeps
    <2>8. o \in StreamRec(FramesOf(i)) /\ Sound(o) /\ Same(z, o)
      BY <1>14, <2>6, <2>7, MaybeFinishKeeps
    <2>9. Moves(i, y, o)
      <3>1. Same(y, o)
        BY <2>5, <2>7, <2>8 DEF Same
      <3>2. QED
        BY <2>4, <3>1, SameMoves
    <2>10. Steps(i, a, o, <<>>)
      BY <2>2, <2>4, <2>8, <2>9, StepsMoves
    <2>11. QED
      BY <1>1, <1>7, <1>9, <2>8, <2>10, Zenon DEF Handled
  <1>17. Handled(s, i, m, <<>>) \/ ~StreamStep(s, i, m)
    <2>1. f \in StreamRec(FramesOf(i)) /\ Sound(f) /\ Moves(i, r, f)
      BY <1>8, <1>10, SendLocalFinKeeps
    <2>2. m \in StreamRec(FramesOf(i)) /\ Sound(m) /\ Same(f, m)
      BY <1>11, <2>1, MaybeFinishKeeps
    <2>3. Moves(i, f, m)
      BY <2>1, <2>2, SameMoves
    <2>4. Moves(i, a, m)
      BY <1>8, <2>1, <2>2, <2>3, MovesTrans
    <2>5. Steps(i, a, m, <<>>)
      BY <1>5, <2>4, MovesSteps
    <2>6. QED
      BY <1>1, <1>7, <1>9, <2>2, <2>5, Zenon DEF Handled
  <1>18. Handled(s, i, c, <<>>) \/ ~StreamStep(s, i, c)
    <2>1. c \in StreamRec(FramesOf(i)) /\ Sound(c) /\ Moves(i, r, c)
      BY <1>8, <1>12, CloseKeeps
    <2>2. Moves(i, a, c)
      BY <1>8, <2>1, MovesTrans
    <2>3. Steps(i, a, c, <<>>)
      BY <1>5, <2>2, MovesSteps
    <2>4. QED
      BY <1>1, <1>7, <1>9, <2>1, <2>3, Zenon DEF Handled
  <1>19. QED
    BY <1>15, <1>16, <1>17, <1>18, Zenon
LEMMA ResolveDoneSteps ==
    ASSUME Types, NEW i \in Ids, ResolveDone(i)
    PROVE  \E b, x : Handled("server", i, b, x)
  <1>1. PICK a : a = stream["server"][i]
    OBVIOUS
  <1>2. PICK p, r : p = [a EXCEPT !.phase = "connect"] /\ r = [a EXCEPT !.phase = "idle"]
    BY Zenon
  <1>3. PICK c : c = Close(i, r)
    OBVIOUS
  <1>4. a \in StreamRec(FramesOf(i)) /\ Sound(a) /\ (~a.created => a = NoStream)
    BY <1>1, StreamHere DEF Side
  <1>5. a.created
    <2>1. a.phase = "resolve"
      BY <1>1 DEF ResolveDone
    <2>2. QED
      BY <1>4, <2>1, NoStreamIdle
  <1>6. StreamStep("server", i, p) \/ StreamStep("server", i, c)
    BY <1>1, <1>2, <1>3 DEF ResolveDone
  <1>7. p \in StreamRec(FramesOf(i)) /\ r \in StreamRec(FramesOf(i))
    BY <1>2, <1>4, Zenon DEF StreamRec
  <1>8. /\ Same(a, p) /\ p.reads = a.reads /\ p.tcp_write_active = a.tcp_write_active
        /\ Same(a, r) /\ r.reads = a.reads /\ r.tcp_write_active = a.tcp_write_active
    BY <1>2, <1>4, Zenon DEF StreamRec, Same
  <1>9. Sound(p) /\ Sound(r)
    BY <1>4, <1>8, Zenon DEF Sound, Same
  <1>10. c \in StreamRec(FramesOf(i)) /\ Sound(c) /\ Moves(i, r, c)
    BY <1>3, <1>7, <1>9, CloseKeeps
  <1>11. Moves(i, a, p) /\ Moves(i, a, c)
    BY <1>4, <1>8, <1>10, SameMoves, MovesTrans
  <1>12. Steps(i, a, p, <<>>) /\ Steps(i, a, c, <<>>) /\ <<>> \in Seq(Item)
    BY <1>4, <1>11, MovesSteps, EmptySeq
  <1>13. Handled("server", i, p, <<>>) \/ Handled("server", i, c, <<>>)
    BY <1>1, <1>5, <1>6, <1>7, <1>9, <1>10, <1>12, Zenon DEF Handled
  <1>14. QED
    BY <1>13, Zenon

LEMMA ConnectDoneSteps ==
    ASSUME Types, NEW i \in Ids, ConnectDone(i)
    PROVE  UNCHANGED <<stream, net>> \/ \E b, x : Handled("server", i, b, x)
  <1>1. PICK a : a = stream["server"][i]
    OBVIOUS
  <1>2. PICK r : r = [a EXCEPT !.phase = "idle"]
    BY Zenon
  <1>3. PICK ready : ready = [r EXCEPT !.tcp_ready = TRUE]
    BY Zenon
  <1>4. PICK c : c = Close(i, r)
    OBVIOUS
  <1>5. PICK f : f = FlushTcpWrites(ready)
    OBVIOUS
  <1>6. PICK g : g = StartTcpRead(f)
    OBVIOUS
  <1>7. PICK h : h = ShutdownTcpSendIfReady(g)
    OBVIOUS
  <1>8. a \in StreamRec(FramesOf(i)) /\ Sound(a) /\ (~a.created => a = NoStream)
    BY <1>1, StreamHere DEF Side
  <1>9. a.created
    <2>1. a.phase = "connect"
      BY <1>1 DEF ConnectDone
    <2>2. QED
      BY <1>8, <2>1, NoStreamIdle
  <1>10. UNCHANGED <<stream, net>> \/ StreamStep("server", i, h) \/ StreamStep("server", i, c)
    BY <1>1, <1>2, <1>3, <1>4, <1>5, <1>6, <1>7, Zenon DEF ConnectDone
  <1>11. r \in StreamRec(FramesOf(i)) /\ Same(a, r) /\ Sound(r)
    <2>1. r \in StreamRec(FramesOf(i))
      BY <1>2, <1>8, Zenon DEF StreamRec
    <2>2. Same(a, r) /\ r.reads = a.reads /\ r.tcp_write_active = a.tcp_write_active
      BY <1>2, <1>8, Zenon DEF StreamRec, Same
    <2>3. QED
      BY <1>8, <2>1, <2>2, Zenon DEF Sound, Same
  <1>12. ready \in StreamRec(FramesOf(i)) /\ Same(r, ready) /\ Sound(ready)
    <2>1. ready \in StreamRec(FramesOf(i))
      BY <1>3, <1>11, Zenon DEF StreamRec
    <2>2. Same(r, ready) /\ ready.reads = r.reads /\ ready.tcp_write_active = r.tcp_write_active
      BY <1>3, <1>11, Zenon DEF StreamRec, Same
    <2>3. QED
      BY <1>11, <2>1, <2>2, Zenon DEF Sound, Same
  <1>13. f \in StreamRec(FramesOf(i)) /\ Same(ready, f) /\ Sound(f)
    BY <1>5, <1>12, FlushTcpWritesKeeps
  <1>14. g \in StreamRec(FramesOf(i)) /\ Same(f, g) /\ Sound(g)
    BY <1>6, <1>13, StartTcpReadKeeps
  <1>15. h \in StreamRec(FramesOf(i)) /\ Same(g, h) /\ Sound(h)
    BY <1>7, <1>14, ShutdownKeeps
  <1>16. Same(a, h)
    BY <1>11, <1>12, <1>13, <1>14, <1>15 DEF Same
  <1>17. c \in StreamRec(FramesOf(i)) /\ Sound(c) /\ Moves(i, r, c)
    BY <1>4, <1>11, CloseKeeps
  <1>18. Moves(i, a, h) /\ Moves(i, a, c)
    BY <1>8, <1>11, <1>16, <1>17, SameMoves, MovesTrans
  <1>19. Steps(i, a, h, <<>>) /\ Steps(i, a, c, <<>>) /\ <<>> \in Seq(Item)
    BY <1>8, <1>18, MovesSteps, EmptySeq
  <1>20. \/ UNCHANGED <<stream, net>>
         \/ Handled("server", i, h, <<>>) \/ Handled("server", i, c, <<>>)
    BY <1>1, <1>9, <1>10, <1>15, <1>17, <1>19, Zenon DEF Handled
  <1>21. QED
    BY <1>20, Zenon
-----------------------------------------------------------------------------
(* One direction of a stream: what `from` was given, and where it is.       *)

(* `wire` is the payload on its way, toOpen and fromOpen say whether the    *)
(* sessions of the two ends are open.                                       *)
Balanced(to, from, wire, toOpen, fromOpen) ==
    /\ Extends(Held(to), from.queued)
    /\ ~to.closed /\ toOpen =>
          /\ Extends(Held(to) \o (wire \o FlattenSeq(from.pending_outbound)), from.queued)
          /\ ~from.closed /\ fromOpen =>
                Held(to) \o (wire \o FlattenSeq(from.pending_outbound)) = from.queued

LEMMA HeldType ==
    ASSUME NEW F, NEW r \in StreamRec(F)
    PROVE  /\ Held(r) \in Seq(Item) /\ r.queued \in Seq(Item)
           /\ FlattenSeq(r.pending_outbound) \in Seq(Item)
           /\ r.delivered \in Seq(Item) /\ FlattenSeq(r.pending_tcp_writes) \in Seq(Item)
  <1>1. /\ r.delivered \in Seq(Item) /\ r.pending_tcp_writes \in Seq(Seq(Item))
        /\ r.pending_outbound \in Seq(Seq(Item)) /\ r.queued \in Seq(Item)
    BY DEF StreamRec
  <1>2. FlattenSeq(r.pending_tcp_writes) \in Seq(Item) /\ FlattenSeq(r.pending_outbound) \in Seq(Item)
    BY <1>1, FlattenType
  <1>3. Held(r) \in Seq(Item)
    BY <1>1, <1>2, ConcatProperties DEF Held
  <1>4. QED
    BY <1>1, <1>2, <1>3

\* By name, so that a proof cites the instances it needs.
Associates(a, b, c) == (a \o b) \o c = a \o (b \o c)

LEMMA ItemsAssociate == \A a \in Seq(Item), b \in Seq(Item), c \in Seq(Item) : Associates(a, b, c)
  BY ConcatAssociative DEF Associates

\* The same bytes, cut elsewhere.
Regroups(h, w, p, o, x, z, p2) ==
    p \o x = (o \o p2) \o z => (h \o (w \o p)) \o x = (h \o ((w \o o) \o p2)) \o z

LEMMA Regroup ==
    ASSUME NEW h \in Seq(Item), NEW w \in Seq(Item), NEW p \in Seq(Item), NEW o \in Seq(Item),
           NEW x \in Seq(Item), NEW z \in Seq(Item), NEW p2 \in Seq(Item)
    PROVE  Regroups(h, w, p, o, x, z, p2)
  <1>1. w \o p \in Seq(Item) /\ o \o p2 \in Seq(Item) /\ w \o o \in Seq(Item)
    BY ConcatProperties
  <1>2. (w \o o) \o p2 \in Seq(Item)
    BY <1>1, ConcatProperties
  <1>3. /\ Associates(h, w \o p, x) /\ Associates(w, p, x)
        /\ Associates(w, o \o p2, z) /\ Associates(w, o, p2)
        /\ Associates(h, (w \o o) \o p2, z)
    BY <1>1, <1>2, ItemsAssociate, Zenon
  <1>4. QED
    BY <1>3, Zenon DEF Associates, Regroups

\* The sending end queues x and sends o, both sessions open.
LEMMA BalancedSend ==
    ASSUME NEW F, NEW to \in StreamRec(F), NEW a \in StreamRec(F), NEW b \in StreamRec(F),
           NEW w \in Seq(Item), NEW o \in Seq(Item), NEW x \in Seq(Item),
           Balanced(to, a, w, TRUE, TRUE),
           a.closed => b.closed /\ x = <<>>,
           b.queued = a.queued \o x,
           Extends(o \o FlattenSeq(b.pending_outbound), FlattenSeq(a.pending_outbound) \o x),
           ~b.closed => o \o FlattenSeq(b.pending_outbound) = FlattenSeq(a.pending_outbound) \o x
    PROVE  Balanced(to, b, w \o o, TRUE, TRUE)
  <1>1. PICK h, p, p2, u : /\ h = Held(to) /\ p = FlattenSeq(a.pending_outbound)
                           /\ p2 = FlattenSeq(b.pending_outbound) /\ u = a.queued
    OBVIOUS
  <1>2. h \in Seq(Item) /\ p \in Seq(Item) /\ p2 \in Seq(Item) /\ u \in Seq(Item)
    BY <1>1, HeldType
  <1>3. /\ Extends(h, u)
        /\ ~to.closed => Extends(h \o (w \o p), u) /\ (~a.closed => h \o (w \o p) = u)
        /\ b.queued = u \o x /\ Extends(o \o p2, p \o x)
        /\ ~b.closed => o \o p2 = p \o x
    BY <1>1, Zenon DEF Balanced
  <1>4. Extends(h, u \o x)
    <2>1. Extends(u, u \o x)
      BY Zenon DEF Extends
    <2>2. QED
      BY <1>2, <1>3, <2>1, ExtendsTrans
  <1>5. ASSUME ~to.closed
        PROVE  /\ Extends(h \o ((w \o o) \o p2), u \o x)
               /\ ~b.closed => h \o ((w \o o) \o p2) = u \o x
    <2>1. PICK z \in Seq(Item) : p \o x = (o \o p2) \o z
      BY <1>3, Zenon DEF Extends
    <2>2. (h \o (w \o p)) \o x = (h \o ((w \o o) \o p2)) \o z
      <3>1. Regroups(h, w, p, o, x, z, p2)
        BY <1>2, Regroup, Zenon
      <3>2. QED
        BY <2>1, <3>1, Zenon DEF Regroups
    <2>3. PICK v : v = h \o ((w \o o) \o p2)
      BY Zenon
    <2>4. v \in Seq(Item) /\ h \o (w \o p) \in Seq(Item)
      <3>1. w \o o \in Seq(Item) /\ w \o p \in Seq(Item)
        BY <1>2, ConcatProperties
      <3>2. (w \o o) \o p2 \in Seq(Item)
        BY <1>2, <3>1, ConcatProperties
      <3>3. v \in Seq(Item)
        BY <1>2, <2>3, <3>2, ConcatProperties
      <3>4. h \o (w \o p) \in Seq(Item)
        BY <1>2, <3>1, ConcatProperties
      <3>5. QED
        BY <3>3, <3>4
    <2>5. CASE ~a.closed
      <3>1. u \o x = v \o z
        BY <1>3, <1>5, <2>2, <2>3, <2>5, Zenon
      <3>2. Extends(v, u \o x)
        BY <3>1, Zenon DEF Extends
      <3>3. ASSUME ~b.closed PROVE v = u \o x
        <4>1. (o \o p2) \o <<>> = o \o p2 /\ <<>> \in Seq(Item)
          <5>1. o \o p2 \in Seq(Item)
            BY <1>2, ConcatProperties
          <5>2. QED
            BY <5>1, ConcatEmptySeq, EmptySeq
        <4>2. p \o x = (o \o p2) \o <<>>
          BY <1>3, <3>3, <4>1, Zenon
        <4>3. (h \o (w \o p)) \o x = v \o <<>>
          <5>1. Regroups(h, w, p, o, x, <<>>, p2)
            BY <1>2, <4>1, Regroup, Zenon
          <5>2. QED
            BY <2>3, <4>2, <5>1, Zenon DEF Regroups
        <4>4. v \o <<>> = v
          BY <2>4, ConcatEmptySeq
        <4>5. QED
          BY <1>3, <1>5, <2>5, <4>3, <4>4, Zenon
      <3>4. QED
        BY <2>3, <3>2, <3>3, Zenon
    <2>6. CASE a.closed
      <3>1. x = <<>> /\ b.closed /\ u \o x = u /\ (h \o (w \o p)) \o x = h \o (w \o p)
        BY <1>2, <2>4, <2>6, ConcatEmptySeq, Zenon
      <3>2. h \o (w \o p) = v \o z
        BY <2>2, <2>3, <3>1, Zenon
      <3>3. Extends(v, h \o (w \o p))
        BY <3>2, Zenon DEF Extends
      <3>4. Extends(v, u)
        BY <1>3, <1>5, <2>4, <3>3, ExtendsTrans
      <3>5. QED
        BY <2>3, <3>1, <3>4
    <2>7. QED
      BY <2>5, <2>6, Zenon
  <1>6. QED
    BY <1>1, <1>3, <1>4, <1>5, Zenon DEF Balanced

\* The receiving end takes d from the wire, or nothing.
LEMMA BalancedReceive ==
    ASSUME NEW F, NEW a \in StreamRec(F), NEW b \in StreamRec(F), NEW from \in StreamRec(F),
           NEW w \in Seq(Item), NEW w2 \in Seq(Item), NEW d \in Seq(Item),
           NEW toOpen, NEW fromOpen, Balanced(a, from, w, toOpen, fromOpen),
           ~b.closed => ~a.closed,
           \/ Held(b) = Held(a) /\ (w2 = w \/ b.closed)
           \/ ~a.closed /\ toOpen /\ Held(b) = Held(a) \o d /\ w = d \o w2
    PROVE  Balanced(b, from, w2, toOpen, fromOpen)
  <1>1. CASE Held(b) = Held(a) /\ (w2 = w \/ b.closed)
    BY <1>1, Zenon DEF Balanced
  <1>2. CASE ~a.closed /\ toOpen /\ Held(b) = Held(a) \o d /\ w = d \o w2
    <2>1. PICK h, p, u : h = Held(a) /\ p = FlattenSeq(from.pending_outbound) /\ u = from.queued
      OBVIOUS
    <2>2. h \in Seq(Item) /\ p \in Seq(Item)
      BY <2>1, HeldType
    <2>3. /\ Extends(h \o (w \o p), u)
          /\ ~from.closed /\ fromOpen => h \o (w \o p) = u
      BY <1>2, <2>1, Zenon DEF Balanced
    <2>4. w2 \o p \in Seq(Item) /\ h \o d \in Seq(Item)
      BY <2>2, ConcatProperties
    <2>5. Associates(d, w2, p) /\ Associates(h, d, w2 \o p)
      BY <2>2, <2>4, ItemsAssociate, Zenon
    <2>6. h \o (w \o p) = (h \o d) \o (w2 \o p)
      BY <1>2, <2>5, Zenon DEF Associates
    <2>7. Extends(h \o d, (h \o d) \o (w2 \o p))
      BY <2>4, Zenon DEF Extends
    <2>8. Extends(h \o d, u)
      BY <2>3, <2>4, <2>6, <2>7, ExtendsTrans, Zenon
    <2>9. QED
      BY <1>2, <2>1, <2>3, <2>6, <2>8, Zenon DEF Balanced
  <1>3. QED
    BY <1>1, <1>2

\* The sending session closes: part of what was on the wire still arrives.
LEMMA BalancedClosed ==
    ASSUME NEW F, NEW to \in StreamRec(F), NEW a \in StreamRec(F), NEW b \in StreamRec(F),
           NEW w \in Seq(Item), NEW w2 \in Seq(Item), NEW z \in Seq(Item), w = w2 \o z,
           NEW toOpen, NEW fromOpen, Balanced(to, a, w, toOpen, fromOpen),
           b.queued = a.queued, b.pending_outbound = <<>>
    PROVE  Balanced(to, b, w2, toOpen, FALSE)
  <1>1. PICK h, p, u : h = Held(to) /\ p = FlattenSeq(a.pending_outbound) /\ u = a.queued
    OBVIOUS
  <1>2. h \in Seq(Item) /\ p \in Seq(Item)
    BY <1>1, HeldType
  <1>3. /\ Extends(h, u)
        /\ ~to.closed /\ toOpen => Extends(h \o (w \o p), u)
    BY <1>1, Zenon DEF Balanced
  <1>4. FlattenSeq(b.pending_outbound) = <<>> /\ w2 \o <<>> = w2
    BY FlattenEmpty, ConcatEmptySeq
  <1>5. z \o p \in Seq(Item) /\ h \o w2 \in Seq(Item)
    BY <1>2, ConcatProperties
  <1>6. Associates(w2, z, p) /\ Associates(h, w2, z \o p)
    BY <1>2, <1>5, ItemsAssociate, Zenon
  <1>7. h \o (w \o p) = (h \o w2) \o (z \o p)
    BY <1>6, Zenon DEF Associates
  <1>8. Extends(h \o w2, (h \o w2) \o (z \o p))
    BY <1>5, Zenon DEF Extends
  <1>9. ~to.closed /\ toOpen => Extends(h \o w2, u)
    BY <1>3, <1>5, <1>7, <1>8, ExtendsTrans, Zenon
  <1>10. QED
    BY <1>1, <1>3, <1>4, <1>9, Zenon DEF Balanced

\* What a handler does to the outgoing direction of its stream: it queues x.
Conveys(i, a, b, x) ==
    /\ a.closed => b.closed /\ x = <<>>
    /\ b.queued = a.queued \o x
    /\ Extends(Sent(b, i), FlattenSeq(a.pending_outbound) \o x)
    /\ ~b.closed => Sent(b, i) = FlattenSeq(a.pending_outbound) \o x

LEMMA BalancedSender ==
    ASSUME NEW i, NEW to \in StreamRec(Frame), NEW a \in StreamRec(Frame), NEW b \in StreamRec(Frame),
           NEW w \in Seq(Item), NEW x \in Seq(Item), NEW toOpen \in BOOLEAN, NEW fromOpen \in BOOLEAN,
           Balanced(to, a, w, toOpen, fromOpen), Conveys(i, a, b, x), Sound(b),
           ~fromOpen => a.closed
    PROVE  Balanced(to, b, IF toOpen /\ fromOpen THEN w \o PayloadOf(b.out, i) ELSE w, toOpen, fromOpen)
  <1>1. PayloadOf(b.out, i) \in Seq(Item) /\ a.queued \in Seq(Item)
    <2>1. b.out \in Seq(Frame) /\ a.queued \in Seq(Item)
      BY DEF StreamRec
    <2>2. QED
      BY <2>1, PayloadType
  <1>2. PICK o \in Seq(Item) : o = PayloadOf(b.out, i)
    BY <1>1
  <1>3. CASE toOpen /\ fromOpen
    <2>1. /\ Extends(o \o FlattenSeq(b.pending_outbound), FlattenSeq(a.pending_outbound) \o x)
          /\ ~b.closed => o \o FlattenSeq(b.pending_outbound) = FlattenSeq(a.pending_outbound) \o x
          /\ a.closed => b.closed /\ x = <<>>
          /\ b.queued = a.queued \o x
      BY <1>2, Zenon DEF Conveys, Sent
    <2>2. Balanced(to, a, w, TRUE, TRUE)
      BY <1>3, Zenon
    <2>3. Balanced(to, b, w \o o, TRUE, TRUE)
      BY <2>1, <2>2, BalancedSend, Zenon
    <2>4. QED
      BY <1>2, <1>3, <2>3, Zenon
  <1>4. CASE ~toOpen
    <2>1. Extends(Held(to), a.queued) /\ b.queued = a.queued \o x
      BY Zenon DEF Balanced, Conveys
    <2>2. Extends(a.queued, b.queued)
      BY <2>1, Zenon DEF Extends
    <2>3. Held(to) \in Seq(Item)
      BY HeldType
    <2>4. Extends(Held(to), b.queued)
      BY <2>1, <2>2, <2>3, ExtendsTrans
    <2>5. QED
      BY <1>4, <2>4, Zenon DEF Balanced
  <1>5. CASE ~fromOpen
    <2>1. a.closed /\ b.closed /\ x = <<>>
      BY <1>5, Zenon DEF Conveys
    <2>2. b.queued = a.queued
      <3>1. a.queued \o <<>> = a.queued
        BY <1>1, ConcatEmptySeq
      <3>2. QED
        BY <2>1, <3>1, Zenon DEF Conveys
    <2>3. b.pending_outbound = <<>>
      BY <2>1 DEF Sound
    <2>4. w = w \o <<>> /\ <<>> \in Seq(Item)
      BY ConcatEmptySeq, EmptySeq
    <2>5. Balanced(to, b, w, toOpen, FALSE)
      BY <2>2, <2>3, <2>4, BalancedClosed, Zenon
    <2>6. QED
      BY <1>5, <2>5, Zenon
  <1>6. QED
    BY <1>3, <1>4, <1>5
-----------------------------------------------------------------------------
(* What a step does to the two directions of every stream.                  *)

Cleared(b) == [b EXCEPT !.out = <<>>]

\* Stream i of side s becomes b, and q is what is still on its way to s.
Effect(s, i, b, q) ==
    /\ stream' = [stream EXCEPT ![s][i] = Cleared(b)]
    /\ net' = [net EXCEPT ![s] = q, ![Peer(s)] = Transmitted(s, @, b.out)]

\* No step opens a session again, and this one closes none.
KeepsSessions == \A t \in Side : session'[t].closed = session[t].closed

Conserved ==
    \A s \in Side, i \in Ids :
        Balanced(stream[s][i], stream[Peer(s)][i], PayloadOf(net[s], i),
                 ~session[s].closed, ~session[Peer(s)].closed)

LEMMA Sides == \A s \in Side : Peer(s) \in Side /\ Peer(s) # s /\ Peer(Peer(s)) = s
                               /\ \A t \in Side : t = s \/ t = Peer(s)
  BY DEF Side, Peer

LEMMA ClearedFacts ==
    ASSUME NEW F, NEW b \in StreamRec(F)
    PROVE  /\ Cleared(b) \in StreamRec(Frame) /\ Cleared(b).out = <<>>
           /\ Cleared(b).created = b.created /\ Cleared(b).closed = b.closed
           /\ Cleared(b).queued = b.queued /\ Cleared(b).delivered = b.delivered
           /\ Cleared(b).pending_outbound = b.pending_outbound
           /\ Cleared(b).pending_tcp_writes = b.pending_tcp_writes
           /\ Held(Cleared(b)) = Held(b)
           /\ Sound(b) => Sound(Cleared(b))
  <1>1. PICK c : c = Cleared(b)
    OBVIOUS
  <1>2. <<>> \in Seq(Frame)
    BY EmptySeq
  <1>3. c \in StreamRec(Frame)
    BY <1>1, <1>2, Zenon DEF StreamRec, Cleared
  <1>4. /\ c.out = <<>> /\ c.created = b.created /\ c.closed = b.closed
        /\ c.queued = b.queued /\ c.delivered = b.delivered
        /\ c.pending_outbound = b.pending_outbound
        /\ c.pending_tcp_writes = b.pending_tcp_writes
        /\ c.done = b.done /\ c.reads = b.reads /\ c.tcp_read_buffer = b.tcp_read_buffer
        /\ c.tcp_write_active = b.tcp_write_active
    BY <1>1, Zenon DEF StreamRec, Cleared
  <1>5. Held(c) = Held(b)
    BY <1>4, Zenon DEF Held
  <1>6. Sound(b) => Sound(c)
    BY <1>4, Zenon DEF Sound
  <1>7. QED
    BY <1>1, <1>3, <1>4, <1>5, <1>6, Zenon

LEMMA StreamRecFrame ==
    ASSUME NEW i, NEW b \in StreamRec(FramesOf(i))
    PROVE  b \in StreamRec(Frame)
  <1>1. b.out \in Seq(FramesOf(i))
    BY DEF StreamRec
  <1>2. b.out \in Seq(Frame)
    BY <1>1, FramesOfFrames, SeqMonotonic
  <1>3. QED
    BY <1>2 DEF StreamRec

LEMMA EffectFacts ==
    ASSUME Types, NEW s \in Side, NEW i \in Ids, NEW b \in StreamRec(Frame), NEW q \in Seq(Frame),
           Effect(s, i, b, q)
    PROVE  /\ stream'[s][i] = Cleared(b)
           /\ \A t \in Side, j \in Ids : t # s \/ j # i => stream'[t][j] = stream[t][j]
           /\ net'[s] = q
           /\ net'[Peer(s)] = Transmitted(s, net[Peer(s)], b.out)
           /\ stream' \in [Side -> [Ids -> StreamRec(Frame)]] /\ net' \in [Side -> Seq(Frame)]
  <1>1. PICK c : c = Cleared(b)
    OBVIOUS
  <1>2. c \in StreamRec(Frame)
    BY <1>1, ClearedFacts
  <1>3. stream' = [stream EXCEPT ![s][i] = c] /\ stream \in [Side -> [Ids -> StreamRec(Frame)]]
    BY <1>1 DEF Effect, Types
  <1>4. PICK p : p = Peer(s)
    OBVIOUS
  <1>5. p \in Side /\ p # s
    BY <1>4, Sides
  <1>6. PICK o : o = Transmitted(s, net[p], b.out)
    OBVIOUS
  <1>7. net \in [Side -> Seq(Frame)] /\ net' = [net EXCEPT ![s] = q, ![p] = o]
    <2>1. net \in [Side -> Seq(Frame)]
      BY DEF Types
    <2>2. net' = [net EXCEPT ![s] = q, ![p] = Transmitted(s, @, b.out)]
      BY <1>4 DEF Effect
    <2>3. net' = [net EXCEPT ![s] = q, ![p] = Transmitted(s, net[p], b.out)]
      BY <1>5, <2>1, <2>2, Zenon
    <2>4. QED
      BY <1>6, <2>1, <2>3
  <1>8. o \in Seq(Frame)
    <2>1. net[p] \in Seq(Frame) /\ b.out \in Seq(Frame)
      BY <1>5, <1>7 DEF StreamRec
    <2>2. net[p] \o b.out \in Seq(Frame)
      BY <2>1, ConcatProperties
    <2>3. QED
      BY <1>6, <2>1, <2>2, Zenon DEF Transmitted
  <1>9. net'[s] = q /\ net'[p] = o /\ net' \in [Side -> Seq(Frame)]
    BY <1>5, <1>7, <1>8, Zenon
  <1>10. /\ stream'[s][i] = c
         /\ \A t \in Side, j \in Ids : t # s \/ j # i => stream'[t][j] = stream[t][j]
         /\ stream' \in [Side -> [Ids -> StreamRec(Frame)]]
    BY <1>2, <1>3
  <1>11. QED
    BY <1>1, <1>4, <1>6, <1>9, <1>10, Zenon

\* Frames of stream i only.
FramesAbout(o, i) == \A k \in 1..Len(o) : o[k].id = i

\* Frames of stream i leave the payload of stream j as it is.
LEMMA PayloadSent ==
    ASSUME NEW w \in Seq(Frame), NEW o \in Seq(Frame), NEW i, NEW j, FramesAbout(o, i), j # i
    PROVE  PayloadOf(w \o o, j) = PayloadOf(w, j)
  <1>1. PayloadOf(w \o o, j) = PayloadOf(w, j) \o PayloadOf(o, j)
    BY PayloadConcat
  <1>2. PayloadOf(o, j) = <<>>
    BY PayloadNone DEF FramesAbout
  <1>3. PayloadOf(w, j) \in Seq(Item)
    BY PayloadType
  <1>4. PayloadOf(w, j) \o <<>> = PayloadOf(w, j)
    BY <1>3, ConcatEmptySeq
  <1>5. QED
    BY <1>1, <1>2, <1>4, Zenon

\* What a step of stream i of side s takes from the wire: d, or nothing it holds.
Takes(s, i, a, b, q, d) ==
    /\ \A j \in Ids \ {i} : PayloadOf(q, j) = PayloadOf(net[s], j)
    /\ a.closed => b.closed
    /\ \/ Held(b) = Held(a) /\ (PayloadOf(q, i) = PayloadOf(net[s], i) \/ b.closed)
       \/ /\ ~a.closed /\ ~session[s].closed
          /\ Held(b) = Held(a) \o d /\ PayloadOf(net[s], i) = d \o PayloadOf(q, i)

\* The balance only looks at what Cleared leaves alone.
LEMMA BalancedCleared ==
    ASSUME NEW b \in StreamRec(Frame), NEW r, NEW w, NEW toOpen, NEW fromOpen
    PROVE  /\ Balanced(b, r, w, toOpen, fromOpen) => Balanced(Cleared(b), r, w, toOpen, fromOpen)
           /\ Balanced(r, b, w, toOpen, fromOpen) => Balanced(r, Cleared(b), w, toOpen, fromOpen)
  <1>1. PICK c : c = Cleared(b)
    OBVIOUS
  <1>2. /\ c.closed = b.closed /\ c.queued = b.queued
        /\ c.pending_outbound = b.pending_outbound /\ Held(c) = Held(b)
    BY <1>1, ClearedFacts
  <1>3. QED
    BY <1>1, <1>2, Zenon DEF Balanced

LEMMA ConserveStep ==
    ASSUME Types, Conserved, KeepsSessions, NEW s \in Side, NEW i \in Ids,
           NEW b \in StreamRec(Frame), NEW q \in Seq(Frame), NEW x \in Seq(Item), NEW d \in Seq(Item),
           Effect(s, i, b, q), Sound(b), FramesAbout(b.out, i),
           Conveys(i, stream[s][i], b, x), Takes(s, i, stream[s][i], b, q, d),
           session[s].closed => stream[s][i].closed
    PROVE  Conserved'
  <1>1. PICK p : p = Peer(s)
    OBVIOUS
  <1>2. p \in Side /\ p # s /\ Peer(p) = s /\ (\A t \in Side : t = s \/ t = p)
    BY <1>1, Sides
  <1>3. PICK a, w, o : a = stream[s][i] /\ w = net[p] /\ o = b.out
    OBVIOUS
  <1>4. a \in StreamRec(Frame) /\ w \in Seq(Frame) /\ o \in Seq(Frame) /\ net[s] \in Seq(Frame)
    <2>1. b.out \in Seq(Frame)
      BY DEF StreamRec
    <2>2. QED
      BY <1>2, <1>3, <2>1 DEF Types
  <1>5. /\ stream'[s][i] = Cleared(b)
        /\ \A t \in Side, j \in Ids : t # s \/ j # i => stream'[t][j] = stream[t][j]
        /\ net'[s] = q /\ net'[p] = Transmitted(s, w, o)
    BY <1>1, <1>3, EffectFacts
  <1>6. \A t \in Side, j \in Ids : stream[t][j] \in StreamRec(Frame)
    BY DEF Types
  <1>7. PICK so \in BOOLEAN, po \in BOOLEAN : so = ~session[s].closed /\ po = ~session[p].closed
    BY Zenon
  <1>8. (~session'[s].closed <=> so) /\ (~session'[p].closed <=> po)
    BY <1>2, <1>7, Zenon DEF KeepsSessions
  <1>9. ASSUME NEW j \in Ids
        PROVE  PayloadOf(net'[p], j) =
                  IF j = i /\ po /\ so THEN PayloadOf(w, j) \o PayloadOf(o, j) ELSE PayloadOf(w, j)
    <2>1. /\ so /\ po => net'[p] = w \o o
          /\ ~(so /\ po) => net'[p] = w
      BY <1>1, <1>5, <1>7, Zenon DEF Transmitted
    <2>2. FramesAbout(o, i)
      BY <1>3
    <2>3. PayloadOf(w \o o, j) = PayloadOf(w, j) \o PayloadOf(o, j)
      BY <1>4, PayloadConcat
    <2>4. CASE j = i
      BY <2>1, <2>3, <2>4, Zenon
    <2>5. CASE j # i
      <3>1. PayloadOf(w \o o, j) = PayloadOf(w, j)
        BY <1>4, <2>2, <2>5, PayloadSent
      <3>2. QED
        BY <2>1, <2>5, <3>1, Zenon
    <2>6. QED
      BY <2>4, <2>5
  <1>10. \A j \in Ids : /\ Balanced(stream[s][j], stream[p][j], PayloadOf(net[s], j), so, po)
                        /\ Balanced(stream[p][j], stream[s][j], PayloadOf(w, j), po, so)
    BY <1>1, <1>2, <1>3, <1>7, Zenon DEF Conserved
  <1>11. ASSUME NEW j \in Ids
         PROVE  Balanced(stream'[s][j], stream'[p][j], PayloadOf(net'[s], j), so, po)
    <2>1. stream'[p][j] = stream[p][j]
      BY <1>2, <1>5
    <2>2. CASE j # i
      <3>1. PayloadOf(net'[s], j) = PayloadOf(net[s], j)
        BY <1>5, <2>2, Zenon DEF Takes
      <3>2. stream'[s][j] = stream[s][j]
        BY <1>5, <2>2
      <3>3. QED
        BY <1>10, <2>1, <3>1, <3>2, Zenon
    <2>3. CASE j = i
      <3>1. Balanced(a, stream[p][i], PayloadOf(net[s], i), so, po)
        BY <1>3, <1>10
      <3>2. PICK v \in Seq(Item), v2 \in Seq(Item) : v = PayloadOf(net[s], i) /\ v2 = PayloadOf(q, i)
        BY <1>4, PayloadType
      <3>3. /\ ~b.closed => ~a.closed
            /\ \/ Held(b) = Held(a) /\ (v2 = v \/ b.closed)
               \/ ~a.closed /\ so /\ Held(b) = Held(a) \o d /\ v = d \o v2
        BY <1>3, <1>7, <3>2, Zenon DEF Takes
      <3>4. stream[p][i] \in StreamRec(Frame)
        BY <1>2, <1>6
      <3>5. Balanced(b, stream[p][i], v2, so, po)
        BY <1>4, <3>1, <3>2, <3>3, <3>4, BalancedReceive, Zenon
      <3>6. Balanced(Cleared(b), stream[p][i], v2, so, po)
        BY <3>5, BalancedCleared
      <3>7. QED
        BY <1>5, <2>1, <2>3, <3>2, <3>6, Zenon
    <2>4. QED
      BY <2>2, <2>3
  <1>12. ASSUME NEW j \in Ids
         PROVE  Balanced(stream'[p][j], stream'[s][j], PayloadOf(net'[p], j), po, so)
    <2>1. stream'[p][j] = stream[p][j]
      BY <1>2, <1>5
    <2>2. CASE j # i
      <3>1. PayloadOf(net'[p], j) = PayloadOf(w, j)
        BY <1>9, <2>2
      <3>2. stream'[s][j] = stream[s][j]
        BY <1>5, <2>2
      <3>3. QED
        BY <1>10, <2>1, <3>1, <3>2, Zenon
    <2>3. CASE j = i
      <3>1. Balanced(stream[p][i], a, PayloadOf(w, i), po, so)
        BY <1>3, <1>10
      <3>2. PICK v \in Seq(Item) : v = PayloadOf(w, i)
        BY <1>4, PayloadType
      <3>3. stream[p][i] \in StreamRec(Frame)
        BY <1>2, <1>6
      <3>4. Conveys(i, a, b, x) /\ (~so => a.closed)
        BY <1>3, <1>7, Zenon
      <3>5. Balanced(stream[p][i], b, IF po /\ so THEN v \o PayloadOf(b.out, i) ELSE v, po, so)
        BY <1>4, <3>1, <3>2, <3>3, <3>4, BalancedSender
      <3>6. Balanced(stream[p][i], Cleared(b), IF po /\ so THEN v \o PayloadOf(b.out, i) ELSE v, po, so)
        BY <3>5, BalancedCleared
      <3>7. PayloadOf(net'[p], i) = IF po /\ so THEN v \o PayloadOf(b.out, i) ELSE v
        BY <1>3, <1>9, <3>2
      <3>8. QED
        BY <1>5, <2>1, <2>3, <3>6, <3>7, Zenon
    <2>4. QED
      BY <2>2, <2>3
  <1>13. QED
    <2>1. \A t \in Side, j \in Ids :
              Balanced(stream'[t][j], stream'[Peer(t)][j], PayloadOf(net'[t], j),
                       ~session'[t].closed, ~session'[Peer(t)].closed)
      <3>1. SUFFICES ASSUME NEW t \in Side, NEW j \in Ids
                     PROVE  Balanced(stream'[t][j], stream'[Peer(t)][j], PayloadOf(net'[t], j),
                                     ~session'[t].closed, ~session'[Peer(t)].closed)
        BY Zenon
      <3>2. CASE t = s
        <4>1. Balanced(stream'[s][j], stream'[p][j], PayloadOf(net'[s], j),
                       ~session'[s].closed, ~session'[p].closed)
          BY <1>8, <1>11, Zenon DEF Balanced
        <4>2. QED
          BY <1>1, <3>2, <4>1, Zenon
      <3>3. CASE t = p
        <4>1. Balanced(stream'[p][j], stream'[s][j], PayloadOf(net'[p], j),
                       ~session'[p].closed, ~session'[s].closed)
          BY <1>8, <1>12, Zenon DEF Balanced
        <4>2. Balanced(stream'[p][j], stream'[Peer(p)][j], PayloadOf(net'[p], j),
                       ~session'[p].closed, ~session'[Peer(p)].closed)
          BY <1>2, <4>1, Zenon
        <4>3. QED
          BY <3>3, <4>2, Zenon
      <3>4. QED
        BY <1>2, <3>2, <3>3, Zenon
    <2>2. QED
      BY <2>1, Zenon DEF Conserved
-----------------------------------------------------------------------------
(* SYN comes first: the server creates a stream once, on the first frame    *)
(* about it, and the client is never told of a stream it did not open.      *)

Mentions(q, i) == \E k \in 1..Len(q) : q[k].id = i
NoSyn(q, i) == \A k \in 1..Len(q) : q[k].id = i => q[k].cmd # "syn"
SynFirst(q, i) ==
    \A k \in 1..Len(q) :
        q[k].id = i => (q[k].cmd = "syn" <=> \A j \in 1..(k - 1) : q[j].id # i)

\* c and v: the stream exists at the client, at the server; qc and qs: what is
\* on its way there; open: neither session is closed.
Ordered(i, c, v, qc, qs, open) ==
    /\ v => c
    /\ Mentions(qs, i) \/ Mentions(qc, i) => c
    /\ NoSyn(qc, i)
    /\ v => NoSyn(qs, i)
    /\ ~v => SynFirst(qs, i)
    /\ c /\ ~v /\ open => Mentions(qs, i)

LEMMA OrderedAlike ==
    ASSUME NEW i, NEW c, NEW v, NEW qc, NEW qs, NEW open, Ordered(i, c, v, qc, qs, open)
    PROVE  Ordered(i, c, v, qc, qs, FALSE)
  BY Zenon DEF Ordered

LEMMA PrefixLen ==
    ASSUME NEW q \in Seq(Frame), NEW k \in 0..Len(q)
    PROVE  /\ SubSeq(q, 1, k) \in Seq(Frame) /\ Len(SubSeq(q, 1, k)) = k
           /\ \A j \in 1..k : SubSeq(q, 1, k)[j] = q[j]
           /\ k \in Nat /\ Len(q) \in Nat /\ k <= Len(q)
  <1>1. k \in Nat /\ Len(q) \in Nat /\ k <= Len(q) /\ 1 \in Int /\ k \in Int
    BY LenProperties
  <1>2. SubSeq(q, 1, k) \in Seq(Frame) /\ Len(SubSeq(q, 1, k)) = k
    BY Halves
  <1>3. \A j \in 1..k : SubSeq(q, 1, k)[j] = q[j]
    <2>1. \A j \in 1..k : q[j] \in Frame
      BY <1>1, ElementOfSeq
    <2>2. \A j \in 1..(k - 1 + 1) : SubSeq(q, 1, k)[j] = q[1 + j - 1]
      BY <1>1, <2>1, SubSeqProperties
    <2>3. QED
      BY <1>1, <2>2
  <1>4. QED
    BY <1>1, <1>2, <1>3

LEMMA PrefixFrames ==
    ASSUME NEW q \in Seq(Frame), NEW k \in 0..Len(q), NEW i
    PROVE  /\ Mentions(SubSeq(q, 1, k), i) => Mentions(q, i)
           /\ NoSyn(q, i) => NoSyn(SubSeq(q, 1, k), i)
           /\ SynFirst(q, i) => SynFirst(SubSeq(q, 1, k), i)
  <1>1. PICK p : p = SubSeq(q, 1, k)
    BY Zenon
  <1>2. Len(p) = k /\ (\A j \in 1..k : p[j] = q[j]) /\ k \in Nat /\ Len(q) \in Nat /\ k <= Len(q)
    BY <1>1, PrefixLen
  <1>3. Mentions(p, i) => Mentions(q, i)
    BY <1>2 DEF Mentions
  <1>4. NoSyn(q, i) => NoSyn(p, i)
    BY <1>2 DEF NoSyn
  <1>5. SynFirst(q, i) => SynFirst(p, i)
    BY <1>2 DEF SynFirst
  <1>6. QED
    BY <1>1, <1>3, <1>4, <1>5

\* A session closes: each side may still be given a prefix of what was sent.
LEMMA OrderedCut ==
    ASSUME NEW i, NEW c, NEW v, NEW qc \in Seq(Frame), NEW qs \in Seq(Frame), NEW open,
           Ordered(i, c, v, qc, qs, open), NEW k \in 0..Len(qc), NEW l \in 0..Len(qs)
    PROVE  Ordered(i, c, v, SubSeq(qc, 1, k), SubSeq(qs, 1, l), FALSE)
  <1>1. PICK c2, s2 : c2 = SubSeq(qc, 1, k) /\ s2 = SubSeq(qs, 1, l)
    BY Zenon
  <1>2. (Mentions(c2, i) => Mentions(qc, i)) /\ (NoSyn(qc, i) => NoSyn(c2, i))
    BY <1>1, PrefixFrames
  <1>3. /\ Mentions(s2, i) => Mentions(qs, i)
        /\ NoSyn(qs, i) => NoSyn(s2, i)
        /\ SynFirst(qs, i) => SynFirst(s2, i)
    BY <1>1, PrefixFrames
  <1>4. QED
    BY <1>1, <1>2, <1>3, Zenon DEF Ordered

LEMMA AppendedFrames ==
    ASSUME NEW q \in Seq(Frame), NEW o \in Seq(Frame), NEW i
    PROVE  /\ Mentions(q \o o, i) <=> Mentions(q, i) \/ Mentions(o, i)
           /\ NoSyn(q, i) /\ NoSyn(o, i) => NoSyn(q \o o, i)
           /\ SynFirst(q, i) /\ ~Mentions(o, i) => SynFirst(q \o o, i)
           /\ SynFirst(q, i) /\ NoSyn(o, i) /\ Mentions(q, i) => SynFirst(q \o o, i)
  <1>1. PICK p : p = q \o o
    BY Zenon
  <1>2. /\ Len(p) = Len(q) + Len(o) /\ Len(q) \in Nat /\ Len(o) \in Nat
        /\ \A k \in 1..(Len(q) + Len(o)) : p[k] = IF k <= Len(q) THEN q[k] ELSE o[k - Len(q)]
    BY <1>1, ConcatProperties, LenProperties
  <1>3. \A k \in 1..Len(q) : k \in 1..Len(p) /\ p[k] = q[k]
    BY <1>2
  <1>4. \A k \in 1..Len(o) : k + Len(q) \in 1..Len(p) /\ p[k + Len(q)] = o[k]
    BY <1>2
  <1>5. \A k \in 1..Len(p) : \/ k \in 1..Len(q) /\ p[k] = q[k]
                             \/ k - Len(q) \in 1..Len(o) /\ p[k] = o[k - Len(q)] /\ k > Len(q)
    BY <1>2
  <1>6. Mentions(p, i) <=> Mentions(q, i) \/ Mentions(o, i)
    <2>1. Mentions(q, i) => Mentions(p, i)
      BY <1>3 DEF Mentions
    <2>2. Mentions(o, i) => Mentions(p, i)
      BY <1>4 DEF Mentions
    <2>3. Mentions(p, i) => Mentions(q, i) \/ Mentions(o, i)
      BY <1>5, Zenon DEF Mentions
    <2>4. QED
      BY <2>1, <2>2, <2>3
  <1>7. NoSyn(q, i) /\ NoSyn(o, i) => NoSyn(p, i)
    BY <1>5, Zenon DEF NoSyn
  <1>8. ASSUME SynFirst(q, i), ~Mentions(o, i)
        PROVE  SynFirst(p, i)
    <2>1. SUFFICES ASSUME NEW k \in 1..Len(p), p[k].id = i
                   PROVE  p[k].cmd = "syn" <=> \A j \in 1..(k - 1) : p[j].id # i
      BY DEF SynFirst
    <2>2. k \in 1..Len(q) /\ p[k] = q[k]
      BY <1>5, <1>8, <2>1, Zenon DEF Mentions
    <2>3. \A j \in 1..(k - 1) : p[j] = q[j]
      BY <1>2, <1>3, <2>2
    <2>4. q[k].cmd = "syn" <=> \A j \in 1..(k - 1) : q[j].id # i
      BY <1>8, <2>1, <2>2 DEF SynFirst
    <2>5. QED
      BY <2>2, <2>3, <2>4
  <1>9. ASSUME SynFirst(q, i), NoSyn(o, i), Mentions(q, i)
        PROVE  SynFirst(p, i)
    <2>1. SUFFICES ASSUME NEW k \in 1..Len(p), p[k].id = i
                   PROVE  p[k].cmd = "syn" <=> \A j \in 1..(k - 1) : p[j].id # i
      BY DEF SynFirst
    <2>2. CASE k \in 1..Len(q) /\ p[k] = q[k]
      <3>1. \A j \in 1..(k - 1) : p[j] = q[j]
        BY <1>2, <1>3, <2>2
      <3>2. q[k].cmd = "syn" <=> \A j \in 1..(k - 1) : q[j].id # i
        BY <1>9, <2>1, <2>2 DEF SynFirst
      <3>3. QED
        BY <2>2, <3>1, <3>2
    <2>3. CASE k - Len(q) \in 1..Len(o) /\ p[k] = o[k - Len(q)] /\ k > Len(q)
      <3>1. p[k].cmd # "syn"
        BY <1>9, <2>1, <2>3 DEF NoSyn
      <3>2. PICK j \in 1..Len(q) : q[j].id = i
        BY <1>9 DEF Mentions
      <3>3. j \in 1..(k - 1) /\ p[j].id = i
        BY <1>2, <1>3, <2>3, <3>2
      <3>4. QED
        BY <3>1, <3>3
    <2>4. QED
      BY <1>5, <2>2, <2>3
  <1>10. QED
    BY <1>1, <1>6, <1>7, <1>8, <1>9

\* Frames of stream j, none of them a SYN, go out; j exists where they come from.
LEMMA OrderedSend ==
    ASSUME NEW i, NEW c, NEW v, NEW qc \in Seq(Frame), NEW qs \in Seq(Frame), NEW open,
           Ordered(i, c, v, qc, qs, open), NEW o \in Seq(Frame), NEW j,
           FramesAbout(o, j), NoSyn(o, j), i = j => c
    PROVE  /\ Ordered(i, c, v, qc \o o, qs, open)
           /\ open => Ordered(i, c, v, qc, qs \o o, open)
  <1>1. NoSyn(o, i) /\ (Mentions(o, i) => c)
    BY DEF FramesAbout, NoSyn, Mentions
  <1>2. PICK p, r : p = qc \o o /\ r = qs \o o
    BY Zenon
  <1>3. /\ Mentions(p, i) <=> Mentions(qc, i) \/ Mentions(o, i)
        /\ NoSyn(qc, i) /\ NoSyn(o, i) => NoSyn(p, i)
    BY <1>2, AppendedFrames
  <1>4. /\ Mentions(r, i) <=> Mentions(qs, i) \/ Mentions(o, i)
        /\ NoSyn(qs, i) /\ NoSyn(o, i) => NoSyn(r, i)
        /\ SynFirst(qs, i) /\ ~Mentions(o, i) => SynFirst(r, i)
        /\ SynFirst(qs, i) /\ NoSyn(o, i) /\ Mentions(qs, i) => SynFirst(r, i)
    BY <1>2, AppendedFrames
  <1>5. QED
    BY <1>1, <1>2, <1>3, <1>4, Zenon DEF Ordered

LEMMA TailFrames ==
    ASSUME NEW q \in Seq(Frame), q # <<>>, NEW i
    PROVE  /\ Head(q) \in Frame /\ Tail(q) \in Seq(Frame) /\ Head(q) = q[1]
           /\ 1 \in 1..Len(q) /\ \A k \in 1..Len(Tail(q)) : k + 1 \in 1..Len(q) /\ Tail(q)[k] = q[k + 1]
           /\ \A k \in 2..Len(q) : k - 1 \in 1..Len(Tail(q))
  <1>1. PICK t : t = Tail(q)
    BY Zenon
  <1>2. Len(q) \in Nat /\ Len(q) # 0 /\ Head(q) = q[1]
    BY EmptySeq
  <1>3. /\ Head(q) \in Frame /\ t \in Seq(Frame) /\ Len(t) = Len(q) - 1
        /\ \A k \in 1..Len(t) : t[k] = q[k + 1]
    BY <1>1, HeadTailProperties
  <1>4. QED
    BY <1>1, <1>2, <1>3

\* The server receives a frame: the first one about a stream is its SYN.
LEMMA OrderedTake ==
    ASSUME NEW i, NEW c, NEW v \in BOOLEAN, NEW qc, NEW qs \in Seq(Frame), NEW open,
           Ordered(i, c, v, qc, qs, open), qs # <<>>
    PROVE  /\ Ordered(i, c, v \/ Head(qs).id = i, qc, Tail(qs), open)
           /\ Head(qs).id = i => c /\ (Head(qs).cmd = "syn" <=> ~v)
  <1>1. PICK f, t : f = Head(qs) /\ t = Tail(qs)
    BY Zenon
  <1>2. /\ 1 \in 1..Len(qs) /\ f = qs[1] /\ Len(qs) \in Nat
        /\ \A k \in 1..Len(t) : k + 1 \in 1..Len(qs) /\ t[k] = qs[k + 1]
        /\ \A k \in 2..Len(qs) : k - 1 \in 1..Len(t)
        /\ Len(t) \in Nat
    <2>1. t \in Seq(Frame)
      BY <1>1, TailFrames
    <2>2. QED
      BY <1>1, <2>1, TailFrames, LenProperties
  <1>3. f.id = i => c /\ (f.cmd = "syn" <=> ~v)
    <2>1. f.id = i => Mentions(qs, i)
      BY <1>2 DEF Mentions
    <2>2. f.id = i /\ NoSyn(qs, i) => f.cmd # "syn"
      BY <1>2 DEF NoSyn
    <2>3. f.id = i /\ SynFirst(qs, i) => f.cmd = "syn"
      <3>1. \A j \in 1..(1 - 1) : qs[j].id # i
        OBVIOUS
      <3>2. QED
        BY <1>2, <3>1 DEF SynFirst
    <2>4. QED
      BY <2>1, <2>2, <2>3 DEF Ordered
  <1>4. (NoSyn(qs, i) => NoSyn(t, i)) /\ (Mentions(t, i) => Mentions(qs, i))
    BY <1>2, Zenon DEF NoSyn, Mentions
  <1>5. f.id # i /\ Mentions(qs, i) => Mentions(t, i)
    <2>1. SUFFICES ASSUME f.id # i, NEW k \in 1..Len(qs), qs[k].id = i
                   PROVE  Mentions(t, i)
      BY DEF Mentions
    <2>2. k \in 2..Len(qs)
      BY <1>2, <2>1
    <2>3. k - 1 \in 1..Len(t) /\ t[k - 1] = qs[k]
      BY <1>2, <2>2
    <2>4. QED
      BY <2>1, <2>3 DEF Mentions
  <1>6. f.id # i /\ SynFirst(qs, i) => SynFirst(t, i)
    <2>1. SUFFICES ASSUME f.id # i, SynFirst(qs, i), NEW k \in 1..Len(t), t[k].id = i
                   PROVE  t[k].cmd = "syn" <=> \A j \in 1..(k - 1) : t[j].id # i
      BY DEF SynFirst
    <2>2. t[k].cmd = "syn" <=> \A j \in 1..k : qs[j].id # i
      BY <1>2, <2>1 DEF SynFirst
    <2>3. ASSUME \A j \in 1..k : qs[j].id # i PROVE \A j \in 1..(k - 1) : t[j].id # i
      <3>1. \A j \in 1..(k - 1) : j \in 1..Len(t) /\ j + 1 \in 1..k
        BY <1>2, <2>1
      <3>2. \A j \in 1..(k - 1) : t[j] = qs[j + 1]
        BY <1>2, <3>1
      <3>3. QED
        BY <2>3, <3>1, <3>2
    <2>4. ASSUME \A j \in 1..(k - 1) : t[j].id # i, NEW j \in 1..k PROVE qs[j].id # i
      <3>1. CASE j = 1
        BY <1>2, <2>1, <3>1
      <3>2. CASE j # 1
        <4>1. j - 1 \in 1..(k - 1) /\ j - 1 \in 1..Len(t) /\ (j - 1) + 1 = j
          BY <1>2, <2>1, <3>2
        <4>2. t[j - 1] = qs[j]
          BY <1>2, <4>1
        <4>3. QED
          BY <2>4, <4>1, <4>2
      <3>3. QED
        BY <3>1, <3>2
    <2>5. QED
      BY <2>2, <2>3, <2>4
  <1>7. f.id = i /\ SynFirst(qs, i) => NoSyn(t, i)
    <2>1. SUFFICES ASSUME f.id = i, SynFirst(qs, i), NEW k \in 1..Len(t), t[k].id = i
                   PROVE  t[k].cmd # "syn"
      BY DEF NoSyn
    <2>2. k + 1 \in 1..Len(qs) /\ t[k] = qs[k + 1] /\ 1 \in 1..((k + 1) - 1)
      BY <1>2, <2>1
    <2>3. QED
      BY <1>2, <2>1, <2>2 DEF SynFirst
  <1>8. Ordered(i, c, v \/ f.id = i, qc, t, open)
    <2>1. CASE f.id = i
      BY <1>3, <1>4, <1>7, <2>1, Zenon DEF Ordered
    <2>2. CASE f.id # i
      BY <1>4, <1>5, <1>6, <2>2, Zenon DEF Ordered
    <2>3. QED
      BY <2>1, <2>2
  <1>9. QED
    BY <1>1, <1>3, <1>8

\* The client receives a frame.
LEMMA OrderedTakeClient ==
    ASSUME NEW i, NEW c, NEW v, NEW qc \in Seq(Frame), NEW qs, NEW open,
           Ordered(i, c, v, qc, qs, open), qc # <<>>
    PROVE  /\ Ordered(i, c, v, Tail(qc), qs, open)
           /\ Head(qc).id = i => c /\ Head(qc).cmd # "syn"
  <1>1. PICK f, t : f = Head(qc) /\ t = Tail(qc)
    BY Zenon
  <1>2. /\ 1 \in 1..Len(qc) /\ f = qc[1]
        /\ \A k \in 1..Len(t) : k + 1 \in 1..Len(qc) /\ t[k] = qc[k + 1]
    BY <1>1, TailFrames
  <1>3. (NoSyn(qc, i) => NoSyn(t, i)) /\ (Mentions(t, i) => Mentions(qc, i))
    BY <1>2, Zenon DEF NoSyn, Mentions
  <1>4. f.id = i /\ NoSyn(qc, i) => f.cmd # "syn"
    BY <1>2 DEF NoSyn
  <1>5. f.id = i => Mentions(qc, i)
    BY <1>2 DEF Mentions
  <1>6. QED
    BY <1>1, <1>3, <1>4, <1>5, Zenon DEF Ordered

\* The client opens stream i; its SYN is dropped if the server's session is closed.
LEMMA OrderedOpen ==
    ASSUME NEW i \in Ids, NEW v, NEW qc \in Seq(Frame), NEW qs \in Seq(Frame), NEW open,
           Ordered(i, FALSE, v, qc, qs, open)
    PROVE  /\ Ordered(i, TRUE, v, qc, qs \o <<Syn(i)>>, open)
           /\ Ordered(i, TRUE, v, qc, qs, FALSE)
  <1>1. PICK f : f = Syn(i)
    OBVIOUS
  <1>2. PICK o : o = <<f>>
    BY Zenon
  <1>3. f \in Frame /\ f.id = i /\ f.cmd = "syn"
    BY <1>1 DEF Syn, Frame
  <1>4. o \in Seq(Frame) /\ Len(o) = 1 /\ o[1] = f
    BY <1>2, <1>3
  <1>5. PICK p : p = qs \o o
    BY Zenon
  <1>6. /\ Len(p) = Len(qs) + 1 /\ Len(qs) \in Nat
        /\ \A k \in 1..(Len(qs) + 1) : p[k] = IF k <= Len(qs) THEN qs[k] ELSE o[k - Len(qs)]
    <2>1. /\ Len(p) = Len(qs) + Len(o) /\ Len(qs) \in Nat
          /\ \A k \in 1..(Len(qs) + Len(o)) : p[k] = IF k <= Len(qs) THEN qs[k] ELSE o[k - Len(qs)]
      BY <1>4, <1>5, ConcatProperties, LenProperties, Zenon
    <2>2. QED
      BY <1>4, <2>1
  <1>7. ~v /\ ~Mentions(qs, i) /\ ~Mentions(qc, i) /\ NoSyn(qc, i)
    BY DEF Ordered
  <1>8. \A k \in 1..Len(qs) : p[k].id # i
    BY <1>6, <1>7 DEF Mentions
  <1>9. Len(qs) + 1 \in 1..Len(p) /\ p[Len(qs) + 1] = f
    BY <1>4, <1>6
  <1>10. Mentions(p, i)
    BY <1>3, <1>9 DEF Mentions
  <1>11. SynFirst(p, i)
    <2>1. SUFFICES ASSUME NEW k \in 1..Len(p), p[k].id = i
                   PROVE  p[k].cmd = "syn" <=> \A j \in 1..(k - 1) : p[j].id # i
      BY DEF SynFirst
    <2>2. k = Len(qs) + 1
      BY <1>6, <1>8, <2>1
    <2>3. \A j \in 1..(k - 1) : p[j].id # i
      BY <1>6, <1>8, <2>2
    <2>4. QED
      BY <1>3, <1>9, <2>2, <2>3
  <1>12. SynFirst(qs, i)
    BY <1>7 DEF SynFirst, Mentions
  <1>13. QED
    BY <1>1, <1>2, <1>5, <1>7, <1>10, <1>11, <1>12, Zenon DEF Ordered

Open == ~session["client"].closed /\ ~session["server"].closed

Order ==
    \A i \in Ids :
        /\ Ordered(i, stream["client"][i].created, stream["server"][i].created,
                   net["client"], net["server"], Open)
        /\ stream["client"][i].created => i <= session["client"].next_stream_id

\* Where the frames a step leaves on their way to s come from.
Remains(s, i, q) ==
    \/ q = net[s] /\ stream[s][i].created
    \/ net[s] # <<>> /\ q = Tail(net[s]) /\ Head(net[s]).id = i

LEMMA OrderedEquals ==
    ASSUME NEW i, NEW c, NEW v, NEW qc, NEW qs, NEW open, NEW c2, NEW v2, NEW open2,
           Ordered(i, c, v, qc, qs, open), c <=> c2, v <=> v2, open <=> open2
    PROVE  Ordered(i, c2, v2, qc, qs, open2)
  BY Zenon DEF Ordered

LEMMA OrderClient ==
    ASSUME Types, Order, KeepsSessions, NEW i \in Ids, NEW b \in StreamRec(Frame), NEW q \in Seq(Frame),
           Effect("client", i, b, q), FramesAbout(b.out, i), NoSyn(b.out, i), b.created,
           stream["client"][i].created, Remains("client", i, q),
           session'["client"].next_stream_id = session["client"].next_stream_id
    PROVE  Order'
  <1>1. "client" \in Side /\ "server" \in Side /\ Peer("client") = "server" /\ "client" # "server"
    BY DEF Side, Peer
  <1>2. PICK qc, qs, o : qc = net["client"] /\ qs = net["server"] /\ o = b.out
    OBVIOUS
  <1>3. qc \in Seq(Frame) /\ qs \in Seq(Frame) /\ o \in Seq(Frame)
    <2>1. b.out \in Seq(Frame)
      BY DEF StreamRec
    <2>2. QED
      BY <1>1, <1>2, <2>1 DEF Types
  <1>4. /\ stream'["client"][i] = Cleared(b)
        /\ \A t \in Side, j \in Ids : t # "client" \/ j # i => stream'[t][j] = stream[t][j]
        /\ net'["client"] = q /\ net'["server"] = Transmitted("client", qs, o)
    BY <1>1, <1>2, EffectFacts
  <1>5. Cleared(b).created
    BY ClearedFacts
  <1>6. Open' <=> Open
    BY <1>1, Zenon DEF KeepsSessions, Open
  <1>7. \A j \in Ids : /\ stream'["client"][j].created <=> stream["client"][j].created
                       /\ stream'["server"][j].created <=> stream["server"][j].created
    BY <1>1, <1>4, <1>5
  <1>8. \/ ~Open /\ net'["server"] = qs
        \/ Open /\ net'["server"] = qs \o o
    BY <1>1, <1>4 DEF Transmitted, Open
  <1>9. SUFFICES ASSUME NEW j \in Ids
                 PROVE  /\ Ordered(j, stream'["client"][j].created, stream'["server"][j].created,
                                   net'["client"], net'["server"], Open')
                        /\ stream'["client"][j].created => j <= session'["client"].next_stream_id
    BY Zenon DEF Order
  <1>10. PICK c \in BOOLEAN, v \in BOOLEAN, open \in BOOLEAN :
            /\ c = stream["client"][j].created /\ v = stream["server"][j].created /\ open = Open
    <2>1. stream["client"][j] \in StreamRec(Frame) /\ stream["server"][j] \in StreamRec(Frame)
      BY <1>1, StreamHere
    <2>2. stream["client"][j].created \in BOOLEAN /\ stream["server"][j].created \in BOOLEAN
      BY <2>1, Zenon DEF StreamRec
    <2>3. QED
      BY <2>2, Zenon DEF Open
  <1>11. Ordered(j, c, v, qc, qs, open) /\ (i = j => c)
    BY <1>2, <1>10, Zenon DEF Order
  <1>12. Ordered(j, c, v, q, qs, open)
    <2>1. CASE q = qc
      BY <1>11, <2>1
    <2>2. CASE qc # <<>> /\ q = Tail(qc)
      BY <1>3, <1>11, <2>2, OrderedTakeClient
    <2>3. QED
      BY <1>2, <2>1, <2>2 DEF Remains
  <1>13. open => Ordered(j, c, v, q, qs \o o, open)
    <2>1. FramesAbout(o, i) /\ NoSyn(o, i)
      BY <1>2
    <2>2. QED
      BY <1>3, <1>11, <1>12, <2>1, OrderedSend, Zenon
  <1>14. Ordered(j, c, v, q, net'["server"], open)
    BY <1>8, <1>10, <1>12, <1>13, Zenon
  <1>15. Ordered(j, stream'["client"][j].created, stream'["server"][j].created,
                 net'["client"], net'["server"], Open')
    <2>1. /\ c <=> stream'["client"][j].created
          /\ v <=> stream'["server"][j].created
          /\ open <=> Open'
      BY <1>6, <1>7, <1>10
    <2>2. Ordered(j, stream'["client"][j].created, stream'["server"][j].created,
                  q, net'["server"], Open')
      BY <1>14, <2>1, OrderedEquals
    <2>3. QED
      BY <1>4, <2>2
  <1>16. stream'["client"][j].created => j <= session'["client"].next_stream_id
    BY <1>7, Zenon DEF Order
  <1>17. QED
    BY <1>15, <1>16

LEMMA OrderServer ==
    ASSUME Types, Order, KeepsSessions, NEW i \in Ids, NEW b \in StreamRec(Frame), NEW q \in Seq(Frame),
           Effect("server", i, b, q), FramesAbout(b.out, i), NoSyn(b.out, i), b.created,
           stream["client"][i].created, Remains("server", i, q),
           session'["client"].next_stream_id = session["client"].next_stream_id
    PROVE  Order'
  <1>1. "client" \in Side /\ "server" \in Side /\ Peer("server") = "client" /\ "client" # "server"
    BY DEF Side, Peer
  <1>2. PICK qc, qs, o : qc = net["client"] /\ qs = net["server"] /\ o = b.out
    OBVIOUS
  <1>3. qc \in Seq(Frame) /\ qs \in Seq(Frame) /\ o \in Seq(Frame)
    <2>1. b.out \in Seq(Frame)
      BY DEF StreamRec
    <2>2. QED
      BY <1>1, <1>2, <2>1 DEF Types
  <1>4. /\ stream'["server"][i] = Cleared(b)
        /\ \A t \in Side, j \in Ids : t # "server" \/ j # i => stream'[t][j] = stream[t][j]
        /\ net'["server"] = q /\ net'["client"] = Transmitted("server", qc, o)
    BY <1>1, <1>2, EffectFacts
  <1>5. Cleared(b).created
    BY ClearedFacts
  <1>6. Open' <=> Open
    BY <1>1, Zenon DEF KeepsSessions, Open
  <1>7. \A j \in Ids : /\ stream'["client"][j].created <=> stream["client"][j].created
                       /\ stream'["server"][j].created <=> stream["server"][j].created \/ j = i
    BY <1>1, <1>4, <1>5
  <1>8. net'["client"] = qc \/ net'["client"] = qc \o o
    BY <1>1, <1>4 DEF Transmitted
  <1>9. SUFFICES ASSUME NEW j \in Ids
                 PROVE  /\ Ordered(j, stream'["client"][j].created, stream'["server"][j].created,
                                   net'["client"], net'["server"], Open')
                        /\ stream'["client"][j].created => j <= session'["client"].next_stream_id
    BY Zenon DEF Order
  <1>10. PICK c \in BOOLEAN, v \in BOOLEAN, open \in BOOLEAN :
            /\ c = stream["client"][j].created /\ v = stream["server"][j].created /\ open = Open
    <2>1. stream["client"][j] \in StreamRec(Frame) /\ stream["server"][j] \in StreamRec(Frame)
      BY <1>1, StreamHere
    <2>2. stream["client"][j].created \in BOOLEAN /\ stream["server"][j].created \in BOOLEAN
      BY <2>1, Zenon DEF StreamRec
    <2>3. QED
      BY <2>2, Zenon DEF Open
  <1>11. Ordered(j, c, v, qc, qs, open) /\ (i = j => c)
    BY <1>2, <1>10, Zenon DEF Order
  <1>12. PICK v2 \in BOOLEAN : v2 = (v \/ j = i)
    BY Zenon
  <1>13. Ordered(j, c, v2, qc, q, open)
    <2>1. CASE q = qs /\ stream["server"][i].created
      <3>1. v2 <=> v
        BY <1>10, <1>12, <2>1
      <3>2. QED
        BY <1>11, <2>1, <3>1, OrderedEquals
    <2>2. CASE qs # <<>> /\ q = Tail(qs) /\ Head(qs).id = i
      <3>1. Ordered(j, c, v \/ Head(qs).id = j, qc, q, open)
        BY <1>3, <1>11, <2>2, OrderedTake
      <3>2. (v \/ Head(qs).id = j) <=> v2
        BY <1>12, <2>2, Zenon
      <3>3. QED
        BY <3>1, <3>2, OrderedEquals
    <2>3. QED
      BY <1>2, <2>1, <2>2 DEF Remains
  <1>14. Ordered(j, c, v2, qc \o o, q, open)
    <2>1. FramesAbout(o, i) /\ NoSyn(o, i)
      BY <1>2
    <2>2. QED
      BY <1>3, <1>11, <1>13, <2>1, OrderedSend
  <1>15. Ordered(j, c, v2, net'["client"], q, open)
    BY <1>8, <1>13, <1>14, Zenon
  <1>16. Ordered(j, stream'["client"][j].created, stream'["server"][j].created,
                 net'["client"], net'["server"], Open')
    <2>1. /\ c <=> stream'["client"][j].created
          /\ v2 <=> stream'["server"][j].created
          /\ open <=> Open'
      BY <1>6, <1>7, <1>10, <1>12
    <2>2. Ordered(j, stream'["client"][j].created, stream'["server"][j].created,
                  net'["client"], q, Open')
      BY <1>15, <2>1, OrderedEquals
    <2>3. QED
      BY <1>4, <2>2
  <1>17. stream'["client"][j].created => j <= session'["client"].next_stream_id
    BY <1>7, Zenon DEF Order
  <1>18. QED
    BY <1>16, <1>17
-----------------------------------------------------------------------------
(* The inductive invariant, and the steps of one stream.                    *)

SmuxInv == Types /\ NoOrphans /\ Conserved /\ Order

AppTypes == app \in [Side -> [Ids -> [sent : Nat, taken : Nat, eof : BOOLEAN, gone : BOOLEAN]]]

\* Stream i of side s becomes b, having queued x and taken d from the wire.
Step(s, i, b, q, x, d) ==
    /\ b \in StreamRec(FramesOf(i)) /\ b.created /\ Sound(b)
    /\ q \in Seq(Frame) /\ x \in Seq(Item) /\ d \in Seq(Item)
    /\ Remains(s, i, q) /\ stream["client"][i].created
    /\ Conveys(i, stream[s][i], b, x) /\ Takes(s, i, stream[s][i], b, q, d)
    /\ session[s].closed => stream[s][i].closed
    /\ Effect(s, i, b, q)

LEMMA FramesOfFacts ==
    ASSUME NEW i, NEW o \in Seq(FramesOf(i))
    PROVE  o \in Seq(Frame) /\ FramesAbout(o, i) /\ NoSyn(o, i)
  <1>1. \A k \in 1..Len(o) : o[k] \in FramesOf(i)
    BY ElementOfSeq
  <1>2. \A f \in FramesOf(i) : f.id = i /\ f.cmd # "syn"
    BY DEF FramesOf
  <1>3. o \in Seq(Frame)
    BY FramesOfFrames, SeqMonotonic
  <1>4. FramesAbout(o, i)
    BY <1>1, <1>2 DEF FramesAbout
  <1>5. NoSyn(o, i)
    BY <1>1, <1>2 DEF NoSyn
  <1>6. QED
    BY <1>3, <1>4, <1>5

\* Types', except for what a step does to the sessions and the applications.
LEMMA TypesStep ==
    ASSUME Types, NEW s \in Side, NEW i \in Ids, NEW b \in StreamRec(Frame), NEW q \in Seq(Frame),
           Effect(s, i, b, q), b.created, Sound(b), AppTypes',
           session' \in [Side -> [closed : BOOLEAN, next_stream_id : Int]]
    PROVE  Types'
  <1>1. /\ stream'[s][i] = Cleared(b)
        /\ \A t \in Side, j \in Ids : t # s \/ j # i => stream'[t][j] = stream[t][j]
        /\ stream' \in [Side -> [Ids -> StreamRec(Frame)]] /\ net' \in [Side -> Seq(Frame)]
    BY EffectFacts
  <1>2. ASSUME NEW t \in Side, NEW j \in Ids
        PROVE  /\ stream'[t][j].out = <<>> /\ Sound(stream'[t][j])
               /\ ~stream'[t][j].created => stream'[t][j] = NoStream
    <2>1. CASE t = s /\ j = i
      <3>1. PICK c : c = Cleared(b)
        OBVIOUS
      <3>2. c.out = <<>> /\ Sound(c) /\ c.created
        BY <3>1, ClearedFacts
      <3>3. stream'[t][j] = c
        BY <1>1, <2>1, <3>1
      <3>4. QED
        BY <3>2, <3>3
    <2>2. CASE t # s \/ j # i
      <3>1. stream'[t][j] = stream[t][j]
        BY <1>1, <2>2
      <3>2. QED
        BY <3>1, StreamHere, Zenon
    <2>3. QED
      BY <2>1, <2>2
  <1>3. \A t \in Side, j \in Ids :
            /\ stream'[t][j].out = <<>> /\ Sound(stream'[t][j])
            /\ ~stream'[t][j].created => stream'[t][j] = NoStream
    BY <1>2, Zenon
  <1>4. QED
    BY <1>1, <1>3, Zenon DEF Types, AppTypes

LEMMA NoOrphansStep ==
    ASSUME Types, NoOrphans, KeepsSessions, NEW s \in Side, NEW i \in Ids,
           NEW b \in StreamRec(Frame), NEW q \in Seq(Frame), Effect(s, i, b, q),
           session[s].closed => b.closed
    PROVE  NoOrphans'
  <1>1. /\ stream'[s][i] = Cleared(b)
        /\ \A t \in Side, j \in Ids : t # s \/ j # i => stream'[t][j] = stream[t][j]
    BY EffectFacts
  <1>2. Cleared(b).closed = b.closed
    BY ClearedFacts
  <1>3. ASSUME NEW t \in Side, NEW j \in Ids, session'[t].closed, stream'[t][j].created
        PROVE  stream'[t][j].closed
    <2>1. session[t].closed
      BY <1>3, Zenon DEF KeepsSessions
    <2>2. CASE t = s /\ j = i
      BY <1>1, <1>2, <2>1, <2>2
    <2>3. CASE t # s \/ j # i
      <3>1. stream'[t][j] = stream[t][j]
        BY <1>1, <2>3
      <3>2. QED
        BY <1>3, <2>1, <3>1 DEF NoOrphans
    <2>4. QED
      BY <2>2, <2>3
  <1>4. QED
    BY <1>3, Zenon DEF NoOrphans

LEMMA StepKeeps ==
    ASSUME SmuxInv, UNCHANGED session, AppTypes', NEW s \in Side, NEW i \in Ids,
           NEW b, NEW q, NEW x, NEW d, Step(s, i, b, q, x, d)
    PROVE  SmuxInv'
  <1>1. Types /\ NoOrphans /\ Conserved /\ Order
    BY DEF SmuxInv
  <1>2. /\ b \in StreamRec(FramesOf(i)) /\ b.created /\ Sound(b)
        /\ q \in Seq(Frame) /\ x \in Seq(Item) /\ d \in Seq(Item)
        /\ Remains(s, i, q) /\ stream["client"][i].created
        /\ Conveys(i, stream[s][i], b, x) /\ Takes(s, i, stream[s][i], b, q, d)
        /\ session[s].closed => stream[s][i].closed
        /\ Effect(s, i, b, q)
    BY DEF Step
  <1>3. b \in StreamRec(Frame)
    BY <1>2, StreamRecFrame
  <1>4. FramesAbout(b.out, i) /\ NoSyn(b.out, i)
    <2>1. b.out \in Seq(FramesOf(i))
      BY <1>2 DEF StreamRec
    <2>2. QED
      BY <2>1, FramesOfFacts
  <1>5. KeepsSessions
    BY Zenon DEF KeepsSessions
  <1>6. session' \in [Side -> [closed : BOOLEAN, next_stream_id : Int]]
    BY <1>1 DEF Types
  <1>7. Types'
    BY <1>1, <1>2, <1>3, <1>6, TypesStep
  <1>8. NoOrphans'
    <2>1. session[s].closed => b.closed
      BY <1>2 DEF Conveys
    <2>2. QED
      BY <1>1, <1>2, <1>3, <1>5, <2>1, NoOrphansStep
  <1>9. Conserved'
    BY <1>1, <1>2, <1>3, <1>4, <1>5, ConserveStep
  <1>10. Order'
    <2>1. session'["client"].next_stream_id = session["client"].next_stream_id
      OBVIOUS
    <2>2. CASE s = "client"
      BY <1>1, <1>2, <1>3, <1>4, <1>5, <2>1, <2>2, OrderClient
    <2>3. CASE s = "server"
      BY <1>1, <1>2, <1>3, <1>4, <1>5, <2>1, <2>3, OrderServer
    <2>4. QED
      BY <2>2, <2>3 DEF Side
  <1>11. QED
    BY <1>7, <1>8, <1>9, <1>10 DEF SmuxInv

LEMMA HandledKeeps ==
    ASSUME SmuxInv, UNCHANGED session, AppTypes', NEW s \in Side, NEW i \in Ids,
           NEW b, NEW x, Handled(s, i, b, x)
    PROVE  SmuxInv'
  <1>1. Types /\ NoOrphans /\ Order
    BY DEF SmuxInv
  <1>2. PICK a, q : a = stream[s][i] /\ q = net[s]
    OBVIOUS
  <1>3. /\ a.created /\ b \in StreamRec(FramesOf(i)) /\ Sound(b) /\ x \in Seq(Item)
        /\ Steps(i, a, b, x) /\ StreamStep(s, i, b)
    BY <1>2 DEF Handled
  <1>4. a \in StreamRec(FramesOf(i)) /\ a.out = <<>>
    BY <1>1, <1>2, StreamHere
  <1>5. q \in Seq(Frame) /\ <<>> \in Seq(Item)
    BY <1>1, <1>2, EmptySeq DEF Types
  <1>6. b.created
    BY <1>3, Zenon DEF Steps
  <1>7. Conveys(i, a, b, x)
    <2>1. Sent(a, i) = FlattenSeq(a.pending_outbound)
      <3>1. FlattenSeq(a.pending_outbound) \in Seq(Item)
        BY <1>4, SentType
      <3>2. <<>> \o FlattenSeq(a.pending_outbound) = FlattenSeq(a.pending_outbound)
        BY <3>1, ConcatEmptySeq
      <3>3. QED
        BY <1>4, <3>2, PayloadEmpty, Zenon DEF Sent
    <2>2. QED
      BY <1>3, <2>1, Zenon DEF Steps, Conveys
  <1>8. Takes(s, i, a, b, q, <<>>)
    BY <1>2, <1>3, Zenon DEF Steps, Takes
  <1>9. Remains(s, i, q) /\ stream["client"][i].created
    <2>1. Remains(s, i, q)
      BY <1>2, <1>3 DEF Remains
    <2>2. stream["server"][i].created => stream["client"][i].created
      BY <1>1, Zenon DEF Order, Ordered
    <2>3. QED
      BY <1>2, <1>3, <2>1, <2>2 DEF Side
  <1>10. session[s].closed => a.closed
    BY <1>1, <1>2, <1>3, Zenon DEF NoOrphans
  <1>11. Effect(s, i, b, q)
    <2>1. PICK p, o : p = Peer(s) /\ o = Transmitted(s, net[p], b.out)
      OBVIOUS
    <2>2. net \in [Side -> Seq(Frame)] /\ p \in Side /\ p # s
      BY <1>1, <2>1, Sides DEF Types
    <2>3. net' = [net EXCEPT ![p] = Transmitted(s, @, b.out)]
      BY <1>3, <2>1 DEF StreamStep
    <2>4. net' = [net EXCEPT ![p] = o]
      BY <2>1, <2>2, <2>3, Zenon
    <2>5. [net EXCEPT ![p] = o] = [net EXCEPT ![s] = q, ![p] = o]
      BY <1>2, <2>2, Zenon
    <2>6. [net EXCEPT ![s] = q, ![p] = o] = [net EXCEPT ![s] = q, ![p] = Transmitted(s, @, b.out)]
      BY <2>1, <2>2, Zenon
    <2>7. stream' = [stream EXCEPT ![s][i] = Cleared(b)]
      BY <1>3 DEF StreamStep, Cleared
    <2>8. QED
      BY <2>1, <2>4, <2>5, <2>6, <2>7 DEF Effect
  <1>12. Step(s, i, b, q, x, <<>>)
    BY <1>2, <1>3, <1>5, <1>6, <1>7, <1>8, <1>9, <1>10, <1>11, Zenon DEF Step
  <1>13. QED
    BY <1>12, StepKeeps
-----------------------------------------------------------------------------
(* The actions.                                                             *)

LEMMA SameKeeps ==
    ASSUME SmuxInv, UNCHANGED <<session, stream, net>>, AppTypes'
    PROVE  SmuxInv'
  <1>1. Types /\ NoOrphans /\ Conserved /\ Order
    BY DEF SmuxInv
  <1>2. Types'
    BY <1>1, Zenon DEF Types, AppTypes
  <1>3. NoOrphans'
    BY <1>1, Zenon DEF NoOrphans
  <1>4. Conserved'
    BY <1>1, Zenon DEF Conserved
  <1>5. Order'
    BY <1>1, Zenon DEF Order, Open
  <1>6. QED
    BY <1>2, <1>3, <1>4, <1>5 DEF SmuxInv

\* A read completes.
LEMMA CompleteKeeps ==
    ASSUME NEW i, NEW a \in StreamRec(FramesOf(i)), Sound(a), a.reads > 0,
           NEW result \in Int, NEW buf \in Seq(Item),
           result <= Len(buf), Len(a.tcp_read_buffer) <= Len(buf),
           NEW b, b = [a EXCEPT !.reads = @ - 1, !.done = Append(@, result), !.tcp_read_buffer = buf]
    PROVE  b \in StreamRec(FramesOf(i)) /\ Sound(b) /\ Moves(i, a, b) /\ b.out = a.out
  <1>1. PICK n, done : n = a.reads - 1 /\ done = Append(a.done, result)
    BY Zenon
  <1>2. a.reads \in Nat /\ a.done \in Seq(Int) /\ a.tcp_read_buffer \in Seq(Item)
    BY DEF StreamRec
  <1>3. /\ n \in Nat /\ done \in Seq(Int) /\ Len(done) = Len(a.done) + 1
        /\ Len(a.done) \in Nat /\ Len(buf) \in Nat /\ Len(a.tcp_read_buffer) \in Nat
    BY <1>1, <1>2, AppendProperties, LenProperties
  <1>4. \A k \in 1..Len(done) : done[k] <= Len(buf)
    <2>1. ASSUME NEW k \in 1..Len(done) PROVE done[k] <= Len(buf)
      <3>1. CASE k = Len(a.done) + 1
        <4>1. done[k] = result
          BY <1>1, <1>2, <3>1, AppendProperties
        <4>2. QED
          BY <4>1
      <3>2. CASE k # Len(a.done) + 1
        <4>1. k \in 1..Len(a.done)
          BY <1>3, <2>1, <3>2
        <4>2. done[k] = a.done[k] /\ a.done[k] \in Int
          BY <1>1, <1>2, <4>1, AppendProperties, ElementOfSeq
        <4>3. a.done[k] <= Len(a.tcp_read_buffer)
          BY <4>1 DEF Sound
        <4>4. QED
          BY <1>3, <4>2, <4>3, SMTT(30)
      <3>3. QED
        BY <3>1, <3>2
    <2>2. QED
      BY <2>1
  <1>5. b = [a EXCEPT !.reads = n, !.done = done, !.tcp_read_buffer = buf]
    BY <1>1
  <1>6. b \in StreamRec(FramesOf(i))
    BY <1>3, <1>5, ZenonT(40) DEF StreamRec
  <1>7. /\ b.created = a.created /\ b.closed = a.closed /\ b.queued = a.queued
        /\ b.delivered = a.delivered /\ b.pending_tcp_writes = a.pending_tcp_writes
        /\ b.pending_outbound = a.pending_outbound /\ b.out = a.out
        /\ b.tcp_write_active = a.tcp_write_active
        /\ b.done = done /\ b.tcp_read_buffer = buf
    BY <1>5, Zenon DEF StreamRec
  <1>8. ~a.closed
    BY <1>2 DEF Sound
  <1>9. Sound(b)
    BY <1>4, <1>7, <1>8, Zenon DEF Sound
  <1>10. Sent(b, i) = Sent(a, i)
    BY <1>7, Zenon DEF Sent
  <1>11. Extends(Sent(a, i), Sent(a, i))
    BY SentType, ExtendsSelf
  <1>12. Moves(i, a, b)
    BY <1>7, <1>10, <1>11, Zenon DEF Moves
  <1>13. QED
    BY <1>6, <1>7, <1>9, <1>12

\* A record that sends nothing: only the stream changes.
LEMMA QuietStep ==
    ASSUME Types, NEW s \in Side, NEW i \in Ids, NEW b \in StreamRec(FramesOf(i)), b.out = <<>>,
           stream' = [stream EXCEPT ![s][i] = b], net' = net
    PROVE  StreamStep(s, i, b)
  <1>1. Cleared(b) = b
    BY DEF StreamRec, Cleared
  <1>2. PICK p : p = Peer(s)
    OBVIOUS
  <1>3. p \in Side /\ net \in [Side -> Seq(Frame)]
    BY <1>2, Sides DEF Types
  <1>4. Transmitted(s, net[p], b.out) = net[p]
    <2>1. net[p] \o <<>> = net[p]
      <3>1. net[p] \in Seq(Frame)
        BY <1>3
      <3>2. QED
        BY <3>1, ConcatEmptySeq
    <2>2. QED
      BY <2>1, Zenon DEF Transmitted
  <1>5. net = [net EXCEPT ![p] = net[p]]
    BY <1>3
  <1>6. net' = [net EXCEPT ![Peer(s)] = Transmitted(s, @, b.out)]
    BY <1>2, <1>3, <1>4, <1>5, Zenon
  <1>7. QED
    BY <1>1, <1>6, Zenon DEF StreamStep, Cleared

LEMMA AppBytesType ==
    ASSUME NEW i \in Ids, NEW from \in Nat, NEW n \in Nat
    PROVE  AppBytes(i, from, from + n) \in Seq(Item) /\ Len(AppBytes(i, from, from + n)) = n
  <1>1. PICK f : f = [k \in 1..n |-> <<i, from + k>>]
    BY Zenon
  <1>2. \A k \in 1..n : <<i, from + k>> \in Item
    BY DEF Item
  <1>3. f \in [1..n -> Item]
    BY <1>1, <1>2, Zenon
  <1>4. f \in Seq(Item) /\ Len(f) = n
    BY <1>3, SeqFromFunction
  <1>5. AppBytes(i, from, from + n) = f
    <2>1. (from + n) - from = n
      OBVIOUS
    <2>2. QED
      BY <1>1, <2>1, Zenon DEF AppBytes
  <1>6. QED
    BY <1>4, <1>5

AppRec == [sent : Nat, taken : Nat, eof : BOOLEAN, gone : BOOLEAN]

LEMMA AppChange ==
    ASSUME Types, NEW s \in Side, NEW i \in Ids, NEW g \in AppRec, app' = [app EXCEPT ![s][i] = g]
    PROVE  AppTypes'
  BY DEF Types, AppTypes, AppRec

\* One application resets, ends or sends.
LEMMA AppMoves ==
    ASSUME Types, NEW s \in Side, NEW i \in Ids,
           \/ \E gone \in BOOLEAN : app' = [app EXCEPT ![s][i].gone = gone]
           \/ app' = [app EXCEPT ![s][i].eof = TRUE]
           \/ app' = [app EXCEPT ![s][i].sent = @ + 1]
    PROVE  AppTypes'
  <1>1. PICK e : e = app[s][i]
    OBVIOUS
  <1>2. e \in AppRec
    BY <1>1 DEF Types, AppRec
  <1>3. CASE \E gone \in BOOLEAN : app' = [app EXCEPT ![s][i].gone = gone]
    <2>1. PICK gone \in BOOLEAN : app' = [app EXCEPT ![s][i].gone = gone]
      BY <1>3, Zenon
    <2>2. PICK g : g = [e EXCEPT !.gone = gone]
      BY Zenon
    <2>3. g \in AppRec
      BY <1>2, <2>2 DEF AppRec
    <2>4. app' = [app EXCEPT ![s][i] = g]
      BY <1>1, <2>1, <2>2
    <2>5. QED
      BY <2>3, <2>4, AppChange, Zenon
  <1>4. CASE app' = [app EXCEPT ![s][i].eof = TRUE]
    <2>1. PICK g : g = [e EXCEPT !.eof = TRUE]
      BY Zenon
    <2>2. g \in AppRec
      BY <1>2, <2>1, Zenon DEF AppRec
    <2>3. app' = [app EXCEPT ![s][i] = g]
      BY <1>1, <1>4, <2>1
    <2>4. QED
      BY <2>2, <2>3, AppChange, Zenon
  <1>5. CASE app' = [app EXCEPT ![s][i].sent = @ + 1]
    <2>1. PICK g : g = [e EXCEPT !.sent = @ + 1]
      BY Zenon
    <2>2. g \in AppRec
      BY <1>2, <2>1 DEF AppRec
    <2>3. app' = [app EXCEPT ![s][i] = g]
      BY <1>1, <1>5, <2>1
    <2>4. QED
      BY <2>2, <2>3, AppChange, Zenon
  <1>6. QED
    BY <1>3, <1>4, <1>5

LEMMA ReceiveKeeps ==
    ASSUME SmuxInv, NEW s \in Side, NEW i \in Ids, Receive(s, i)
    PROVE  SmuxInv'
  <1>1. Types
    BY DEF SmuxInv
  <1>2. PICK a, e, n : /\ a = stream[s][i] /\ e = app[s][i]
                       /\ n = Min({ReadBuf, app[s][i].sent - app[s][i].taken})
    OBVIOUS
  <1>3. a \in StreamRec(FramesOf(i)) /\ Sound(a) /\ a.out = <<>> /\ (~a.created => a = NoStream)
    BY <1>1, <1>2, StreamHere
  <1>4. e \in [sent : Nat, taken : Nat, eof : BOOLEAN, gone : BOOLEAN]
    BY <1>1, <1>2 DEF Types
  <1>5. a.reads > 0 /\ a.created
    <2>1. a.reads > 0
      BY <1>2 DEF Receive
    <2>2. QED
      BY <1>3, <2>1, NoStreamIdle
  <1>6. PICK buf : buf = a.tcp_read_buffer
    OBVIOUS
  <1>7. buf \in Seq(Item) /\ Len(buf) \in Nat
    <2>1. buf \in Seq(Item)
      BY <1>3, <1>6 DEF StreamRec
    <2>2. QED
      BY <2>1, LenProperties
  <1>8. PICK data : data = AppBytes(i, e.taken, e.taken + n) \o SubSeq(buf, n + 1, Len(buf))
    BY Zenon
  <1>9. /\ UNCHANGED <<session, net>>
        /\ \/ /\ n > 0 /\ app' = [app EXCEPT ![s][i].taken = @ + n]
              /\ stream' = [stream EXCEPT ![s][i] =
                    [a EXCEPT !.reads = @ - 1, !.done = Append(@, n), !.tcp_read_buffer = data]]
           \/ /\ app' = app
              /\ \E result \in {EndOfStream, ReadFailed} :
                    stream' = [stream EXCEPT ![s][i] =
                       [a EXCEPT !.reads = @ - 1, !.done = Append(@, result), !.tcp_read_buffer = buf]]
    BY <1>2, <1>6, <1>8, Zenon DEF Receive
  <1>10. n \in Int
    <2>1. ReadBuf \in Int /\ e.sent - e.taken \in Int
      BY <1>4, SmuxAssumption
    <2>2. PICK k \in Int, l \in Int : k = ReadBuf /\ l = e.sent - e.taken
      BY <2>1
    <2>3. QED
      BY <1>2, <2>2, MinMax
  <1>11. CASE /\ n > 0 /\ app' = [app EXCEPT ![s][i].taken = @ + n]
              /\ stream' = [stream EXCEPT ![s][i] =
                    [a EXCEPT !.reads = @ - 1, !.done = Append(@, n), !.tcp_read_buffer = data]]
    <2>1. n \in Nat /\ e.taken \in Nat
      BY <1>4, <1>10, <1>11
    <2>2. PICK x, y : x = AppBytes(i, e.taken, e.taken + n) /\ y = SubSeq(buf, n + 1, Len(buf))
      BY Zenon
    <2>3. x \in Seq(Item) /\ Len(x) = n
      BY <2>1, <2>2, AppBytesType, Zenon
    <2>4. /\ y \in Seq(Item) /\ Len(y) = IF n + 1 <= Len(buf) THEN Len(buf) - (n + 1) + 1 ELSE 0
      <3>1. \A k \in (n + 1)..Len(buf) : buf[k] \in Item
        BY <1>7, <2>1, ElementOfSeq
      <3>2. n + 1 \in Int /\ Len(buf) \in Int
        BY <1>7, <2>1
      <3>3. QED
        BY <2>2, <3>1, <3>2, SubSeqProperties
    <2>5. data \in Seq(Item) /\ Len(data) = Len(x) + Len(y)
      BY <1>8, <2>2, <2>3, <2>4, ConcatProperties
    <2>6. n <= Len(data) /\ Len(buf) <= Len(data)
      BY <1>7, <2>1, <2>3, <2>4, <2>5
    <2>7. PICK b : b = [a EXCEPT !.reads = @ - 1, !.done = Append(@, n), !.tcp_read_buffer = data]
      OBVIOUS
    <2>8. b \in StreamRec(FramesOf(i)) /\ Sound(b) /\ Moves(i, a, b) /\ b.out = a.out
      BY <1>3, <1>5, <1>6, <1>10, <2>5, <2>6, <2>7, CompleteKeeps, Zenon
    <2>9. StreamStep(s, i, b)
      <3>1. stream' = [stream EXCEPT ![s][i] = b] /\ net' = net /\ b.out = <<>>
        BY <1>3, <1>9, <1>11, <2>7, <2>8
      <3>2. QED
        BY <1>1, <2>8, <3>1, QuietStep, Zenon
    <2>10. Steps(i, a, b, <<>>) /\ <<>> \in Seq(Item)
      BY <1>3, <2>8, MovesSteps, EmptySeq
    <2>11. Handled(s, i, b, <<>>)
      BY <1>2, <1>5, <2>8, <2>9, <2>10, Zenon DEF Handled
    <2>12. AppTypes'
      <3>1. e.taken + n \in Nat
        BY <2>1
      <3>2. app' = [app EXCEPT ![s][i] = [e EXCEPT !.taken = e.taken + n]]
        BY <1>2, <1>11
      <3>3. PICK g : g = [e EXCEPT !.taken = e.taken + n]
        BY Zenon
      <3>4. g \in [sent : Nat, taken : Nat, eof : BOOLEAN, gone : BOOLEAN]
        BY <1>4, <3>1, <3>3
      <3>5. app' = [app EXCEPT ![s][i] = g]
        BY <3>2, <3>3
      <3>6. QED
        BY <1>1, <3>4, <3>5 DEF Types, AppTypes
    <2>13. QED
      BY <1>9, <2>11, <2>12, HandledKeeps
  <1>12. CASE /\ app' = app
              /\ \E result \in {EndOfStream, ReadFailed} :
                    stream' = [stream EXCEPT ![s][i] =
                       [a EXCEPT !.reads = @ - 1, !.done = Append(@, result), !.tcp_read_buffer = buf]]
    <2>1. PICK result \in {EndOfStream, ReadFailed} :
              stream' = [stream EXCEPT ![s][i] =
                 [a EXCEPT !.reads = @ - 1, !.done = Append(@, result), !.tcp_read_buffer = buf]]
      BY <1>12, Zenon
    <2>2. result \in Int /\ result <= Len(buf)
      BY <1>7 DEF EndOfStream, ReadFailed
    <2>3. PICK b : b = [a EXCEPT !.reads = @ - 1, !.done = Append(@, result), !.tcp_read_buffer = buf]
      OBVIOUS
    <2>4. Len(a.tcp_read_buffer) <= Len(buf)
      BY <1>6, <1>7
    <2>5. b \in StreamRec(FramesOf(i)) /\ Sound(b) /\ Moves(i, a, b) /\ b.out = a.out
      BY <1>3, <1>5, <1>7, <2>2, <2>3, <2>4, CompleteKeeps, Zenon
    <2>6. StreamStep(s, i, b)
      <3>1. stream' = [stream EXCEPT ![s][i] = b] /\ net' = net /\ b.out = <<>>
        BY <1>3, <1>9, <2>1, <2>3, <2>5
      <3>2. QED
        BY <1>1, <2>5, <3>1, QuietStep, Zenon
    <2>7. Steps(i, a, b, <<>>) /\ <<>> \in Seq(Item)
      BY <1>3, <2>5, MovesSteps, EmptySeq
    <2>8. Handled(s, i, b, <<>>)
      BY <1>2, <1>5, <2>5, <2>6, <2>7, Zenon DEF Handled
    <2>9. AppTypes'
      BY <1>1, <1>12, Zenon DEF Types, AppTypes
    <2>10. QED
      BY <1>9, <2>8, <2>9, HandledKeeps
  <1>13. QED
    BY <1>9, <1>11, <1>12

\* The handlers of one stream that leave its application alone.
LEMMA HandlersKeep ==
    ASSUME SmuxInv, NEW s \in Side, NEW i \in Ids,
           \/ ReadHandler(s, i) \/ WriteHandler(s, i) \/ CloseTimer(s, i)
           \/ s = "server" /\ ResolveDone(i)
    PROVE  SmuxInv'
  <1>1. Types
    BY DEF SmuxInv
  <1>2. \E b, x : Handled(s, i, b, x)
    BY <1>1, ReadHandlerSteps, WriteHandlerSteps, CloseTimerSteps, ResolveDoneSteps, Zenon
  <1>3. UNCHANGED <<session, app>>
    BY DEF ReadHandler, WriteHandler, CloseTimer, ResolveDone
  <1>4. AppTypes'
    BY <1>1, <1>3, Zenon DEF Types, AppTypes
  <1>5. QED
    BY <1>2, <1>3, <1>4, HandledKeeps

LEMMA ConnectKeeps ==
    ASSUME SmuxInv, NEW i \in Ids, ConnectDone(i)
    PROVE  SmuxInv'
  <1>1. Types
    BY DEF SmuxInv
  <1>2. UNCHANGED <<stream, net>> \/ \E b, x : Handled("server", i, b, x)
    BY <1>1, ConnectDoneSteps, Zenon
  <1>3. session' = session
    BY DEF ConnectDone
  <1>4. "server" \in Side
    BY DEF Side
  <1>5. AppTypes'
    <2>1. app' = app \/ \E gone \in BOOLEAN : app' = [app EXCEPT !["server"][i].gone = gone]
      BY Zenon DEF ConnectDone
    <2>2. QED
      BY <1>1, <1>4, <2>1, AppMoves, Zenon DEF Types, AppTypes
  <1>6. QED
    BY <1>2, <1>3, <1>4, <1>5, HandledKeeps, SameKeeps

LEMMA EnvironmentKeeps ==
    ASSUME SmuxInv,
           \/ \E s \in Side, i \in Ids : AppSend(s, i) \/ AppEof(s, i) \/ AppReset(s, i)
           \/ LinkDown
    PROVE  SmuxInv'
  <1>1. Types
    BY DEF SmuxInv
  <1>2. UNCHANGED <<session, stream, net>>
    BY DEF AppSend, AppEof, AppReset, LinkDown
  <1>3. AppTypes'
    <2>1. CASE LinkDown
      BY <1>1, <2>1, Zenon DEF Types, AppTypes, LinkDown
    <2>2. CASE \E s \in Side, i \in Ids : AppSend(s, i) \/ AppEof(s, i) \/ AppReset(s, i)
      <3>1. PICK s \in Side, i \in Ids :
                \/ \E gone \in BOOLEAN : app' = [app EXCEPT ![s][i].gone = gone]
                \/ app' = [app EXCEPT ![s][i].eof = TRUE]
                \/ app' = [app EXCEPT ![s][i].sent = @ + 1]
        BY <2>2, Zenon DEF AppSend, AppEof, AppReset
      <3>2. QED
        BY <1>1, <3>1, AppMoves
    <2>3. QED
      BY <2>1, <2>2
  <1>4. QED
    BY <1>2, <1>3, SameKeeps

\* What the close of its session makes of a stream.
Ended(a, c) ==
    /\ c \in StreamRec(Frame) /\ c.out = <<>> /\ Sound(c)
    /\ c.created = a.created /\ c.queued = a.queued /\ Held(c) = Held(a)
    /\ c.pending_outbound = <<>>
    /\ c.created => c.closed
    /\ a.closed => c.closed
    /\ ~c.created => c = NoStream

LEMMA CloseEnds ==
    ASSUME Types, NEW s \in Side, NEW i \in Ids, NEW c,
           c = IF stream[s][i].created THEN Cleared(Close(i, stream[s][i])) ELSE stream[s][i]
    PROVE  Ended(stream[s][i], c)
  <1>1. PICK a : a = stream[s][i]
    OBVIOUS
  <1>2. /\ a \in StreamRec(FramesOf(i)) /\ a \in StreamRec(Frame) /\ Sound(a) /\ a.out = <<>>
        /\ ~a.created => a = NoStream
    BY <1>1, StreamHere
  <1>3. CASE a.created
    <2>1. PICK b : b = Close(i, a)
      OBVIOUS
    <2>2. b \in StreamRec(FramesOf(i)) /\ Sound(b) /\ Moves(i, a, b)
      BY <1>2, <2>1, CloseKeeps
    <2>3. b.closed /\ b.pending_outbound = <<>>
      BY <1>2, <2>1, <2>2, CloseKeeps DEF Sound
    <2>4. c = Cleared(b)
      BY <1>1, <1>3, <2>1
    <2>5. /\ c \in StreamRec(Frame) /\ c.out = <<>> /\ Sound(c)
          /\ c.created = b.created /\ c.closed = b.closed /\ c.queued = b.queued
          /\ c.pending_outbound = b.pending_outbound /\ Held(c) = Held(b)
      BY <2>2, <2>4, ClearedFacts
    <2>6. b.created = a.created /\ b.queued = a.queued /\ Held(b) = Held(a)
      BY <2>2, Zenon DEF Moves, Held
    <2>7. QED
      BY <1>1, <1>3, <2>3, <2>5, <2>6, Zenon DEF Ended
  <1>4. CASE ~a.created
    <2>1. c = a /\ a = NoStream
      BY <1>1, <1>2, <1>4
    <2>2. a.pending_outbound = <<>>
      BY <2>1, NoStreamIdle
    <2>3. QED
      BY <1>1, <1>2, <1>4, <2>1, <2>2, Zenon DEF Ended
  <1>5. QED
    BY <1>3, <1>4

LEMMA PayloadPrefix ==
    ASSUME NEW q \in Seq(Frame), NEW k \in 0..Len(q), NEW i
    PROVE  \E z \in Seq(Item) : /\ PayloadOf(SubSeq(q, 1, k), i) \in Seq(Item)
                                /\ PayloadOf(q, i) = PayloadOf(SubSeq(q, 1, k), i) \o z
  <1>1. PICK p, r : p = SubSeq(q, 1, k) /\ r = SubSeq(q, k + 1, Len(q))
    BY Zenon
  <1>2. p \in Seq(Frame) /\ r \in Seq(Frame) /\ p \o r = q
    BY <1>1, Halves, Zenon
  <1>3. PayloadOf(p \o r, i) = PayloadOf(p, i) \o PayloadOf(r, i)
    <2>1. p \in Seq(Frame) /\ r \in Seq(Frame)
      BY <1>2
    <2>2. QED
      BY <2>1, PayloadConcat
  <1>4. PayloadOf(p, i) \in Seq(Item) /\ PayloadOf(r, i) \in Seq(Item)
    BY <1>2, PayloadType
  <1>5. QED
    BY <1>1, <1>2, <1>3, <1>4, Zenon

LEMMA SessionCloseKeeps ==
    ASSUME SmuxInv, NEW s \in Side, SessionClose(s), app' = app
    PROVE  SmuxInv'
  <1>1. Types /\ NoOrphans /\ Conserved /\ Order
    BY DEF SmuxInv
  <1>2. PICK p : p = Peer(s)
    OBVIOUS
  <1>3. p \in Side /\ p # s /\ Peer(p) = s /\ \A t \in Side : t = s \/ t = p
    BY <1>2, Sides
  <1>4. PICK k \in 0..Len(net[p]) : net' = [net EXCEPT ![s] = <<>>, ![p] = SubSeq(@, 1, k)]
    BY <1>2, Zenon DEF SessionClose
  <1>5. PICK q : q = SubSeq(net[p], 1, k)
    BY Zenon
  <1>6. net \in [Side -> Seq(Frame)] /\ net[p] \in Seq(Frame) /\ q \in Seq(Frame)
    <2>1. net \in [Side -> Seq(Frame)] /\ net[p] \in Seq(Frame)
      BY <1>1, <1>3 DEF Types
    <2>2. QED
      BY <1>4, <1>5, <2>1, Halves
  <1>7. net' = [net EXCEPT ![s] = <<>>, ![p] = q]
    BY <1>3, <1>4, <1>5, <1>6, Zenon
  <1>8. net'[s] = <<>> /\ net'[p] = q /\ net' \in [Side -> Seq(Frame)]
    <2>1. <<>> \in Seq(Frame)
      BY EmptySeq
    <2>2. QED
      BY <1>3, <1>6, <1>7, <2>1, Zenon
  <1>9. PICK g : g = [i \in Ids |-> IF stream[s][i].created THEN Cleared(Close(i, stream[s][i]))
                                    ELSE stream[s][i]]
    BY Zenon
  <1>10. stream' = [stream EXCEPT ![s] = g]
    BY <1>9, Zenon DEF SessionClose, Cleared
  <1>11. \A i \in Ids : Ended(stream[s][i], g[i])
    <2>1. SUFFICES ASSUME NEW i \in Ids PROVE Ended(stream[s][i], g[i])
      OBVIOUS
    <2>2. g[i] = IF stream[s][i].created THEN Cleared(Close(i, stream[s][i])) ELSE stream[s][i]
      BY <1>9
    <2>3. QED
      BY <1>1, <2>2, CloseEnds
  <1>12. g \in [Ids -> StreamRec(Frame)]
    <2>1. \A i \in Ids : g[i] \in StreamRec(Frame)
      BY <1>11, Zenon DEF Ended
    <2>2. g = [i \in Ids |-> g[i]]
      BY <1>9
    <2>3. QED
      BY <2>1, <2>2
  <1>13. /\ stream' \in [Side -> [Ids -> StreamRec(Frame)]]
         /\ stream'[s] = g /\ stream'[p] = stream[p]
    BY <1>1, <1>3, <1>10, <1>12 DEF Types
  <1>14. /\ session' \in [Side -> [closed : BOOLEAN, next_stream_id : Int]]
         /\ session'[s].closed /\ session'[p].closed = session[p].closed
         /\ session'["client"].next_stream_id = session["client"].next_stream_id
    <2>1. PICK n : n = [session[s] EXCEPT !.closed = TRUE]
      BY Zenon
    <2>2. session \in [Side -> [closed : BOOLEAN, next_stream_id : Int]]
      BY <1>1 DEF Types
    <2>3. /\ n \in [closed : BOOLEAN, next_stream_id : Int] /\ n.closed
          /\ n.next_stream_id = session[s].next_stream_id
      BY <2>1, <2>2, Zenon
    <2>4. session' = [session EXCEPT ![s] = n]
      BY <2>1, <2>2 DEF SessionClose
    <2>5. "client" \in Side
      BY DEF Side
    <2>6. session'[s] = n /\ session'[p] = session[p] /\ session' \in [Side -> [closed : BOOLEAN, next_stream_id : Int]]
      BY <1>3, <2>2, <2>3, <2>4
    <2>7. QED
      BY <1>3, <2>3, <2>5, <2>6
  <1>15. \A i \in Ids : /\ stream'[s][i].created = stream[s][i].created
                        /\ stream'[p][i].created = stream[p][i].created
    BY <1>11, <1>13, Zenon DEF Ended
  <1>16. Types'
    <2>1. \A t \in Side, i \in Ids : /\ stream'[t][i].out = <<>> /\ Sound(stream'[t][i])
                                     /\ ~stream'[t][i].created => stream'[t][i] = NoStream
      <3>1. \A i \in Ids : /\ g[i].out = <<>> /\ Sound(g[i])
                           /\ ~g[i].created => g[i] = NoStream
        BY <1>11, Zenon DEF Ended
      <3>2. \A i \in Ids : /\ stream[p][i].out = <<>> /\ Sound(stream[p][i])
                           /\ ~stream[p][i].created => stream[p][i] = NoStream
        BY <1>1, <1>3, StreamHere
      <3>3. QED
        BY <1>3, <1>13, <3>1, <3>2, Zenon
    <2>2. app' \in [Side -> [Ids -> [sent : Nat, taken : Nat, eof : BOOLEAN, gone : BOOLEAN]]]
      BY <1>1 DEF Types
    <2>3. QED
      BY <1>8, <1>13, <1>14, <2>1, <2>2, Zenon DEF Types
  <1>17. NoOrphans'
    <2>1. ASSUME NEW t \in Side, NEW i \in Ids, session'[t].closed, stream'[t][i].created
          PROVE  stream'[t][i].closed
      <3>1. CASE t = s
        BY <1>11, <1>13, <2>1, <3>1, Zenon DEF Ended
      <3>2. CASE t = p
        BY <1>1, <1>13, <1>14, <2>1, <3>2 DEF NoOrphans
      <3>3. QED
        BY <1>3, <3>1, <3>2
    <2>2. QED
      BY <2>1, Zenon DEF NoOrphans
  <1>18. Conserved'
    <2>1. SUFFICES ASSUME NEW i \in Ids
                   PROVE  /\ Balanced(stream'[s][i], stream'[p][i], PayloadOf(net'[s], i),
                                      ~session'[s].closed, ~session'[p].closed)
                          /\ Balanced(stream'[p][i], stream'[s][i], PayloadOf(net'[p], i),
                                      ~session'[p].closed, ~session'[s].closed)
      <3>1. \A i \in Ids : /\ Balanced(stream'[s][i], stream'[Peer(s)][i], PayloadOf(net'[s], i),
                                       ~session'[s].closed, ~session'[Peer(s)].closed)
                           /\ Balanced(stream'[p][i], stream'[Peer(p)][i], PayloadOf(net'[p], i),
                                       ~session'[p].closed, ~session'[Peer(p)].closed)
        BY <1>2, <1>3, <2>1, Zenon
      <3>2. \A t \in Side, i \in Ids :
                Balanced(stream'[t][i], stream'[Peer(t)][i], PayloadOf(net'[t], i),
                         ~session'[t].closed, ~session'[Peer(t)].closed)
        BY <1>3, <3>1, Zenon
      <3>3. QED
        BY <3>2, Zenon DEF Conserved
    <2>2. PICK a, c, r : a = stream[s][i] /\ c = stream'[s][i] /\ r = stream[p][i]
      OBVIOUS
    <2>3. Ended(a, c) /\ stream'[p][i] = r
      BY <1>11, <1>13, <2>2
    <2>4. a \in StreamRec(Frame) /\ c \in StreamRec(Frame) /\ r \in StreamRec(Frame)
      <3>1. a \in StreamRec(Frame) /\ r \in StreamRec(Frame)
        BY <1>1, <1>3, <2>2, StreamHere
      <3>2. QED
        BY <2>3, <3>1, Zenon DEF Ended
    <2>5. /\ Balanced(a, r, PayloadOf(net[s], i), ~session[s].closed, ~session[p].closed)
          /\ Balanced(r, a, PayloadOf(net[p], i), ~session[p].closed, ~session[s].closed)
      BY <1>1, <1>2, <1>3, <2>2, Zenon DEF Conserved
    <2>6. Balanced(c, r, PayloadOf(net'[s], i), ~session'[s].closed, ~session'[p].closed)
      <3>1. Held(c) = Held(a) /\ Extends(Held(a), r.queued)
        BY <2>3, <2>5, Zenon DEF Ended, Balanced
      <3>2. QED
        BY <1>14, <3>1, Zenon DEF Balanced
    <2>7. Balanced(r, c, PayloadOf(q, i), ~session[p].closed, FALSE)
      <3>1. PICK z \in Seq(Item) : /\ PayloadOf(q, i) \in Seq(Item)
                                   /\ PayloadOf(net[p], i) = PayloadOf(q, i) \o z
        BY <1>4, <1>5, <1>6, PayloadPrefix, ZenonT(40)
      <3>2. PICK v \in Seq(Item), v2 \in Seq(Item) : v = PayloadOf(net[p], i) /\ v2 = PayloadOf(q, i)
        BY <1>6, PayloadType
      <3>3. c.queued = a.queued /\ c.pending_outbound = <<>>
        BY <2>3, Zenon DEF Ended
      <3>4. v = v2 \o z
        BY <3>1, <3>2
      <3>5. Balanced(r, a, v, ~session[p].closed, ~session[s].closed)
        BY <2>5, <3>2
      <3>6. Balanced(r, c, v2, ~session[p].closed, FALSE)
        BY <2>4, <3>3, <3>4, <3>5, BalancedClosed, Zenon
      <3>7. QED
        BY <3>2, <3>6, Zenon
    <2>8. Balanced(r, c, PayloadOf(net'[p], i), ~session'[p].closed, ~session'[s].closed)
      BY <1>8, <1>14, <2>7, Zenon DEF Balanced
    <2>9. QED
      BY <2>2, <2>3, <2>6, <2>8
  <1>19. Order'
    <2>1. PICK qc, qs : qc = net["client"] /\ qs = net["server"]
      OBVIOUS
    <2>2. "client" \in Side /\ "server" \in Side /\ qc \in Seq(Frame) /\ qs \in Seq(Frame)
      BY <1>1, <2>1 DEF Types, Side
    <2>3. PICK m \in 0..Len(qc), l \in 0..Len(qs) :
              net'["client"] = SubSeq(qc, 1, m) /\ net'["server"] = SubSeq(qs, 1, l)
      <3>1. 0 \in 0..Len(qc) /\ 0 \in 0..Len(qs)
        BY <2>2, LenProperties
      <3>2. SubSeq(qc, 1, 0) = <<>> /\ SubSeq(qs, 1, 0) = <<>>
        BY SubSeqEmpty
      <3>3. CASE s = "client"
        <4>1. p = "server"
          BY <1>2, <3>3 DEF Peer
        <4>2. QED
          BY <1>4, <1>5, <1>8, <2>1, <3>1, <3>2, <3>3, <4>1
      <3>4. CASE s = "server"
        <4>1. p = "client"
          BY <1>2, <3>4 DEF Peer
        <4>2. QED
          BY <1>4, <1>5, <1>8, <2>1, <3>1, <3>2, <3>4, <4>1
      <3>5. QED
        BY <3>3, <3>4 DEF Side
    <2>4. ~Open'
      BY <1>14 DEF Open, Side
    <2>5. SUFFICES ASSUME NEW i \in Ids
                   PROVE  /\ Ordered(i, stream'["client"][i].created, stream'["server"][i].created,
                                     net'["client"], net'["server"], Open')
                          /\ stream'["client"][i].created => i <= session'["client"].next_stream_id
      BY Zenon DEF Order
    <2>6. /\ stream'["client"][i].created = stream["client"][i].created
          /\ stream'["server"][i].created = stream["server"][i].created
      BY <1>3, <1>15, <2>2
    <2>7. Ordered(i, stream["client"][i].created, stream["server"][i].created, qc, qs, Open)
      BY <1>1, <2>1, Zenon DEF Order
    <2>8. Ordered(i, stream["client"][i].created, stream["server"][i].created,
                  SubSeq(qc, 1, m), SubSeq(qs, 1, l), FALSE)
      BY <2>2, <2>7, OrderedCut, Zenon
    <2>9. Ordered(i, stream'["client"][i].created, stream'["server"][i].created,
                  net'["client"], net'["server"], Open')
      BY <2>3, <2>4, <2>6, <2>8, Zenon DEF Ordered
    <2>10. stream'["client"][i].created => i <= session'["client"].next_stream_id
      BY <1>1, <1>14, <2>6, Zenon DEF Order
    <2>11. QED
      BY <2>9, <2>10
  <1>20. QED
    BY <1>16, <1>17, <1>18, <1>19 DEF SmuxInv

\* A stream that has just been created.
Fresh(i, b) ==
    /\ b.created /\ ~b.closed /\ ~b.tcp_write_active
    /\ b.queued = <<>> /\ b.delivered = <<>> /\ b.done = <<>> /\ b.tcp_read_buffer = <<>>
    /\ b.pending_outbound = <<>> /\ b.pending_tcp_writes = <<>>
    /\ PayloadOf(b.out, i) = <<>>

LEMMA NewStreamFresh ==
    ASSUME NEW F, NEW phase \in {"idle", "resolve", "connect"}
    PROVE  /\ NewStream(phase) \in StreamRec(F) /\ NewStream(phase).out = <<>>
           /\ \A i : Fresh(i, NewStream(phase))
           /\ Sound(NewStream(phase))
  <1>1. PICK b : b = NewStream(phase)
    OBVIOUS
  <1>2. 0 \in Counter /\ InitWindow \in Counter
    BY SmuxAssumption DEF Counter
  <1>3. /\ <<>> \in Seq(F) /\ <<>> \in Seq(Int) /\ <<>> \in Seq(Item) /\ <<>> \in Seq(Seq(Item))
        /\ Len(<<>>) = 0
    BY EmptySeq
  <1>4. b = [created |-> TRUE, phase |-> phase, tcp_ready |-> FALSE,
             tcp_write_active |-> FALSE, local_fin_sent |-> FALSE,
             remote_fin_received |-> FALSE, closed |-> FALSE, close_timer |-> FALSE,
             reads |-> 0, done |-> <<>>, tcp_read_buffer |-> <<>>,
             pending_outbound |-> <<>>, pending_tcp_writes |-> <<>>,
             num_read |-> 0, num_written |-> 0, incr |-> 0,
             peer_consumed |-> 0, peer_window |-> InitWindow,
             send_shut |-> FALSE, queued |-> <<>>, delivered |-> <<>>, out |-> <<>>]
    BY <1>1, Zenon DEF NewStream, NoStream
  <1>5. b \in StreamRec(F)
    BY <1>2, <1>3, <1>4 DEF StreamRec
  <1>6. /\ b.created /\ ~b.closed /\ ~b.tcp_write_active /\ b.queued = <<>> /\ b.delivered = <<>>
        /\ b.done = <<>> /\ b.tcp_read_buffer = <<>> /\ b.pending_outbound = <<>>
        /\ b.pending_tcp_writes = <<>> /\ b.out = <<>>
    BY <1>4
  <1>7. \A i : Fresh(i, b)
    BY <1>6, PayloadEmpty, Zenon DEF Fresh
  <1>8. Sound(b)
    BY <1>3, <1>6 DEF Sound
  <1>9. QED
    BY <1>1, <1>5, <1>6, <1>7, <1>8

LEMMA FreshStep ==
    ASSUME NEW i, NEW b, Fresh(i, b)
    PROVE  /\ Conveys(i, NoStream, b, <<>>) /\ Held(b) = Held(NoStream)
           /\ <<>> \in Seq(Item) /\ ~NoStream.closed
  <1>1. /\ ~NoStream.closed /\ NoStream.queued = <<>> /\ NoStream.delivered = <<>>
        /\ NoStream.pending_outbound = <<>> /\ NoStream.pending_tcp_writes = <<>>
    BY NoStreamIdle
  <1>2. <<>> \in Seq(Item) /\ <<>> \o <<>> = <<>>
    BY EmptySeq, ConcatEmptySeq
  <1>3. Sent(b, i) = <<>> /\ FlattenSeq(NoStream.pending_outbound) \o <<>> = <<>>
    BY <1>1, <1>2, FlattenEmpty, Zenon DEF Sent, Fresh
  <1>4. Extends(<<>>, <<>>)
    BY <1>2, Zenon DEF Extends
  <1>5. b.queued = NoStream.queued \o <<>>
    BY <1>1, <1>2, Zenon DEF Fresh
  <1>6. Conveys(i, NoStream, b, <<>>)
    BY <1>1, <1>3, <1>4, <1>5, Zenon DEF Conveys
  <1>7. Held(b) = Held(NoStream)
    BY <1>1, Zenon DEF Held, Fresh
  <1>8. QED
    BY <1>1, <1>2, <1>6, <1>7

\* start_client of the stream that open_stream has made.
LEMMA StartClientFresh ==
    ASSUME NEW i \in Ids, NEW gone, NEW b,
           b = StartClient(SendFrame(NewStream("idle"), Syn(i)), gone)
    PROVE  b \in StreamRec(Frame) /\ Sound(b) /\ Fresh(i, b) /\ b.out = <<Syn(i)>>
  <1>1. PICK n, f, m, r, w, g : /\ n = NewStream("idle") /\ f = Syn(i)
                                /\ m = SendFrame(n, f)
                                /\ r = [m EXCEPT !.tcp_ready = TRUE]
                                /\ w = FlushTcpWrites(r) /\ g = StartTcpRead(w)
    BY Zenon
  <1>2. n \in StreamRec(Frame) /\ Sound(n) /\ Fresh(i, n) /\ n.out = <<>>
    BY <1>1, NewStreamFresh
  <1>3. PICK o : o = <<f>>
    BY Zenon
  <1>4. f \in Frame /\ o \in Seq(Frame) /\ Append(<<>>, f) = o
    <2>1. f \in Frame
      BY <1>1 DEF Syn, Frame
    <2>2. QED
      BY <1>3, <2>1
  <1>5. m = [n EXCEPT !.out = o]
    BY <1>1, <1>2, <1>4, Zenon DEF SendFrame
  <1>6. r = [m EXCEPT !.tcp_ready = TRUE] /\ m \in StreamRec(Frame)
    BY <1>1, <1>2, <1>4, <1>5, ZenonT(40) DEF StreamRec
  <1>7. r \in StreamRec(Frame)
    BY <1>6, Zenon DEF StreamRec
  <1>8. /\ r.created /\ ~r.closed /\ ~r.tcp_write_active
        /\ r.queued = <<>> /\ r.delivered = <<>> /\ r.done = <<>> /\ r.tcp_read_buffer = <<>>
        /\ r.pending_outbound = <<>> /\ r.pending_tcp_writes = <<>> /\ r.out = o
    <2>1. /\ m.created = n.created /\ m.closed = n.closed /\ m.tcp_write_active = n.tcp_write_active
          /\ m.queued = n.queued /\ m.delivered = n.delivered /\ m.done = n.done
          /\ m.tcp_read_buffer = n.tcp_read_buffer /\ m.pending_outbound = n.pending_outbound
          /\ m.pending_tcp_writes = n.pending_tcp_writes /\ m.out = o
      BY <1>2, <1>5, Zenon DEF StreamRec
    <2>2. /\ r.created = m.created /\ r.closed = m.closed /\ r.tcp_write_active = m.tcp_write_active
          /\ r.queued = m.queued /\ r.delivered = m.delivered /\ r.done = m.done
          /\ r.tcp_read_buffer = m.tcp_read_buffer /\ r.pending_outbound = m.pending_outbound
          /\ r.pending_tcp_writes = m.pending_tcp_writes /\ r.out = m.out
      BY <1>6, Zenon DEF StreamRec
    <2>3. QED
      BY <1>2, <2>1, <2>2, Zenon DEF Fresh
  <1>9. Sound(r)
    <2>1. Len(<<>>) = 0
      OBVIOUS
    <2>2. QED
      BY <1>8, <2>1 DEF Sound
  <1>10. w \in StreamRec(Frame) /\ Sound(w) /\ Same(r, w)
    BY <1>1, <1>7, <1>9, FlushTcpWritesKeeps
  <1>11. g \in StreamRec(Frame) /\ Sound(g) /\ Same(w, g)
    BY <1>1, <1>10, StartTcpReadKeeps
  <1>12. b = r \/ b = g
    BY <1>1, Zenon DEF StartClient
  <1>13. PayloadOf(o, i) = <<>>
    <2>1. \A k \in 1..Len(o) : ~(o[k].cmd = "psh" /\ o[k].id = i)
      <3>1. Len(o) = 1 /\ o[1] = f /\ f.cmd = "syn"
        BY <1>1, <1>3 DEF Syn
      <3>2. QED
        BY <3>1
    <2>2. QED
      BY <1>4, <2>1, PayloadNone
  <1>14. g.tcp_write_active = r.tcp_write_active
    <2>1. w = r
      BY <1>1, <1>8, Zenon DEF FlushTcpWrites
    <2>2. g.tcp_write_active = w.tcp_write_active
      <3>1. g = w \/ g = [w EXCEPT !.reads = @ + 1]
        BY <1>1, Zenon DEF StartTcpRead
      <3>2. CASE g = w
        BY <3>2
      <3>3. CASE g = [w EXCEPT !.reads = @ + 1]
        BY <1>10, <3>3, Zenon DEF StreamRec
      <3>4. QED
        BY <3>1, <3>2, <3>3
    <2>3. QED
      BY <2>1, <2>2
  <1>15. Fresh(i, r) /\ Fresh(i, g) /\ g.out = o
    BY <1>8, <1>10, <1>11, <1>13, <1>14, Zenon DEF Fresh, Same
  <1>16. QED
    BY <1>1, <1>3, <1>7, <1>8, <1>9, <1>11, <1>12, <1>15, Zenon

LEMMA IdsAreInts == Ids \subseteq Int
  BY SmuxAssumption DEF Ids

\* A handler that takes nothing from the wire.
LEMMA StreamStepEffect ==
    ASSUME Types, NEW s \in Side, NEW i \in Ids, NEW b, StreamStep(s, i, b)
    PROVE  Effect(s, i, b, net[s])
  <1>1. PICK p, q, o : p = Peer(s) /\ q = net[s] /\ o = Transmitted(s, net[p], b.out)
    OBVIOUS
  <1>2. net \in [Side -> Seq(Frame)] /\ p \in Side /\ p # s
    BY <1>1, Sides DEF Types
  <1>3. net' = [net EXCEPT ![p] = Transmitted(s, @, b.out)]
    BY <1>1 DEF StreamStep
  <1>4. net' = [net EXCEPT ![p] = o]
    BY <1>1, <1>2, <1>3, Zenon
  <1>5. [net EXCEPT ![p] = o] = [net EXCEPT ![s] = q, ![p] = o]
    BY <1>1, <1>2, Zenon
  <1>6. [net EXCEPT ![s] = q, ![p] = o] = [net EXCEPT ![s] = q, ![p] = Transmitted(s, @, b.out)]
    BY <1>1, <1>2, Zenon
  <1>7. stream' = [stream EXCEPT ![s][i] = Cleared(b)]
    BY DEF StreamStep, Cleared
  <1>8. QED
    BY <1>1, <1>4, <1>5, <1>6, <1>7 DEF Effect

\* Frames about other streams.
LEMMA OrderedOther ==
    ASSUME NEW i, NEW c, NEW v, NEW qc \in Seq(Frame), NEW qs \in Seq(Frame), NEW open,
           Ordered(i, c, v, qc, qs, open), NEW o \in Seq(Frame), ~Mentions(o, i)
    PROVE  Ordered(i, c, v, qc, qs \o o, open)
  <1>1. PICK w : w = qs \o o
    BY Zenon
  <1>2. /\ Mentions(w, i) <=> Mentions(qs, i) \/ Mentions(o, i)
        /\ NoSyn(qs, i) /\ NoSyn(o, i) => NoSyn(w, i)
        /\ SynFirst(qs, i) /\ ~Mentions(o, i) => SynFirst(w, i)
    BY <1>1, AppendedFrames
  <1>3. NoSyn(o, i)
    BY DEF NoSyn, Mentions
  <1>4. Ordered(i, c, v, qc, w, open)
    BY <1>2, <1>3, Zenon DEF Ordered
  <1>5. QED
    BY <1>1, <1>4

\* b has sent the SYN of stream i and q is still on its way to the client.
Opening(i, b, q) == b.out = <<Syn(i)>> /\ q = net["client"]

\* What the SYN of a new stream does to the order of its frames.
LEMMA OrderAccept ==
    ASSUME Types, Order, KeepsSessions, NEW i \in Ids, NEW b \in StreamRec(Frame),
           NEW q \in Seq(Frame), Opening(i, b, q), Effect("client", i, b, q), b.created,
           session["client"].next_stream_id < i,
           session'["client"].next_stream_id = i
    PROVE  Order'
  <1>1. "client" \in Side /\ "server" \in Side /\ Peer("client") = "server" /\ "client" # "server"
    BY DEF Side, Peer
  <1>a. stream'["client"][i] = Cleared(b)
    BY <1>1, EffectFacts
  <1>b. \A t \in Side, j \in Ids : t # "client" \/ j # i => stream'[t][j] = stream[t][j]
    BY <1>1, EffectFacts
  <1>c. net'["client"] = q /\ net'["server"] = Transmitted("client", net["server"], b.out)
    BY <1>1, EffectFacts
  <1>2. PICK qc, qs, o : qc = net["client"] /\ qs = net["server"] /\ o = <<Syn(i)>>
    BY Zenon
  <1>3. qc \in Seq(Frame) /\ qs \in Seq(Frame)
    BY <1>1, <1>2 DEF Types
  <1>4. o \in Seq(Frame) /\ \A j : j # i => ~Mentions(o, j)
    <2>1. PICK f : f = Syn(i)
      OBVIOUS
    <2>2. f \in Frame /\ f.id = i
      BY <2>1 DEF Syn, Frame
    <2>3. o = <<f>> /\ o \in Seq(Frame) /\ Len(o) = 1 /\ o[1] = f
      BY <1>2, <2>1, <2>2
    <2>4. QED
      BY <2>2, <2>3 DEF Mentions
  <1>5. /\ stream'["client"][i] = Cleared(b)
        /\ \A t \in Side, j \in Ids : t # "client" \/ j # i => stream'[t][j] = stream[t][j]
        /\ net'["client"] = qc /\ net'["server"] = Transmitted("client", qs, o)
    BY <1>2, <1>a, <1>b, <1>c DEF Opening
  <1>6. Cleared(b).created
    BY ClearedFacts
  <1>7. Open' <=> Open
    BY <1>1, Zenon DEF KeepsSessions, Open
  <1>8. \/ ~Open /\ net'["server"] = qs
        \/ Open /\ net'["server"] = qs \o o
    BY <1>1, <1>5 DEF Transmitted, Open
  <1>9. session["client"].next_stream_id \in Int
    <2>1. session["client"] \in [closed : BOOLEAN, next_stream_id : Int]
      BY <1>1 DEF Types
    <2>2. QED
      BY <2>1
  <1>10. SUFFICES ASSUME NEW j \in Ids
                  PROVE  /\ Ordered(j, stream'["client"][j].created, stream'["server"][j].created,
                                    net'["client"], net'["server"], Open')
                         /\ stream'["client"][j].created => j <= session'["client"].next_stream_id
    BY Zenon DEF Order
  <1>11. PICK c \in BOOLEAN, v \in BOOLEAN, open \in BOOLEAN :
            /\ c = stream["client"][j].created /\ v = stream["server"][j].created /\ open = Open
    <2>1. stream["client"][j] \in StreamRec(Frame) /\ stream["server"][j] \in StreamRec(Frame)
      BY <1>1, StreamHere
    <2>2. stream["client"][j].created \in BOOLEAN /\ stream["server"][j].created \in BOOLEAN
      BY <2>1, Zenon DEF StreamRec
    <2>3. QED
      BY <2>2, Zenon DEF Open
  <1>12. Ordered(j, c, v, qc, qs, open) /\ (c => j <= session["client"].next_stream_id)
    BY <1>2, <1>11, Zenon DEF Order
  <1>13. j \in Int /\ i \in Int
    BY IdsAreInts
  <1>14. CASE j = i
    <2>1. ~c
      BY <1>9, <1>12, <1>13, <1>14
    <2>2. Ordered(j, FALSE, v, qc, qs, open)
      BY <1>12, <2>1, OrderedEquals, Zenon
    <2>3. /\ Ordered(j, TRUE, v, qc, qs \o o, open)
          /\ Ordered(j, TRUE, v, qc, qs, FALSE)
      <3>1. o = <<Syn(j)>>
        BY <1>2, <1>14
      <3>2. QED
        BY <1>3, <2>2, <3>1, OrderedOpen, Zenon
    <2>4. /\ stream'["client"][j].created
          /\ stream'["server"][j].created <=> v
      BY <1>1, <1>5, <1>6, <1>11, <1>14
    <2>5. PICK w : w = net'["server"]
      OBVIOUS
    <2>6. Ordered(j, TRUE, v, qc, w, open)
      <3>1. CASE Open /\ w = qs \o o
        BY <2>3, <3>1, Zenon
      <3>2. CASE ~Open /\ w = qs
        <4>1. open <=> FALSE
          BY <1>11, <3>2
        <4>2. QED
          BY <2>3, <3>2, <4>1, OrderedEquals, Zenon
      <3>3. QED
        BY <1>8, <2>5, <3>1, <3>2, Zenon
    <2>7. open <=> Open'
      BY <1>7, <1>11
    <2>8. Ordered(j, stream'["client"][j].created, stream'["server"][j].created, qc, w, Open')
      <3>1. PICK c1 \in BOOLEAN : c1 = TRUE
        BY Zenon
      <3>2. Ordered(j, c1, v, qc, w, open)
        BY <2>6, <3>1, Zenon
      <3>3. /\ c1 <=> stream'["client"][j].created
            /\ v <=> stream'["server"][j].created
            /\ open <=> Open'
        BY <2>4, <2>7, <3>1
      <3>4. QED
        BY <3>2, <3>3, OrderedEquals
    <2>9. j <= session'["client"].next_stream_id
      BY <1>13, <1>14
    <2>10. QED
      BY <1>5, <2>5, <2>8, <2>9
  <1>15. CASE j # i
    <2>1. PICK w : w = net'["server"]
      OBVIOUS
    <2>2. Ordered(j, c, v, qc, w, open)
      <3>1. CASE w = qs
        BY <1>12, <3>1
      <3>2. CASE w = qs \o o
        <4>1. ~Mentions(o, j)
          BY <1>4, <1>15
        <4>2. QED
          BY <1>3, <1>4, <1>12, <3>2, <4>1, OrderedOther
      <3>3. QED
        BY <1>8, <2>1, <3>1, <3>2
    <2>3. /\ c <=> stream'["client"][j].created
          /\ v <=> stream'["server"][j].created
          /\ open <=> Open'
      BY <1>1, <1>5, <1>7, <1>11, <1>15
    <2>4. Ordered(j, stream'["client"][j].created, stream'["server"][j].created, qc, w, Open')
      BY <2>2, <2>3, OrderedEquals
    <2>5. stream'["client"][j].created => j <= session'["client"].next_stream_id
      BY <1>9, <1>12, <1>13, <2>3
    <2>6. QED
      BY <1>5, <2>1, <2>4, <2>5
  <1>16. QED
    BY <1>14, <1>15

LEMMA AcceptKeeps ==
    ASSUME SmuxInv, HandleAccept
    PROVE  SmuxInv'
  <1>1. Types /\ NoOrphans /\ Conserved /\ Order
    BY DEF SmuxInv
  <1>2. "client" \in Side
    BY DEF Side
  <1>3. PICK i : i = NextStreamId(session["client"].next_stream_id)
    OBVIOUS
  <1>4. /\ i \in Ids /\ ~session["client"].closed
        /\ session' = [session EXCEPT !["client"].next_stream_id = i]
    BY <1>3, Zenon DEF HandleAccept
  <1>5. PICK gone \in BOOLEAN :
           /\ StreamStep("client", i, StartClient(SendFrame(NewStream("idle"), Syn(i)), gone))
           /\ app' = [app EXCEPT !["client"][i].gone = gone]
    BY <1>3, Zenon DEF HandleAccept
  <1>6. PICK b : b = StartClient(SendFrame(NewStream("idle"), Syn(i)), gone)
    OBVIOUS
  <1>7. b \in StreamRec(Frame) /\ Sound(b) /\ Fresh(i, b) /\ b.out = <<Syn(i)>>
    BY <1>4, <1>6, StartClientFresh
  <1>8. b.created /\ ~b.closed
    BY <1>7, Zenon DEF Fresh
  <1>9. PICK q : q = net["client"]
    OBVIOUS
  <1>10. q \in Seq(Frame) /\ Effect("client", i, b, q)
    <2>1. StreamStep("client", i, b)
      BY <1>5, <1>6
    <2>2. QED
      BY <1>1, <1>2, <1>4, <1>9, <2>1, StreamStepEffect DEF Types
  <1>11. session["client"] \in [closed : BOOLEAN, next_stream_id : Int] /\ i \in Int
    BY <1>1, <1>2, <1>4, IdsAreInts DEF Types
  <1>12. /\ session' \in [Side -> [closed : BOOLEAN, next_stream_id : Int]]
         /\ session'["client"].next_stream_id = i
         /\ KeepsSessions
    <2>1. session \in [Side -> [closed : BOOLEAN, next_stream_id : Int]]
      BY <1>1 DEF Types
    <2>2. PICK u : u = [session["client"] EXCEPT !.next_stream_id = i]
      BY Zenon
    <2>3. /\ u \in [closed : BOOLEAN, next_stream_id : Int]
          /\ u.next_stream_id = i /\ u.closed = session["client"].closed
      BY <1>11, <2>2
    <2>4. session' = [session EXCEPT !["client"] = u]
      BY <1>2, <1>4, <2>1, <2>2, Zenon
    <2>5. /\ session'["client"] = u
          /\ \A t \in Side : t # "client" => session'[t] = session[t]
      BY <1>2, <2>1, <2>4
    <2>6. KeepsSessions
      <3>1. SUFFICES ASSUME NEW t \in Side PROVE session'[t].closed = session[t].closed
        BY Zenon DEF KeepsSessions
      <3>2. CASE t = "client"
        BY <2>3, <2>5, <3>2
      <3>3. CASE t # "client"
        BY <2>5, <3>3
      <3>4. QED
        BY <3>2, <3>3
    <2>7. QED
      BY <1>2, <2>1, <2>3, <2>4, <2>5, <2>6
  <1>13. AppTypes'
    BY <1>1, <1>2, <1>4, <1>5, AppMoves, Zenon
  <1>14. i = session["client"].next_stream_id + 2
    BY <1>3 DEF NextStreamId
  <1>15. stream["client"][i] = NoStream
    <2>1. ~stream["client"][i].created
      <3>1. stream["client"][i].created => i <= session["client"].next_stream_id
        BY <1>1, <1>4, Zenon DEF Order
      <3>2. QED
        BY <1>11, <1>14, <3>1
    <2>2. QED
      BY <1>1, <1>2, <1>4, <2>1, StreamHere
  <1>16. Conveys(i, stream["client"][i], b, <<>>) /\ Held(b) = Held(stream["client"][i])
         /\ <<>> \in Seq(Item) /\ ~stream["client"][i].closed
    BY <1>7, <1>15, FreshStep
  <1>17. Takes("client", i, stream["client"][i], b, q, <<>>)
    BY <1>9, <1>16, Zenon DEF Takes
  <1>18. FramesAbout(b.out, i)
    <2>1. PICK f, o : f = Syn(i) /\ o = <<f>>
      BY Zenon
    <2>2. Len(o) = 1 /\ o[1] = f /\ f.id = i
      BY <2>1 DEF Syn
    <2>3. FramesAbout(o, i)
      BY <2>2 DEF FramesAbout
    <2>4. QED
      BY <1>7, <2>1, <2>3
  <1>19. Types'
    BY <1>1, <1>2, <1>4, <1>7, <1>8, <1>10, <1>12, <1>13, TypesStep
  <1>20. NoOrphans'
    BY <1>1, <1>2, <1>4, <1>7, <1>10, <1>12, NoOrphansStep
  <1>21. Conserved'
    BY <1>1, <1>2, <1>4, <1>7, <1>10, <1>12, <1>16, <1>17, <1>18, ConserveStep, Zenon
  <1>22. Order'
    <2>1. session["client"].next_stream_id < i
      BY <1>11, <1>14
    <2>2. Opening(i, b, q)
      BY <1>7, <1>9 DEF Opening
    <2>3. QED
      BY <1>1, <1>4, <1>7, <1>8, <1>10, <1>12, <2>1, <2>2, OrderAccept
  <1>23. QED
    BY <1>19, <1>20, <1>21, <1>22 DEF SmuxInv

LEMMA HeadPayload ==
    ASSUME NEW q \in Seq(Frame), q # <<>>, NEW i
    PROVE  PayloadOf(q, i) = Data(Head(q), i) \o PayloadOf(Tail(q), i)
  <1>1. PICK f, o, t : f = Head(q) /\ o = <<f>> /\ t = Tail(q)
    BY Zenon
  <1>2. f \in Frame /\ o \in Seq(Frame) /\ t \in Seq(Frame)
    BY <1>1, HeadTailProperties
  <1>3. q = o \o t
    BY <1>1, <1>2, HeadThenTail
  <1>4. PayloadOf(o, i) = Data(f, i)
    BY <1>1, <1>2, PayloadOne
  <1>5. PayloadOf(o \o t, i) = PayloadOf(o, i) \o PayloadOf(t, i)
    BY <1>2, PayloadConcat
  <1>6. QED
    BY <1>1, <1>3, <1>4, <1>5, Zenon

LEMMA MovesConveys ==
    ASSUME NEW i, NEW a \in StreamRec(FramesOf(i)), a.out = <<>>, NEW b, Moves(i, a, b)
    PROVE  Conveys(i, a, b, <<>>) /\ Held(b) = Held(a)
  <1>1. Sent(a, i) = FlattenSeq(a.pending_outbound)
    <2>1. FlattenSeq(a.pending_outbound) \in Seq(Item)
      BY SentType
    <2>2. <<>> \o FlattenSeq(a.pending_outbound) = FlattenSeq(a.pending_outbound)
      BY <2>1, ConcatEmptySeq
    <2>3. QED
      BY <2>2, PayloadEmpty, Zenon DEF Sent
  <1>2. Steps(i, a, b, <<>>)
    BY MovesSteps
  <1>3. QED
    BY <1>1, <1>2, Zenon DEF Steps, Conveys

\* The record a frame for a live stream leaves behind.
Answers(f, a, b) ==
    /\ b \in StreamRec(FramesOf(f.id)) /\ Sound(b) /\ b.created
    /\ Conveys(f.id, a, b, <<>>)
    /\ \/ b.closed /\ Held(b) = Held(a)
       \/ ~a.closed /\ Held(b) = Held(a) \o Data(f, f.id)

\* A frame has been taken off the wire, and its stream is now b.
LEMMA AfterKeeps ==
    ASSUME SmuxInv, UNCHANGED session, AppTypes', NEW s \in Side, ~session[s].closed, net[s] # <<>>,
           NEW b, Answers(Head(net[s]), stream[s][Head(net[s]).id], b),
           stream' = [stream EXCEPT ![s][Head(net[s]).id] = [b EXCEPT !.out = <<>>]],
           net' = [net EXCEPT ![s] = Tail(@), ![Peer(s)] = Transmitted(s, @, b.out)]
    PROVE  SmuxInv'
  <1>1. Types /\ Order
    BY DEF SmuxInv
  <1>2. PICK q, f, t : q = net[s] /\ f = Head(q) /\ t = Tail(q)
    BY Zenon
  <1>3. q \in Seq(Frame) /\ q # <<>>
    BY <1>1, <1>2 DEF Types
  <1>4. f \in Frame /\ t \in Seq(Frame)
    BY <1>2, <1>3, HeadTailProperties
  <1>5. PICK i \in Ids : i = f.id
    BY <1>4 DEF Frame
  <1>6. PICK d \in Seq(Item) : d = Data(f, i)
    BY <1>4, DataType
  <1>7. PICK a : a = stream[s][i]
    OBVIOUS
  <1>8. /\ b \in StreamRec(FramesOf(i)) /\ Sound(b) /\ b.created
        /\ Conveys(i, a, b, <<>>)
        /\ \/ b.closed /\ Held(b) = Held(a)
           \/ ~a.closed /\ Held(b) = Held(a) \o d
    BY <1>2, <1>5, <1>6, <1>7, Zenon DEF Answers
  <1>9. Effect(s, i, b, t)
    <2>1. PICK p : p = Peer(s)
      OBVIOUS
    <2>2. net \in [Side -> Seq(Frame)] /\ p \in Side /\ p # s
      BY <1>1, <2>1, Sides DEF Types
    <2>3. net' = [net EXCEPT ![s] = t, ![p] = Transmitted(s, @, b.out)]
      BY <1>2, <2>1, <2>2, Zenon
    <2>4. stream' = [stream EXCEPT ![s][i] = Cleared(b)]
      BY <1>2, <1>5 DEF Cleared
    <2>5. QED
      BY <2>1, <2>3, <2>4, Zenon DEF Effect
  <1>10. PayloadOf(q, i) = d \o PayloadOf(t, i)
    BY <1>2, <1>3, <1>6, HeadPayload, Zenon
  <1>11. ASSUME NEW j \in Ids \ {i} PROVE PayloadOf(t, j) = PayloadOf(q, j)
    <2>1. Data(f, j) = <<>>
      BY <1>5, <1>11, Zenon DEF Data
    <2>2. PayloadOf(q, j) = <<>> \o PayloadOf(t, j)
      BY <1>2, <1>3, <2>1, HeadPayload, Zenon
    <2>3. PayloadOf(t, j) \in Seq(Item)
      BY <1>4, PayloadType
    <2>4. QED
      BY <2>2, <2>3, ConcatEmptySeq
  <1>12. Takes(s, i, a, b, t, d)
    <2>1. a.closed => b.closed
      BY <1>8, Zenon DEF Conveys
    <2>2. QED
      BY <1>2, <1>8, <1>10, <1>11, <2>1, Zenon DEF Takes
  <1>13. Remains(s, i, t)
    BY <1>2, <1>3, <1>5 DEF Remains
  <1>14. stream["client"][i].created
    <2>1. PICK c, v, qc, qs : /\ c = stream["client"][i].created /\ v = stream["server"][i].created
                              /\ qc = net["client"] /\ qs = net["server"]
      OBVIOUS
    <2>2. Ordered(i, c, v, qc, qs, Open)
      BY <1>1, <2>1, Zenon DEF Order
    <2>3. Mentions(q, i)
      <3>1. 1 \in 1..Len(q) /\ q[1] = f
        BY <1>2, <1>3, TailFrames
      <3>2. QED
        BY <1>5, <3>1, Zenon DEF Mentions
    <2>4. q = qc \/ q = qs
      BY <1>2, <2>1 DEF Side
    <2>5. Mentions(qs, i) \/ Mentions(qc, i)
      BY <2>3, <2>4
    <2>6. QED
      BY <2>1, <2>2, <2>5, Zenon DEF Ordered
  <1>15. <<>> \in Seq(Item)
    BY EmptySeq
  <1>16. Step(s, i, b, t, <<>>, d)
    BY <1>4, <1>6, <1>7, <1>8, <1>9, <1>12, <1>13, <1>14, <1>15, Zenon DEF Step
  <1>17. QED
    BY <1>16, StepKeeps

\* A stream exists where a frame arrives for it, unless the frame is its SYN.
LEMMA SynOfNew ==
    ASSUME Types, Order, NEW s \in Side, net[s] # <<>>, NEW f, f = Head(net[s])
    PROVE  stream[s][f.id].created <=> f.cmd # "syn"
  <1>1. PICK qc, qs : qc = net["client"] /\ qs = net["server"]
    OBVIOUS
  <1>2. qc \in Seq(Frame) /\ qs \in Seq(Frame)
    BY <1>1 DEF Types, Side
  <1>3. f \in Frame
    <2>1. net[s] \in Seq(Frame)
      BY DEF Types
    <2>2. QED
      BY <2>1, HeadTailProperties
  <1>4. PICK i \in Ids : i = f.id
    BY <1>3 DEF Frame
  <1>5. PICK c \in BOOLEAN, v \in BOOLEAN : c = stream["client"][i].created /\ v = stream["server"][i].created
    <2>1. "client" \in Side /\ "server" \in Side
      BY DEF Side
    <2>2. stream["client"][i] \in StreamRec(Frame) /\ stream["server"][i] \in StreamRec(Frame)
      BY <2>1, StreamHere
    <2>3. stream["client"][i].created \in BOOLEAN /\ stream["server"][i].created \in BOOLEAN
      BY <2>2, Zenon DEF StreamRec
    <2>4. QED
      BY <2>3
  <1>6. Ordered(i, c, v, qc, qs, Open)
    BY <1>1, <1>5, Zenon DEF Order
  <1>7. CASE s = "client"
    <2>1. c /\ f.cmd # "syn"
      <3>1. qc # <<>> /\ f = Head(qc)
        BY <1>1, <1>7
      <3>2. Head(qc).id = i => c /\ Head(qc).cmd # "syn"
        BY <1>2, <1>6, <3>1, OrderedTakeClient, Zenon
      <3>3. QED
        BY <1>4, <3>1, <3>2
    <2>2. QED
      BY <1>4, <1>5, <1>7, <2>1, Zenon
  <1>8. CASE s = "server"
    <2>1. f.cmd = "syn" <=> ~v
      <3>1. qs # <<>> /\ f = Head(qs)
        BY <1>1, <1>8
      <3>2. Head(qs).id = i => (Head(qs).cmd = "syn" <=> ~v)
        BY <1>2, <1>6, <3>1, OrderedTake
      <3>3. QED
        BY <1>4, <3>1, <3>2
    <2>2. QED
      BY <1>4, <1>5, <1>8, <2>1
  <1>9. QED
    BY <1>7, <1>8 DEF Side

\* Frames without payload, answered by a record that has taken nothing.
LEMMA AnswersMoves ==
    ASSUME NEW f \in Frame, f.cmd # "psh", NEW a \in StreamRec(FramesOf(f.id)), a.out = <<>>,
           a.created, NEW b \in StreamRec(FramesOf(f.id)), Sound(b), Moves(f.id, a, b)
    PROVE  Answers(f, a, b)
  <1>1. Conveys(f.id, a, b, <<>>) /\ Held(b) = Held(a)
    BY MovesConveys
  <1>2. b.created
    BY Zenon DEF Moves
  <1>3. Data(f, f.id) = <<>>
    BY Zenon DEF Data
  <1>4. Held(a) \o <<>> = Held(a)
    BY HeldType, ConcatEmptySeq
  <1>5. a.closed => b.closed
    BY Zenon DEF Moves
  <1>6. QED
    BY <1>1, <1>2, <1>3, <1>4, <1>5, Zenon DEF Answers

LEMMA AnswersSyn ==
    ASSUME NEW f \in Frame, f.cmd = "syn", NEW phase \in {"resolve", "connect"}
    PROVE  Answers(f, NoStream, NewStream(phase))
  <1>1. PICK b : b = NewStream(phase)
    OBVIOUS
  <1>2. b \in StreamRec(FramesOf(f.id)) /\ Sound(b) /\ Fresh(f.id, b)
    BY <1>1, NewStreamFresh
  <1>3. Conveys(f.id, NoStream, b, <<>>) /\ Held(b) = Held(NoStream) /\ ~NoStream.closed
    BY <1>2, FreshStep
  <1>4. b.created
    BY <1>2, Zenon DEF Fresh
  <1>5. Held(b) = Held(b) \o <<>>
    BY <1>2, HeldType, ConcatEmptySeq
  <1>6. Data(f, f.id) = <<>>
    <2>1. f.cmd # "psh"
      OBVIOUS
    <2>2. QED
      BY <2>1, Zenon DEF Data
  <1>7. Answers(f, NoStream, b)
    BY <1>2, <1>3, <1>4, <1>5, <1>6, Zenon DEF Answers
  <1>8. QED
    BY <1>1, <1>7

LEMMA AnswersData ==
    ASSUME NEW f \in Frame, f.cmd = "psh", NEW a \in StreamRec(FramesOf(f.id)), a.out = <<>>,
           a.created, ~a.closed, Sound(a)
    PROVE  Answers(f, a, OnData(f.id, a, f.data))
  <1>1. PICK d, b : d = f.data /\ b = OnData(f.id, a, d)
    OBVIOUS
  <1>2. d \in Seq(Item) /\ Data(f, f.id) = d
    <2>1. f \in [cmd : {"psh"}, id : Ids, data : Seq(Item)]
      BY DEF Frame
    <2>2. QED
      BY <1>1, <2>1 DEF Data
  <1>3. /\ b \in StreamRec(FramesOf(f.id)) /\ Sound(b)
        /\ b.created = a.created /\ b.closed = a.closed /\ b.queued = a.queued
        /\ Held(b) = Held(a) \o d /\ Sent(b, f.id) = Sent(a, f.id)
    BY <1>1, <1>2, OnDataKeeps, Zenon
  <1>4. PICK p : p = FlattenSeq(a.pending_outbound)
    OBVIOUS
  <1>5. p \in Seq(Item) /\ a.queued \in Seq(Item)
    BY <1>4, HeldType
  <1>6. p \o <<>> = p /\ <<>> \o p = p /\ a.queued \o <<>> = a.queued
    BY <1>5, ConcatEmptySeq
  <1>7. Sent(a, f.id) = p
    BY <1>4, <1>6, PayloadEmpty, Zenon DEF Sent
  <1>8. Extends(p, p)
    BY <1>5, ExtendsSelf
  <1>9. Conveys(f.id, a, b, <<>>)
    BY <1>3, <1>4, <1>6, <1>7, <1>8, Zenon DEF Conveys
  <1>10. Answers(f, a, b)
    BY <1>2, <1>3, <1>9, Zenon DEF Answers
  <1>11. QED
    BY <1>1, <1>10

LEMMA ReceiveFrameKeeps ==
    ASSUME SmuxInv, NEW s \in Side, ReceiveFrame(s)
    PROVE  SmuxInv'
  <1>1. Types /\ Order
    BY DEF SmuxInv
  <1>2. PICK f, r, phase : /\ f = Head(net[s]) /\ r = stream[s][f.id]
                           /\ phase = IF config.unixSockets THEN "connect" ELSE "resolve"
    OBVIOUS
  <1>3. ~session[s].closed /\ net[s] # <<>> /\ app' = app
    BY Zenon DEF ReceiveFrame
  <1>4. f \in Frame
    <2>1. net[s] \in Seq(Frame)
      BY <1>1 DEF Types
    <2>2. QED
      BY <1>2, <1>3, <2>1, HeadTailProperties
  <1>5. f.id \in Ids
    BY <1>4 DEF Frame
  <1>6. r \in StreamRec(FramesOf(f.id)) /\ r.out = <<>> /\ Sound(r) /\ (~r.created => r = NoStream)
    BY <1>1, <1>2, <1>5, StreamHere
  <1>7. r.created <=> f.cmd # "syn"
    BY <1>1, <1>2, <1>3, SynOfNew
  <1>8. InStreams(s, f.id) <=> r.created /\ ~r.closed
    BY <1>2 DEF InStreams
  <1>9. AppTypes'
    BY <1>1, <1>3, Zenon DEF Types, AppTypes
  <1>10. ASSUME NEW b, Answers(f, r, b), UNCHANGED session,
                stream' = [stream EXCEPT ![s][f.id] = [b EXCEPT !.out = <<>>]],
                net' = [net EXCEPT ![s] = Tail(@), ![Peer(s)] = Transmitted(s, @, b.out)]
         PROVE  SmuxInv'
    BY <1>2, <1>3, <1>9, <1>10, AfterKeeps, Zenon
  <1>11. CASE SessionClose(s)
    BY <1>3, <1>11, SessionCloseKeeps
  <1>12. ASSUME NEW b, UNCHANGED session,
                stream' = [stream EXCEPT ![s][f.id] = [b EXCEPT !.out = <<>>]],
                net' = [net EXCEPT ![s] = Tail(@), ![Peer(s)] = Transmitted(s, @, b.out)],
                \/ f.cmd = "syn" /\ b = IF InStreams(s, f.id) THEN r ELSE NewStream(phase)
                \/ f.cmd # "syn" /\ ~InStreams(s, f.id) /\ b = r
                \/ f.cmd = "fin" /\ InStreams(s, f.id) /\ b = OnFin(r)
                \/ f.cmd = "psh" /\ InStreams(s, f.id) /\ b = OnData(f.id, r, f.data)
                \/ f.cmd = "upd" /\ InStreams(s, f.id) /\ b = OnUpdate(s, f.id, r, f.consumed, f.window)
         PROVE  SmuxInv'
    <2>1. CASE f.cmd = "syn" /\ b = IF InStreams(s, f.id) THEN r ELSE NewStream(phase)
      <3>1. r = NoStream /\ b = NewStream(phase)
        BY <1>6, <1>7, <1>8, <2>1
      <3>2. phase \in {"resolve", "connect"}
        BY <1>2
      <3>3. Answers(f, NoStream, NewStream(phase))
        BY <1>4, <2>1, <3>2, AnswersSyn
      <3>4. Answers(f, r, b)
        BY <3>1, <3>3
      <3>5. QED
        BY <1>10, <1>12, <3>4, Zenon
    <2>2. CASE f.cmd # "syn" /\ ~InStreams(s, f.id) /\ b = r
      <3>1. r.created /\ r.closed
        BY <1>7, <1>8, <2>2
      <3>2. Answers(f, r, r)
        <4>1. Same(r, r)
          BY Zenon DEF Same
        <4>2. Moves(f.id, r, r)
          BY <1>6, <4>1, SameMoves
        <4>3. Conveys(f.id, r, r, <<>>)
          BY <1>6, <4>2, MovesConveys
        <4>4. QED
          BY <1>6, <3>1, <4>3, Zenon DEF Answers
      <3>3. QED
        BY <1>10, <1>12, <2>2, <3>2, Zenon
    <2>3. CASE f.cmd = "fin" /\ InStreams(s, f.id) /\ b = OnFin(r)
      <3>1. b \in StreamRec(FramesOf(f.id)) /\ Sound(b) /\ Moves(f.id, r, b)
        BY <1>6, <2>3, OnFinKeeps
      <3>2. f.cmd # "psh" /\ r.created
        BY <1>8, <2>3
      <3>3. Answers(f, r, b)
        BY <1>4, <1>6, <3>1, <3>2, AnswersMoves
      <3>4. QED
        BY <1>10, <1>12, <3>3, Zenon
    <2>4. CASE f.cmd = "psh" /\ InStreams(s, f.id) /\ b = OnData(f.id, r, f.data)
      <3>1. Answers(f, r, OnData(f.id, r, f.data))
        BY <1>4, <1>6, <1>8, <2>4, AnswersData
      <3>2. Answers(f, r, b)
        BY <2>4, <3>1
      <3>3. QED
        BY <1>10, <1>12, <3>2, Zenon
    <2>5. CASE f.cmd = "upd" /\ InStreams(s, f.id) /\ b = OnUpdate(s, f.id, r, f.consumed, f.window)
      <3>1. f.consumed \in Counter /\ f.window \in Counter
        BY <1>4, <2>5 DEF Frame
      <3>2. b \in StreamRec(FramesOf(f.id)) /\ Sound(b) /\ Moves(f.id, r, b)
        BY <1>5, <1>6, <2>5, <3>1, OnUpdateKeeps
      <3>3. f.cmd # "psh" /\ r.created
        BY <1>8, <2>5
      <3>4. Answers(f, r, b)
        BY <1>4, <1>6, <3>2, <3>3, AnswersMoves
      <3>5. QED
        BY <1>10, <1>12, <3>4, Zenon
    <2>6. QED
      BY <1>12, <2>1, <2>2, <2>3, <2>4, <2>5
  <1>13. QED
    BY <1>2, <1>11, <1>12, Zenon DEF ReceiveFrame

LEMMA NoStreamType == NoStream \in StreamRec(Frame) /\ Sound(NoStream)
  <1>1. PICK b : b = NoStream
    OBVIOUS
  <1>2. 0 \in Counter /\ InitWindow \in Counter
    BY SmuxAssumption DEF Counter
  <1>3. /\ <<>> \in Seq(Frame) /\ <<>> \in Seq(Int) /\ <<>> \in Seq(Item) /\ <<>> \in Seq(Seq(Item))
        /\ Len(<<>>) = 0
    BY EmptySeq
  <1>4. b = [created |-> FALSE, phase |-> "idle", tcp_ready |-> FALSE,
             tcp_write_active |-> FALSE, local_fin_sent |-> FALSE,
             remote_fin_received |-> FALSE, closed |-> FALSE, close_timer |-> FALSE,
             reads |-> 0, done |-> <<>>, tcp_read_buffer |-> <<>>,
             pending_outbound |-> <<>>, pending_tcp_writes |-> <<>>,
             num_read |-> 0, num_written |-> 0, incr |-> 0,
             peer_consumed |-> 0, peer_window |-> InitWindow,
             send_shut |-> FALSE, queued |-> <<>>, delivered |-> <<>>, out |-> <<>>]
    BY <1>1 DEF NoStream
  <1>5. b \in StreamRec(Frame)
    BY <1>2, <1>3, <1>4 DEF StreamRec
  <1>6. ~b.tcp_write_active /\ ~b.closed /\ b.done = <<>>
    BY <1>4
  <1>7. Sound(b)
    BY <1>3, <1>6 DEF Sound
  <1>8. QED
    BY <1>1, <1>5, <1>7

LEMMA SmuxInit == Init => SmuxInv
  <1>1. SUFFICES ASSUME Init PROVE SmuxInv
    OBVIOUS
  <1>2. /\ stream = [s \in Side |-> [i \in Ids |-> NoStream]]
        /\ net = [s \in Side |-> <<>>]
        /\ session = [s \in Side |-> [closed |-> FALSE, next_stream_id |-> IF s = "client" THEN 1 ELSE 0]]
        /\ app = [s \in Side |-> [i \in Ids |-> NoApp]]
    BY <1>1, Zenon DEF Init
  <1>3. /\ \A s \in Side, i \in Ids : stream[s][i] = NoStream
        /\ \A s \in Side : net[s] = <<>> /\ ~session[s].closed
    BY <1>2
  <1>4. Types
    <2>1. stream \in [Side -> [Ids -> StreamRec(Frame)]]
      <3>1. PICK R, n : R = StreamRec(Frame) /\ n = NoStream
        OBVIOUS
      <3>2. n \in R
        BY <3>1, NoStreamType
      <3>3. QED
        BY <1>2, <3>1, <3>2
    <2>2. net \in [Side -> Seq(Frame)]
      <3>1. <<>> \in Seq(Frame)
        BY EmptySeq
      <3>2. QED
        BY <1>2, <3>1
    <2>3. session \in [Side -> [closed : BOOLEAN, next_stream_id : Int]]
      BY <1>2
    <2>4. app \in [Side -> [Ids -> [sent : Nat, taken : Nat, eof : BOOLEAN, gone : BOOLEAN]]]
      BY <1>2 DEF NoApp
    <2>5. NoStream.out = <<>> /\ Sound(NoStream)
      BY NoStreamIdle, NoStreamType
    <2>6. QED
      BY <1>3, <2>1, <2>2, <2>3, <2>4, <2>5, Zenon DEF Types
  <1>5. NoOrphans
    BY <1>3, Zenon DEF NoOrphans
  <1>6. Conserved
    <2>1. /\ NoStream.queued = <<>> /\ NoStream.delivered = <<>> /\ FlattenSeq(<<>>) = <<>>
          /\ NoStream.pending_outbound = <<>> /\ NoStream.pending_tcp_writes = <<>>
      BY NoStreamIdle, FlattenEmpty
    <2>2. <<>> \in Seq(Item) /\ <<>> \o <<>> = <<>>
      BY EmptySeq, ConcatEmptySeq
    <2>3. Held(NoStream) = <<>>
      BY <2>1, <2>2, Zenon DEF Held
    <2>4. Extends(<<>>, <<>>)
      BY <2>2, Zenon DEF Extends
    <2>5. ASSUME NEW i PROVE Balanced(NoStream, NoStream, PayloadOf(<<>>, i), TRUE, TRUE)
      BY <2>1, <2>2, <2>3, <2>4, PayloadEmpty, Zenon DEF Balanced
    <2>6. SUFFICES ASSUME NEW s \in Side, NEW i \in Ids
                   PROVE  Balanced(stream[s][i], stream[Peer(s)][i], PayloadOf(net[s], i),
                                   ~session[s].closed, ~session[Peer(s)].closed)
      BY Zenon DEF Conserved
    <2>7. /\ stream[s][i] = NoStream /\ stream[Peer(s)][i] = NoStream /\ net[s] = <<>>
          /\ (~session[s].closed) = TRUE /\ (~session[Peer(s)].closed) = TRUE
      BY <1>2, Sides
    <2>8. QED
      BY <2>5, <2>7, Zenon
  <1>7. Order
    <2>1. SUFFICES ASSUME NEW i \in Ids
                   PROVE  /\ Ordered(i, stream["client"][i].created, stream["server"][i].created,
                                     net["client"], net["server"], Open)
                          /\ stream["client"][i].created => i <= session["client"].next_stream_id
      BY Zenon DEF Order
    <2>2. /\ ~stream["client"][i].created /\ ~stream["server"][i].created
          /\ net["client"] = <<>> /\ net["server"] = <<>>
      BY <1>3, NoStreamIdle DEF Side
    <2>3. ~Mentions(<<>>, i) /\ NoSyn(<<>>, i) /\ SynFirst(<<>>, i)
      <3>1. 1..Len(<<>>) = {}
        OBVIOUS
      <3>2. QED
        BY <3>1, Zenon DEF Mentions, NoSyn, SynFirst
    <2>4. Ordered(i, stream["client"][i].created, stream["server"][i].created,
                  <<>>, <<>>, Open)
      BY <2>2, <2>3, Zenon DEF Ordered
    <2>5. QED
      BY <2>2, <2>4, Zenon
  <1>8. QED
    BY <1>4, <1>5, <1>6, <1>7 DEF SmuxInv

LEMMA SmuxNext == SmuxInv /\ [Next]_vars => SmuxInv'
  <1>1. SUFFICES ASSUME SmuxInv, [Next]_vars PROVE SmuxInv'
    OBVIOUS
  <1>2. CASE UNCHANGED vars
    <2>1. UNCHANGED <<session, stream, net>> /\ app' = app
      BY <1>2 DEF vars
    <2>2. AppTypes'
      BY <1>1, <2>1, Zenon DEF SmuxInv, Types, AppTypes
    <2>3. QED
      BY <1>1, <2>1, <2>2, SameKeeps
  <1>3. ASSUME EnvironmentStep PROVE SmuxInv'
    <2>1. CASE HandleAccept
      BY <1>1, <2>1, AcceptKeeps
    <2>2. CASE \/ \E s \in Side, i \in Ids : AppSend(s, i) \/ AppEof(s, i) \/ AppReset(s, i)
               \/ LinkDown
      BY <1>1, <2>2, EnvironmentKeeps
    <2>3. CASE Scavenge
      <3>1. SessionClose("client") /\ app' = app /\ "client" \in Side
        BY <2>3 DEF Scavenge, Side
      <3>2. QED
        BY <1>1, <3>1, SessionCloseKeeps
    <2>4. QED
      BY <1>3, <2>1, <2>2, <2>3, Zenon DEF EnvironmentStep
  <1>4. ASSUME NEW s \in Side, ProcessStep(s) PROVE SmuxInv'
    <2>1. CASE ReceiveFrame(s)
      BY <1>1, <2>1, ReceiveFrameKeeps
    <2>2. CASE KeepaliveTimeout(s)
      <3>1. SessionClose(s) /\ app' = app
        BY <2>2 DEF KeepaliveTimeout
      <3>2. QED
        BY <1>1, <3>1, SessionCloseKeeps
    <2>3. ASSUME NEW i \in Ids, Receive(s, i) PROVE SmuxInv'
      BY <1>1, <2>3, ReceiveKeeps
    <2>4. ASSUME NEW i \in Ids,
                 \/ ReadHandler(s, i) \/ WriteHandler(s, i) \/ CloseTimer(s, i)
                 \/ s = "server" /\ ResolveDone(i)
          PROVE  SmuxInv'
      BY <1>1, <2>4, HandlersKeep
    <2>5. ASSUME NEW i \in Ids, ConnectDone(i) PROVE SmuxInv'
      BY <1>1, <2>5, ConnectKeeps
    <2>6. QED
      BY <1>4, <2>1, <2>2, <2>3, <2>4, <2>5, Zenon DEF ProcessStep
  <1>5. QED
    BY <1>1, <1>2, <1>3, <1>4, Zenon DEF Next

(* Whatever handlers, frames, failures and closes come in whatever order,   *)
(* the streams are well formed, a session's close leaves no stream open,    *)
(* the bytes of each direction are accounted for, and SYN comes first.      *)
THEOREM SmuxInvariant == Spec => []SmuxInv
  BY SmuxInit, SmuxNext, PTL DEF Spec

(* SmuxSession::close closes every stream of the session, and none is added *)
(* to it later.                                                             *)
THEOREM SmuxNoOrphans == Spec => []NoOrphans
  <1>1. SmuxInv => NoOrphans
    BY DEF SmuxInv
  <1>2. QED
    BY <1>1, SmuxInvariant, PTL

LEMMA PrefixOf ==
    ASSUME NEW a \in Seq(Item), NEW z \in Seq(Item)
    PROVE  IsPrefix(a, a \o z)
  <1>1. PICK c : c = a \o z
    BY Zenon
  <1>2. /\ c \in Seq(Item) /\ Len(c) = Len(a) + Len(z) /\ Len(a) \in Nat /\ Len(z) \in Nat
        /\ \A k \in 1..Len(a) : c[k] = a[k]
    BY <1>1, ConcatProperties, LenProperties
  <1>3. Len(a) <= Len(c)
    BY <1>2
  <1>4. PICK x : x = SubSeq(c, 1, Len(a))
    BY Zenon
  <1>5. x \in Seq(Item) /\ Len(x) = Len(a) /\ \A k \in 1..Len(a) : x[k] = c[k]
    <2>1. 1..Len(a) \subseteq 1..Len(c)
      BY <1>2
    <2>2. QED
      BY <1>2, <1>3, <1>4, SubSeqProperties
  <1>6. x = a
    BY <1>2, <1>5, SeqEqual
  <1>7. QED
    BY <1>1, <1>3, <1>4, <1>6 DEF IsPrefix

LEMMA BalancedConserves ==
    ASSUME NEW to \in StreamRec(Frame), NEW from \in StreamRec(Frame), NEW w \in Seq(Item),
           NEW toOpen, NEW fromOpen, Balanced(to, from, w, toOpen, fromOpen)
    PROVE  /\ IsPrefix(to.delivered, from.queued)
           /\ ~to.closed /\ toOpen /\ ~from.closed /\ fromOpen =>
                 from.queued = to.delivered \o FlattenSeq(to.pending_tcp_writes)
                                  \o w \o FlattenSeq(from.pending_outbound)
  <1>1. PICK d, h, p, o : /\ d = to.delivered /\ h = FlattenSeq(to.pending_tcp_writes)
                          /\ p = FlattenSeq(from.pending_outbound) /\ o = from.queued
    OBVIOUS
  <1>2. d \in Seq(Item) /\ h \in Seq(Item) /\ p \in Seq(Item)
    BY <1>1, HeldType
  <1>3. Held(to) = d \o h
    BY <1>1 DEF Held
  <1>4. IsPrefix(d, o)
    <2>1. PICK z \in Seq(Item) : o = (d \o h) \o z
      BY <1>1, <1>3, Zenon DEF Balanced, Extends
    <2>2. Associates(d, h, z)
      BY <1>2, ItemsAssociate
    <2>3. PICK y : y = h \o z
      BY Zenon
    <2>4. y \in Seq(Item)
      BY <1>2, <2>3, ConcatProperties
    <2>5. o = d \o y
      BY <2>1, <2>2, <2>3, Zenon DEF Associates
    <2>6. IsPrefix(d, d \o y)
      BY <1>2, <2>4, PrefixOf
    <2>7. QED
      BY <2>5, <2>6
  <1>5. ~to.closed /\ toOpen /\ ~from.closed /\ fromOpen => o = ((d \o h) \o w) \o p
    <2>1. ~to.closed /\ toOpen /\ ~from.closed /\ fromOpen => (d \o h) \o (w \o p) = o
      BY <1>1, <1>3, Zenon DEF Balanced
    <2>2. PICK y : y = d \o h
      BY Zenon
    <2>3. y \in Seq(Item)
      BY <1>2, <2>2, ConcatProperties
    <2>4. Associates(y, w, p)
      BY <1>2, <2>3, ItemsAssociate
    <2>5. QED
      BY <2>1, <2>2, <2>4, Zenon DEF Associates
  <1>6. QED
    BY <1>1, <1>4, <1>5, Zenon

LEMMA SmuxInvConserves == SmuxInv => WireConservation
  <1>1. SUFFICES ASSUME SmuxInv, NEW s \in Side, NEW i \in Ids
                 PROVE  /\ IsPrefix(stream[s][i].delivered, stream[Peer(s)][i].queued)
                        /\ (InStreams(Peer(s), i) /\ ~stream[s][i].closed /\ ~session[s].closed) =>
                              stream[Peer(s)][i].queued =
                                 stream[s][i].delivered \o FlattenSeq(stream[s][i].pending_tcp_writes)
                                   \o OnWire(s, i) \o FlattenSeq(stream[Peer(s)][i].pending_outbound)
    BY Zenon DEF WireConservation
  <1>2. Types /\ NoOrphans /\ Conserved /\ Peer(s) \in Side
    BY <1>1, Sides DEF SmuxInv
  <1>3. PICK to, from, w, toOpen, fromOpen :
           /\ to = stream[s][i] /\ from = stream[Peer(s)][i] /\ w = OnWire(s, i)
           /\ toOpen = ~session[s].closed /\ fromOpen = ~session[Peer(s)].closed
    OBVIOUS
  <1>4. w = PayloadOf(net[s], i) /\ w \in Seq(Item)
    <2>1. net[s] \in Seq(Frame)
      BY <1>2 DEF Types
    <2>2. QED
      BY <1>3, <2>1, WirePayload, PayloadType
  <1>5. to \in StreamRec(Frame) /\ from \in StreamRec(Frame)
    BY <1>2, <1>3, StreamHere
  <1>6. Balanced(to, from, w, toOpen, fromOpen)
    BY <1>2, <1>3, <1>4, Zenon DEF Conserved
  <1>7. InStreams(Peer(s), i) => ~from.closed /\ ~session[Peer(s)].closed
    BY <1>2, <1>3, Zenon DEF InStreams, NoOrphans
  <1>8. /\ IsPrefix(to.delivered, from.queued)
        /\ ~to.closed /\ toOpen /\ ~from.closed /\ fromOpen =>
              from.queued = to.delivered \o FlattenSeq(to.pending_tcp_writes)
                               \o w \o FlattenSeq(from.pending_outbound)
    BY <1>4, <1>5, <1>6, BalancedConserves, Zenon
  <1>9. QED
    BY <1>3, <1>7, <1>8, Zenon

(* queue_outbound, try_flush_outbound, the wire, on_data and                *)
(* flush_tcp_writes neither lose, repeat nor reorder a byte, nor give it to *)
(* another stream.                                                          *)
THEOREM SmuxConservation == Spec => []WireConservation
  BY SmuxInvariant, SmuxInvConserves, PTL

-----------------------------------------------------------------------------
(* smux v2 credit: the window a receiver grants is respected.               *)

\* The largest window a sender is ever told of.
Granted == Max({InitWindow, StreamBuf})

\* How far counter c lags behind counter read.
Behind(read, c) == (read - c) % Modulus

IsUpd(f, i) == f.cmd = "upd" /\ f.id = i

\* The UPDs of stream i in q lag no more than what the sender knows (acked),
\* and less and less.
Credits(i, read, acked, q) ==
    \A k \in 1..Len(q) : IsUpd(q[k], i) =>
        /\ q[k].window <= Granted
        /\ Behind(read, q[k].consumed) <= Behind(read, acked)
        /\ \A l \in k..Len(q) : IsUpd(q[l], i) =>
              Behind(read, q[l].consumed) <= Behind(read, q[k].consumed)

\* What `to` holds and what is on the wire to it.
Load(i, to, wire) == TotalLen(to.pending_tcp_writes) + Len(PayloadOf(wire, i))

\* The receiver `to`, the sender `from`, the frames on their way to each of
\* them, and whether both sessions are open.
Windowed(i, to, from, wire, back, open) ==
    /\ ~to.closed => Load(i, to, wire) <= Granted
    /\ ~to.closed /\ ~from.closed /\ open =>
          /\ from.num_written = (to.num_read + Load(i, to, wire)) % Modulus
          /\ Load(i, to, wire) + Behind(to.num_read, from.peer_consumed) <= Granted
          /\ from.peer_window <= Granted
          /\ Credits(i, to.num_read, from.peer_consumed, back)

AllWindowed ==
    \A s \in Side, i \in Ids :
        Windowed(i, stream[s][i], stream[Peer(s)][i], net[s], net[Peer(s)], Open)

\* The server of a session of two versions has taken nothing.
Refused ==
    /\ \A i \in Ids : ~stream["server"][i].created
    /\ \A i \in Ids : stream["client"][i].pending_tcp_writes = <<>>
    /\ net["client"] = <<>>

WindowInv ==
    /\ (\A s \in Side : Version[s] = 2) => AllWindowed
    /\ Version["client"] # Version["server"] => Refused

(* Counters that wrap, on the small distances the windows allow.            *)

\* The remainder is determined by any decomposition.
LEMMA ModUnique ==
    ASSUME NEW m \in Nat \ {0}, NEW k \in Int, NEW r \in 0..(m - 1)
    PROVE  (m * k + r) % m = r
  BY SMTT(20)

\* The remainder of what has wrapped at most once.
LEMMA ModCases ==
    ASSUME NEW m \in Nat \ {0}, NEW x \in Int, 0 - m <= x, x < 2 * m
    PROVE  x % m = IF x < 0 THEN x + m ELSE IF x < m THEN x ELSE x - m
  <1>1. CASE x < 0
    <2>1. PICK r \in 0..(m - 1) : r = x + m
      BY <1>1
    <2>2. (m * (0 - 1) + r) % m = r
      BY ModUnique
    <2>3. m * (0 - 1) + r = x
      BY <2>1
    <2>4. QED
      BY <1>1, <2>1, <2>2, <2>3
  <1>2. CASE 0 <= x /\ x < m
    <2>1. PICK r \in 0..(m - 1) : r = x
      BY <1>2
    <2>2. (m * 0 + r) % m = r
      BY ModUnique
    <2>3. m * 0 + r = x
      BY <2>1
    <2>4. QED
      BY <1>2, <2>1, <2>2, <2>3
  <1>3. CASE m <= x
    <2>1. PICK r \in 0..(m - 1) : r = x - m
      BY <1>3
    <2>2. (m * 1 + r) % m = r
      BY ModUnique
    <2>3. m * 1 + r = x
      BY <2>1
    <2>4. QED
      BY <1>3, <2>1, <2>2, <2>3
  <1>4. QED
    BY <1>1, <1>2, <1>3

LEMMA GrantedFacts ==
    /\ Granted \in Nat /\ InitWindow <= Granted /\ StreamBuf <= Granted
    /\ Modulus \in Nat \ {0} /\ 2 * Granted < Modulus
  <1>1. /\ InitWindow \in Int /\ StreamBuf \in Int /\ InitWindow > 0 /\ StreamBuf > 0
        /\ Modulus \in Nat /\ 2 * StreamBuf < Modulus /\ 2 * InitWindow < Modulus
    BY SmuxAssumption
  <1>2. Granted = IF InitWindow <= StreamBuf THEN StreamBuf ELSE InitWindow
    BY <1>1, MinMax, Zenon DEF Granted
  <1>3. QED
    BY <1>1, <1>2

LEMMA BehindCases ==
    ASSUME NEW read \in Counter, NEW c \in Counter
    PROVE  /\ Behind(read, c) = IF c <= read THEN read - c ELSE read - c + Modulus
           /\ Behind(read, c) \in Counter
  <1>1. Modulus \in Nat \ {0} /\ read \in 0..(Modulus - 1) /\ c \in 0..(Modulus - 1)
    BY GrantedFacts DEF Counter
  <1>2. PICK x \in Int : x = read - c
    BY <1>1
  <1>3. 0 - Modulus <= x /\ x < 2 * Modulus
    BY <1>1, <1>2
  <1>4. x % Modulus = IF x < 0 THEN x + Modulus ELSE IF x < Modulus THEN x ELSE x - Modulus
    BY <1>1, <1>3, ModCases, Zenon
  <1>5. Behind(read, c) = x % Modulus
    BY <1>2 DEF Behind
  <1>6. QED
    BY <1>1, <1>2, <1>4, <1>5 DEF Counter

\* A counter that has grown by n.
LEMMA Advanced ==
    ASSUME NEW read \in Counter, NEW n \in Nat, n < Modulus
    PROVE  /\ (read + n) % Modulus = IF read + n < Modulus THEN read + n ELSE read + n - Modulus
           /\ (read + n) % Modulus \in Counter
  <1>1. Modulus \in Nat \ {0} /\ read \in 0..(Modulus - 1)
    BY GrantedFacts DEF Counter
  <1>2. PICK x \in Int : x = read + n
    BY <1>1
  <1>3. 0 - Modulus <= x /\ x < 2 * Modulus /\ 0 <= x
    BY <1>1, <1>2
  <1>4. x % Modulus = IF x < 0 THEN x + Modulus ELSE IF x < Modulus THEN x ELSE x - Modulus
    BY <1>1, <1>3, ModCases, Zenon
  <1>5. QED
    BY <1>1, <1>2, <1>3, <1>4 DEF Counter

LEMMA BehindAdvanced ==
    ASSUME NEW read \in Counter, NEW c \in Counter, NEW n \in Nat,
           Behind(read, c) + n < Modulus, NEW read2, read2 = (read + n) % Modulus
    PROVE  read2 \in Counter /\ Behind(read2, c) = Behind(read, c) + n /\ Behind(read2, read2) = 0
  <1>1. /\ Behind(read, c) = IF c <= read THEN read - c ELSE read - c + Modulus
        /\ Behind(read, c) \in Counter
    BY BehindCases
  <1>2. Modulus \in Nat \ {0} /\ read \in 0..(Modulus - 1) /\ c \in 0..(Modulus - 1)
    BY GrantedFacts DEF Counter
  <1>3. PICK d : d = Behind(read, c)
    OBVIOUS
  <1>4. d \in 0..(Modulus - 1) /\ d + n < Modulus
    BY <1>1, <1>3 DEF Counter
  <1>5. n < Modulus
    BY <1>2, <1>4
  <1>6. /\ read2 = IF read + n < Modulus THEN read + n ELSE read + n - Modulus
        /\ read2 \in Counter
    BY <1>5, Advanced
  <1>7. /\ Behind(read2, c) = IF c <= read2 THEN read2 - c ELSE read2 - c + Modulus
        /\ Behind(read2, read2) = IF read2 <= read2 THEN read2 - read2 ELSE read2 - read2 + Modulus
    BY <1>6, BehindCases
  <1>8. read2 \in 0..(Modulus - 1)
    BY <1>6 DEF Counter
  <1>9. QED
    BY <1>1, <1>2, <1>3, <1>4, <1>6, <1>7, <1>8

-----------------------------------------------------------------------------
(* The UPDs under way.                                                      *)

LEMMA UpdType ==
    ASSUME NEW f \in Frame, NEW i, IsUpd(f, i)
    PROVE  f.consumed \in Counter /\ f.window \in Counter
  BY DEF Frame, IsUpd

\* The receiver reads n bytes more and may send UPDs about that.
LEMMA CreditsSent ==
    ASSUME NEW i, NEW q \in Seq(Frame), NEW o \in Seq(Frame),
           NEW read \in Counter, NEW acked \in Counter, NEW n \in Nat,
           Behind(read, acked) + n < Modulus, NEW read2, read2 = (read + n) % Modulus,
           Credits(i, read, acked, q),
           \A k \in 1..Len(o) : IsUpd(o[k], i) => o[k].consumed = read2 /\ o[k].window <= Granted
    PROVE  Credits(i, read2, acked, q \o o)
  <1>1. PICK w : w = q \o o
    BY Zenon
  <1>2. /\ Len(q) \in Nat /\ Len(o) \in Nat /\ Len(w) = Len(q) + Len(o)
        /\ \A k \in 1..Len(w) : w[k] = IF k <= Len(q) THEN q[k] ELSE o[k - Len(q)]
        /\ \A k \in 1..Len(q) : q[k] \in Frame
    BY <1>1, ConcatProperties, LenProperties, ElementOfSeq
  <1>3. /\ read2 \in Counter /\ Behind(read2, read2) = 0
        /\ Behind(read2, acked) = Behind(read, acked) + n
        /\ Behind(read, acked) \in Nat /\ Behind(read2, acked) \in Nat
    <2>1. read2 \in Counter /\ Behind(read2, read2) = 0 /\ Behind(read2, acked) = Behind(read, acked) + n
      BY BehindAdvanced
    <2>2. Behind(read, acked) \in Counter /\ Behind(read2, acked) \in Counter
      BY <2>1, BehindCases
    <2>3. QED
      BY <2>1, <2>2 DEF Counter
  <1>4. ASSUME NEW k \in 1..Len(q), IsUpd(q[k], i)
        PROVE  /\ Behind(read2, q[k].consumed) = Behind(read, q[k].consumed) + n
               /\ Behind(read, q[k].consumed) \in Nat
               /\ Behind(read, q[k].consumed) <= Behind(read, acked)
               /\ q[k].window <= Granted
               /\ \A l \in k..Len(q) : IsUpd(q[l], i) =>
                     Behind(read, q[l].consumed) <= Behind(read, q[k].consumed)
    <2>1. /\ q[k].window <= Granted
          /\ Behind(read, q[k].consumed) <= Behind(read, acked)
          /\ \A l \in k..Len(q) : IsUpd(q[l], i) =>
                Behind(read, q[l].consumed) <= Behind(read, q[k].consumed)
      BY <1>4, Zenon DEF Credits
    <2>2. PICK c \in Counter : c = q[k].consumed
      BY <1>2, <1>4, UpdType
    <2>3. Behind(read, c) \in Counter
      BY BehindCases
    <2>4. PICK x, y : x = Behind(read, c) /\ y = Behind(read, acked)
      OBVIOUS
    <2>5. x \in Nat /\ y \in Nat /\ x <= y /\ y + n < Modulus
      BY <1>3, <2>1, <2>2, <2>3, <2>4 DEF Counter
    <2>6. x + n < Modulus
      BY <2>5, GrantedFacts
    <2>7. Behind(read, c) + n < Modulus
      BY <2>4, <2>6
    <2>8. Behind(read2, c) = Behind(read, c) + n
      BY <2>7, BehindAdvanced
    <2>9. QED
      BY <2>1, <2>2, <2>4, <2>5, <2>8
  <1>5. ASSUME NEW k \in 1..Len(w), IsUpd(w[k], i), k > Len(q)
        PROVE  w[k].consumed = read2 /\ w[k].window <= Granted
    <2>1. k - Len(q) \in 1..Len(o) /\ w[k] = o[k - Len(q)]
      BY <1>2, <1>5
    <2>2. QED
      BY <1>5, <2>1
  <1>6. ASSUME NEW k \in 1..Len(w), IsUpd(w[k], i)
        PROVE  /\ w[k].window <= Granted
               /\ Behind(read2, w[k].consumed) <= Behind(read2, acked)
               /\ \A l \in k..Len(w) : IsUpd(w[l], i) =>
                     Behind(read2, w[l].consumed) <= Behind(read2, w[k].consumed)
    <2>1. CASE k > Len(q)
      <3>1. ASSUME NEW l \in k..Len(w), IsUpd(w[l], i) PROVE w[l].consumed = read2
        <4>1. l \in 1..Len(w) /\ l > Len(q)
          BY <1>2, <1>6, <2>1, <3>1
        <4>2. QED
          BY <1>5, <3>1, <4>1
      <3>2. w[k].window <= Granted /\ w[k].consumed = read2
        BY <1>5, <1>6, <2>1
      <3>3. QED
        BY <1>3, <3>1, <3>2
    <2>2. CASE ~(k > Len(q))
      <3>1. k \in 1..Len(q) /\ w[k] = q[k]
        BY <1>2, <1>6, <2>2
      <3>2. PICK x : x = Behind(read, q[k].consumed)
        OBVIOUS
      <3>3. /\ Behind(read2, w[k].consumed) = x + n /\ x \in Nat
            /\ x <= Behind(read, acked) /\ w[k].window <= Granted
            /\ \A l \in k..Len(q) : IsUpd(q[l], i) => Behind(read, q[l].consumed) <= x
        BY <1>4, <1>6, <3>1, <3>2
      <3>4. ASSUME NEW l \in k..Len(w), IsUpd(w[l], i)
            PROVE  Behind(read2, w[l].consumed) <= Behind(read2, w[k].consumed)
        <4>1. l \in 1..Len(w)
          BY <1>2, <1>6, <3>4
        <4>2. CASE l > Len(q)
          <5>1. w[l].consumed = read2
            BY <1>5, <3>4, <4>1, <4>2
          <5>2. QED
            BY <1>3, <3>3, <5>1
        <4>3. CASE ~(l > Len(q))
          <5>1. l \in 1..Len(q) /\ l \in k..Len(q) /\ w[l] = q[l]
            BY <1>2, <3>1, <3>4, <4>1, <4>3
          <5>2. Behind(read2, q[l].consumed) = Behind(read, q[l].consumed) + n /\ Behind(read, q[l].consumed) \in Nat
            BY <1>4, <3>4, <5>1
          <5>3. Behind(read, q[l].consumed) <= x
            BY <3>3, <3>4, <5>1, Zenon
          <5>4. QED
            BY <3>3, <5>1, <5>2, <5>3
        <4>4. QED
          BY <4>2, <4>3
      <3>5. Behind(read2, w[k].consumed) <= Behind(read2, acked)
        BY <1>3, <3>3
      <3>6. QED
        BY <3>3, <3>4, <3>5
    <2>3. QED
      BY <2>1, <2>2
  <1>7. Credits(i, read2, acked, w)
    BY <1>6, Zenon DEF Credits
  <1>8. QED
    BY <1>1, <1>7

\* The first frame is taken off the wire.
LEMMA CreditsTail ==
    ASSUME NEW i, NEW q \in Seq(Frame), q # <<>>, NEW read, NEW acked, Credits(i, read, acked, q)
    PROVE  /\ Credits(i, read, acked, Tail(q))
           /\ IsUpd(Head(q), i) =>
                 /\ Credits(i, read, Head(q).consumed, Tail(q))
                 /\ Head(q).window <= Granted
                 /\ Behind(read, Head(q).consumed) <= Behind(read, acked)
  <1>1. PICK f, t : f = Head(q) /\ t = Tail(q)
    BY Zenon
  <1>2. /\ Len(q) \in Nat /\ Len(q) >= 1 /\ Len(t) = Len(q) - 1 /\ f = q[1]
        /\ \A k \in 1..Len(t) : t[k] = q[k + 1]
    BY <1>1, TailFrames
  <1>3. ASSUME NEW k \in 1..Len(t), IsUpd(t[k], i)
        PROVE  /\ t[k].window <= Granted
               /\ Behind(read, t[k].consumed) <= Behind(read, acked)
               /\ \A l \in k..Len(t) : IsUpd(t[l], i) =>
                     Behind(read, t[l].consumed) <= Behind(read, t[k].consumed)
    <2>1. k + 1 \in 1..Len(q) /\ t[k] = q[k + 1]
      BY <1>2, <1>3
    <2>2. /\ q[k + 1].window <= Granted
          /\ Behind(read, q[k + 1].consumed) <= Behind(read, acked)
          /\ \A l \in (k + 1)..Len(q) : IsUpd(q[l], i) =>
                Behind(read, q[l].consumed) <= Behind(read, q[k + 1].consumed)
      BY <1>3, <2>1, Zenon DEF Credits
    <2>3. ASSUME NEW l \in k..Len(t), IsUpd(t[l], i)
          PROVE  Behind(read, t[l].consumed) <= Behind(read, t[k].consumed)
      <3>1. l \in 1..Len(t) /\ l + 1 \in (k + 1)..Len(q) /\ t[l] = q[l + 1]
        BY <1>2, <1>3, <2>3
      <3>2. QED
        BY <2>1, <2>2, <2>3, <3>1
    <2>4. QED
      BY <2>1, <2>2, <2>3
  <1>4. Credits(i, read, acked, t)
    BY <1>3, Zenon DEF Credits
  <1>5. ASSUME IsUpd(f, i)
        PROVE  /\ Credits(i, read, f.consumed, t) /\ f.window <= Granted
               /\ Behind(read, f.consumed) <= Behind(read, acked)
    <2>1. 1 \in 1..Len(q) /\ IsUpd(q[1], i)
      BY <1>2, <1>5
    <2>2. /\ q[1].window <= Granted
          /\ Behind(read, q[1].consumed) <= Behind(read, acked)
          /\ \A l \in 1..Len(q) : IsUpd(q[l], i) =>
                Behind(read, q[l].consumed) <= Behind(read, q[1].consumed)
      BY <2>1, Zenon DEF Credits
    <2>3. ASSUME NEW k \in 1..Len(t), IsUpd(t[k], i)
          PROVE  Behind(read, t[k].consumed) <= Behind(read, f.consumed)
      <3>1. k + 1 \in 1..Len(q) /\ t[k] = q[k + 1]
        BY <1>2, <2>3
      <3>2. QED
        BY <1>2, <2>2, <2>3, <3>1
    <2>4. Credits(i, read, f.consumed, t)
      BY <1>3, <2>3, Zenon DEF Credits
    <2>5. QED
      BY <1>2, <2>2, <2>4
  <1>6. QED
    BY <1>1, <1>4, <1>5
-----------------------------------------------------------------------------
(* The two ends of one direction.                                           *)

\* What stream i of side s does as the receiver of one direction: it reads n
\* of the bytes it held or that were on the wire v, v2 of which is left, and
\* tells the peer with what it sends, o.
Reads(i, a, b, v, v2, o) ==
    ~b.closed => \E n \in Nat :
        /\ Load(i, a, v) = n + Load(i, b, v2)
        /\ b.num_read = (a.num_read + n) % Modulus
        /\ \A k \in 1..Len(o) : IsUpd(o[k], i) => o[k].consumed = b.num_read /\ o[k].window = StreamBuf

\* What it knows of the peer's window after taking the first frame of v.
Knows(i, a, b, v, v2) ==
    \/ /\ b.peer_consumed = a.peer_consumed /\ b.peer_window = a.peer_window
       /\ v2 = v \/ (v # <<>> /\ v2 = Tail(v))
    \/ /\ v # <<>> /\ v2 = Tail(v) /\ IsUpd(Head(v), i) /\ ~a.closed
       /\ b.peer_consumed = Head(v).consumed /\ b.peer_window = Head(v).window

\* What it sends is within that window.
Sends(i, a, b, o) ==
    /\ b.num_written = (a.num_written + Len(PayloadOf(o, i))) % Modulus
    /\ \/ PayloadOf(o, i) = <<>>
       \/ /\ ~a.closed
          /\ Len(PayloadOf(o, i)) + Behind(a.num_written, b.peer_consumed) <= b.peer_window

LEMMA CreditType ==
    ASSUME NEW r \in StreamRec(Frame)
    PROVE  /\ r.num_read \in Counter /\ r.num_written \in Counter
           /\ r.peer_consumed \in Counter /\ r.peer_window \in Counter
           /\ r.closed \in BOOLEAN /\ r.pending_tcp_writes \in Seq(Seq(Item))
  BY DEF StreamRec

LEMMA LoadType ==
    ASSUME NEW i, NEW r \in StreamRec(Frame), NEW v \in Seq(Frame)
    PROVE  /\ Load(i, r, v) \in Nat /\ TotalLen(r.pending_tcp_writes) \in Nat
           /\ Len(PayloadOf(v, i)) \in Nat
  <1>1. TotalLen(r.pending_tcp_writes) \in Nat
    BY CreditType, FlattenType, LenProperties DEF TotalLen
  <1>2. Len(PayloadOf(v, i)) \in Nat
    BY PayloadType, LenProperties
  <1>3. QED
    BY <1>1, <1>2 DEF Load

\* n bytes more of a load are read.
LEMMA ReadAdvances ==
    ASSUME NEW read \in Counter, NEW n \in Nat, NEW x \in Nat, n + x < Modulus
    PROVE  (((read + n) % Modulus) + x) % Modulus = (read + (n + x)) % Modulus
  <1>1. Modulus \in Nat \ {0} /\ read \in 0..(Modulus - 1)
    BY GrantedFacts DEF Counter
  <1>2. n < Modulus /\ x < Modulus /\ n + x \in Nat
    BY <1>1
  <1>3. PICK y : y = (read + n) % Modulus
    OBVIOUS
  <1>4. y = (IF read + n < Modulus THEN read + n ELSE read + n - Modulus) /\ y \in Counter
    BY <1>2, <1>3, Advanced
  <1>5. (y + x) % Modulus = IF y + x < Modulus THEN y + x ELSE y + x - Modulus
    BY <1>2, <1>4, Advanced
  <1>6. PICK z : z = n + x
    OBVIOUS
  <1>7. (read + z) % Modulus = IF read + z < Modulus THEN read + z ELSE read + z - Modulus
    BY <1>2, <1>6, Advanced
  <1>8. y + x = read + z \/ y + x = read + z - Modulus
    BY <1>1, <1>4, <1>6
  <1>9. (y + x) % Modulus = (read + z) % Modulus
    BY <1>1, <1>4, <1>5, <1>6, <1>7, <1>8
  <1>10. QED
    BY <1>3, <1>6, <1>9

\* What has been written and not been acknowledged.
LEMMA BehindWritten ==
    ASSUME NEW read \in Counter, NEW c \in Counter, NEW x \in Nat, x + Behind(read, c) < Modulus,
           NEW w, w = (read + x) % Modulus
    PROVE  Behind(w, c) = x + Behind(read, c)
  <1>1. Behind(read, c) \in Nat
    BY BehindCases DEF Counter
  <1>2. Behind(read, c) + x < Modulus
    BY <1>1
  <1>3. Behind(w, c) = Behind(read, c) + x
    BY <1>2, BehindAdvanced
  <1>4. QED
    BY <1>1, <1>3

LEMMA WindowedReads ==
    ASSUME NEW i, NEW a \in StreamRec(Frame), NEW b \in StreamRec(Frame), NEW from \in StreamRec(Frame),
           NEW v \in Seq(Frame), NEW v2 \in Seq(Frame), NEW w \in Seq(Frame), NEW o \in Seq(Frame),
           NEW open \in BOOLEAN, Windowed(i, a, from, v, w, open), a.closed => b.closed,
           Reads(i, a, b, v, v2, o)
    PROVE  Windowed(i, b, from, v2, IF open THEN w \o o ELSE w, open)
  <1>1. CASE b.closed
    BY <1>1, Zenon DEF Windowed
  <1>2. CASE ~b.closed
    <2>1. PICK n \in Nat :
              /\ Load(i, a, v) = n + Load(i, b, v2)
              /\ b.num_read = (a.num_read + n) % Modulus
              /\ \A k \in 1..Len(o) : IsUpd(o[k], i) => o[k].consumed = b.num_read /\ o[k].window = StreamBuf
      BY <1>2, Zenon DEF Reads
    <2>2. PICK x \in Nat, y \in Nat : x = Load(i, a, v) /\ y = Load(i, b, v2)
      BY LoadType
    <2>3. PICK read \in Counter, acked \in Counter, read2 \in {b.num_read} :
              read = a.num_read /\ acked = from.peer_consumed /\ read2 = b.num_read
      BY CreditType
    <2>4. x = n + y /\ x <= Granted /\ Granted \in Nat /\ Modulus \in Nat /\ 2 * Granted < Modulus /\ StreamBuf <= Granted
      <3>1. x <= Granted
        BY <1>2, <2>2, Zenon DEF Windowed
      <3>2. QED
        BY <2>1, <2>2, <3>1, GrantedFacts
    <2>5. y <= Granted
      BY <2>4
    <2>6. ASSUME ~from.closed, open
          PROVE  /\ from.num_written = (read2 + y) % Modulus
                 /\ y + Behind(read2, acked) <= Granted
                 /\ from.peer_window <= Granted
                 /\ Credits(i, read2, acked, w \o o)
      <3>1. /\ from.num_written = (read + x) % Modulus
            /\ x + Behind(read, acked) <= Granted
            /\ from.peer_window <= Granted
            /\ Credits(i, read, acked, w)
        BY <1>2, <2>2, <2>3, <2>6, Zenon DEF Windowed
      <3>2. PICK d \in Nat : d = Behind(read, acked)
        BY BehindCases DEF Counter
      <3>3. x + d <= Granted /\ d + n < Modulus /\ n + y < Modulus
        BY <2>4, <3>1, <3>2
      <3>4. read2 = (read + n) % Modulus
        BY <2>1, <2>3
      <3>5. Behind(read2, acked) = d + n
        BY <3>2, <3>3, <3>4, BehindAdvanced
      <3>6. y + Behind(read2, acked) <= Granted
        BY <2>4, <3>3, <3>5
      <3>7. from.num_written = (read2 + y) % Modulus
        <4>1. (((read + n) % Modulus) + y) % Modulus = (read + (n + y)) % Modulus
          BY <3>3, ReadAdvances
        <4>2. QED
          BY <2>4, <3>1, <3>4, <4>1
      <3>8. Credits(i, read2, acked, w \o o)
        <4>1. \A k \in 1..Len(o) : IsUpd(o[k], i) => o[k].consumed = read2 /\ o[k].window <= Granted
          BY <2>1, <2>3, <2>4, Zenon
        <4>2. Behind(read, acked) + n < Modulus
          BY <3>2, <3>3
        <4>3. QED
          BY <3>1, <3>4, <4>1, <4>2, CreditsSent
      <3>9. QED
        BY <3>1, <3>6, <3>7, <3>8
    <2>7. QED
      BY <2>2, <2>3, <2>5, <2>6, Zenon DEF Windowed
  <1>3. QED
    BY <1>1, <1>2

\* The load on the wire grows by what is sent.
LEMMA LoadSent ==
    ASSUME NEW i, NEW to \in StreamRec(Frame), NEW v \in Seq(Frame), NEW o \in Seq(Frame)
    PROVE  Load(i, to, v \o o) = Load(i, to, v) + Len(PayloadOf(o, i))
  <1>1. PICK p \in Seq(Item), q \in Seq(Item) : p = PayloadOf(v, i) /\ q = PayloadOf(o, i)
    BY PayloadType
  <1>2. PayloadOf(v \o o, i) = p \o q
    BY <1>1, PayloadConcat, Zenon
  <1>3. Len(p \o q) = Len(p) + Len(q) /\ Len(p) \in Nat /\ Len(q) \in Nat
    BY ConcatProperties, LenProperties
  <1>4. TotalLen(to.pending_tcp_writes) \in Nat
    BY LoadType, Zenon
  <1>5. QED
    BY <1>1, <1>2, <1>3, <1>4 DEF Load

LEMMA WindowedWrites ==
    ASSUME NEW i, NEW to \in StreamRec(Frame), NEW a \in StreamRec(Frame), NEW b \in StreamRec(Frame),
           NEW w \in Seq(Frame), NEW v \in Seq(Frame), NEW v2 \in Seq(Frame), NEW o \in Seq(Frame),
           NEW open \in BOOLEAN, Windowed(i, to, a, w, v, open), a.closed => b.closed,
           Knows(i, a, b, v, v2), Sends(i, a, b, o)
    PROVE  Windowed(i, to, b, IF open THEN w \o o ELSE w, v2, open)
  <1>1. CASE ~open
    BY <1>1, Zenon DEF Windowed
  <1>2. CASE to.closed
    BY <1>2, Zenon DEF Windowed
  <1>3. CASE open /\ ~to.closed
    <2>1. PICK x \in Nat, n \in Nat, p \in {PayloadOf(o, i)} : x = Load(i, to, w) /\ n = Len(p)
      BY LoadType, Zenon
    <2>2. Load(i, to, w \o o) = x + n
      BY <2>1, LoadSent
    <2>3. x <= Granted
      BY <1>3, <2>1, Zenon DEF Windowed
    <2>4. CASE a.closed
      <3>1. n = 0
        <4>1. p = <<>>
          BY <2>1, <2>4, Zenon DEF Sends
        <4>2. QED
          BY <2>1, <4>1
      <3>2. Load(i, to, w \o o) <= Granted
        BY <2>2, <2>3, <3>1
      <3>3. b.closed
        BY <2>4
      <3>4. QED
        BY <1>3, <3>2, <3>3, Zenon DEF Windowed
    <2>5. CASE ~a.closed
      <3>1. PICK read \in Counter, old \in Counter, acked \in Counter :
                read = to.num_read /\ old = a.peer_consumed /\ acked = b.peer_consumed
        BY CreditType
      <3>2. /\ a.num_written = (read + x) % Modulus
            /\ x + Behind(read, old) <= Granted
            /\ a.peer_window <= Granted
            /\ Credits(i, read, old, v)
        BY <1>3, <2>1, <2>5, <3>1, Zenon DEF Windowed
      <3>3. /\ Credits(i, read, acked, v2) /\ b.peer_window <= Granted
            /\ Behind(read, acked) <= Behind(read, old)
        <4>1. CASE v # <<>>
          <5>1. /\ Credits(i, read, old, Tail(v))
                /\ IsUpd(Head(v), i) =>
                      /\ Credits(i, read, Head(v).consumed, Tail(v))
                      /\ Head(v).window <= Granted
                      /\ Behind(read, Head(v).consumed) <= Behind(read, old)
            BY <3>2, <4>1, CreditsTail
          <5>2. Behind(read, old) <= Behind(read, old)
            <6>1. Behind(read, old) \in Nat
              BY BehindCases DEF Counter
            <6>2. QED
              BY <6>1
          <5>3. QED
            BY <3>1, <3>2, <5>1, <5>2, Zenon DEF Knows
        <4>2. CASE v = <<>>
          <5>1. v2 = v /\ acked = old /\ b.peer_window = a.peer_window
            BY <3>1, <4>2, Zenon DEF Knows
          <5>2. Behind(read, old) \in Nat
            BY BehindCases DEF Counter
          <5>3. QED
            BY <3>2, <5>1, <5>2
        <4>3. QED
          BY <4>1, <4>2
      <3>4. PICK d \in Nat, e \in Nat : d = Behind(read, acked) /\ e = Behind(read, old)
        BY BehindCases DEF Counter
      <3>5. Granted \in Nat /\ Modulus \in Nat /\ 2 * Granted < Modulus
        BY GrantedFacts
      <3>6. d <= e /\ x + e <= Granted
        BY <3>2, <3>3, <3>4
      <3>7. x + d <= Granted /\ x + d < Modulus
        BY <3>5, <3>6
      <3>8. Behind(a.num_written, acked) = x + d
        <4>1. x + Behind(read, acked) < Modulus
          BY <3>4, <3>7
        <4>2. Behind(a.num_written, acked) = x + Behind(read, acked)
          BY <3>2, <4>1, BehindWritten
        <4>3. QED
          BY <3>4, <4>2
      <3>9. (x + n) + d <= Granted
        <4>1. CASE p = <<>>
          <5>1. n = 0
            BY <2>1, <4>1
          <5>2. QED
            BY <3>7, <5>1
        <4>2. CASE p # <<>>
          <5>1. n + Behind(a.num_written, b.peer_consumed) <= b.peer_window
            BY <2>1, <4>2, Zenon DEF Sends
          <5>2. n + (x + d) <= b.peer_window
            BY <3>1, <3>8, <5>1
          <5>3. b.peer_window \in Nat
            BY CreditType DEF Counter
          <5>4. QED
            BY <3>3, <3>5, <5>2, <5>3
        <4>3. QED
          BY <4>1, <4>2
      <3>10. b.num_written = (read + (x + n)) % Modulus
        <4>1. b.num_written = (a.num_written + n) % Modulus
          BY <2>1, Zenon DEF Sends
        <4>2. x + n < Modulus
          BY <3>5, <3>9
        <4>3. (((read + x) % Modulus) + n) % Modulus = (read + (x + n)) % Modulus
          BY <4>2, ReadAdvances
        <4>4. QED
          BY <3>2, <4>1, <4>3
      <3>11. x + n <= Granted
        BY <3>5, <3>9
      <3>12. PICK y : y = x + n
        OBVIOUS
      <3>13. /\ y = Load(i, to, w \o o) /\ y <= Granted
             /\ b.num_written = (read + y) % Modulus
             /\ y + Behind(read, acked) <= Granted
        BY <2>2, <3>4, <3>9, <3>10, <3>11, <3>12
      <3>14. QED
        BY <1>3, <3>1, <3>3, <3>13, Zenon DEF Windowed
    <2>6. QED
      BY <2>4, <2>5
  <1>4. QED
    BY <1>1, <1>2, <1>3
-----------------------------------------------------------------------------
(* One handler of one stream, seen from both directions of every stream.    *)

\* Stream i goes from a to b, sends o and leaves v2 of what was on its way to it.
Credit(i, a, b, v, v2, o) ==
    /\ a.closed => b.closed
    /\ Reads(i, a, b, v, v2, o) /\ Knows(i, a, b, v, v2) /\ Sends(i, a, b, o)

LEMMA ClearedCredit ==
    ASSUME NEW F, NEW b \in StreamRec(F)
    PROVE  /\ Cleared(b).num_read = b.num_read /\ Cleared(b).num_written = b.num_written
           /\ Cleared(b).peer_consumed = b.peer_consumed /\ Cleared(b).peer_window = b.peer_window
           /\ Cleared(b).closed = b.closed
           /\ Cleared(b).pending_tcp_writes = b.pending_tcp_writes
  <1>1. PICK c : c = Cleared(b)
    OBVIOUS
  <1>2. /\ c.num_read = b.num_read /\ c.num_written = b.num_written
        /\ c.peer_consumed = b.peer_consumed /\ c.peer_window = b.peer_window
        /\ c.closed = b.closed /\ c.pending_tcp_writes = b.pending_tcp_writes
    BY <1>1, Zenon DEF StreamRec, Cleared
  <1>3. QED
    BY <1>1, <1>2

LEMMA WindowedCleared ==
    ASSUME NEW i, NEW b \in StreamRec(Frame), NEW r, NEW v, NEW w, NEW open
    PROVE  /\ Windowed(i, b, r, v, w, open) => Windowed(i, Cleared(b), r, v, w, open)
           /\ Windowed(i, r, b, v, w, open) => Windowed(i, r, Cleared(b), v, w, open)
  <1>1. PICK c : c = Cleared(b)
    OBVIOUS
  <1>2. /\ c.num_read = b.num_read /\ c.num_written = b.num_written
        /\ c.peer_consumed = b.peer_consumed /\ c.peer_window = b.peer_window
        /\ c.closed = b.closed /\ c.pending_tcp_writes = b.pending_tcp_writes
    BY <1>1, ClearedCredit
  <1>3. Load(i, c, v) = Load(i, b, v)
    BY <1>2 DEF Load
  <1>4. QED
    BY <1>1, <1>2, <1>3, Zenon DEF Windowed

\* A step that leaves stream i and the frames about it alone.
LEMMA CreditSelf ==
    ASSUME NEW i, NEW r \in StreamRec(Frame), NEW v \in Seq(Frame), NEW v2 \in Seq(Frame), NEW o \in Seq(Frame),
           v2 = v \/ (v # <<>> /\ v2 = Tail(v)), PayloadOf(v2, i) = PayloadOf(v, i),
           PayloadOf(o, i) = <<>>, \A k \in 1..Len(o) : ~IsUpd(o[k], i)
    PROVE  Credit(i, r, r, v, v2, o)
  <1>1. PICK x \in Nat : x = Load(i, r, v)
    BY LoadType
  <1>2. Load(i, r, v2) = x
    BY <1>1 DEF Load
  <1>3. ASSUME NEW c \in Counter PROVE (c + 0) % Modulus = c
    <2>1. 0 < Modulus /\ c < Modulus /\ c \in Int /\ Modulus \in Nat
      BY GrantedFacts DEF Counter
    <2>2. (c + 0) % Modulus = IF c + 0 < Modulus THEN c + 0 ELSE c + 0 - Modulus
      BY <2>1, Advanced
    <2>3. QED
      BY <2>1, <2>2
  <1>4. r.num_read \in Counter /\ r.num_written \in Counter
    BY CreditType
  <1>5. Reads(i, r, r, v, v2, o)
    <2>1. Load(i, r, v) = 0 + Load(i, r, v2) /\ r.num_read = (r.num_read + 0) % Modulus
      BY <1>1, <1>2, <1>3, <1>4
    <2>2. 0 \in Nat
      OBVIOUS
    <2>3. QED
      BY <2>1, <2>2, Zenon DEF Reads
  <1>6. Sends(i, r, r, o)
    <2>1. Len(PayloadOf(o, i)) = 0
      OBVIOUS
    <2>2. r.num_written = (r.num_written + Len(PayloadOf(o, i))) % Modulus
      BY <1>3, <1>4, <2>1
    <2>3. QED
      BY <2>2, Zenon DEF Sends
  <1>7. Knows(i, r, r, v, v2)
    BY Zenon DEF Knows
  <1>8. QED
    BY <1>5, <1>6, <1>7, Zenon DEF Credit

LEMMA OpenSides == \A s \in Side : Open <=> ~session[s].closed /\ ~session[Peer(s)].closed
  BY DEF Open, Side, Peer

LEMMA WindowStep ==
    ASSUME Types, AllWindowed, KeepsSessions, NEW s \in Side, NEW i \in Ids,
           NEW b \in StreamRec(Frame), NEW q \in Seq(Frame), Effect(s, i, b, q),
           FramesAbout(b.out, i), Credit(i, stream[s][i], b, net[s], q, b.out),
           q = net[s] \/ (net[s] # <<>> /\ q = Tail(net[s])),
           \A j \in Ids \ {i} : PayloadOf(q, j) = PayloadOf(net[s], j)
    PROVE  AllWindowed'
  <1>1. PICK p : p = Peer(s)
    OBVIOUS
  <1>2. p \in Side /\ p # s /\ Peer(p) = s /\ (\A t \in Side : t = s \/ t = p)
    BY <1>1, Sides
  <1>3. PICK v, w, o : v = net[s] /\ w = net[p] /\ o = b.out
    OBVIOUS
  <1>4. v \in Seq(Frame) /\ w \in Seq(Frame) /\ o \in Seq(Frame)
    <2>1. b.out \in Seq(Frame)
      BY DEF StreamRec
    <2>2. QED
      BY <1>2, <1>3, <2>1 DEF Types
  <1>5. /\ stream'[s][i] = Cleared(b)
        /\ \A t \in Side, j \in Ids : t # s \/ j # i => stream'[t][j] = stream[t][j]
        /\ net'[s] = q /\ net'[p] = Transmitted(s, w, o)
    BY <1>1, <1>3, EffectFacts
  <1>6. \A t \in Side, j \in Ids : stream[t][j] \in StreamRec(Frame)
    BY DEF Types
  <1>7. PICK open \in BOOLEAN : open <=> Open
    BY Zenon DEF Open
  <1>8. Open' <=> open
    BY <1>7, Zenon DEF Open, KeepsSessions, Side
  <1>9. net'[p] = IF open THEN w \o o ELSE w
    BY <1>1, <1>5, <1>7, OpenSides, Zenon DEF Transmitted
  <1>10. \A j \in Ids : /\ Windowed(j, stream[s][j], stream[p][j], v, w, open)
                        /\ Windowed(j, stream[p][j], stream[s][j], w, v, open)
    <2>1. \A t \in Side, j \in Ids : Windowed(j, stream[t][j], stream[Peer(t)][j], net[t], net[Peer(t)], Open)
      BY DEF AllWindowed
    <2>2. \A j \in Ids : /\ Windowed(j, stream[s][j], stream[p][j], v, w, Open)
                         /\ Windowed(j, stream[p][j], stream[s][j], w, v, Open)
      BY <1>1, <1>2, <1>3, <2>1, Zenon
    <2>3. QED
      BY <1>7, <2>2, Zenon DEF Windowed
  <1>11. ASSUME NEW j \in Ids
         PROVE  \E c \in StreamRec(Frame) :
                   /\ Credit(j, stream[s][j], c, v, q, o)
                   /\ stream'[s][j] = c \/ stream'[s][j] = Cleared(c)
    <2>1. CASE j = i
      <3>1. Credit(i, stream[s][i], b, v, q, o) /\ stream'[s][i] = Cleared(b)
        BY <1>3, <1>5
      <3>2. QED
        BY <2>1, <3>1
    <2>2. CASE j # i
      <3>1. PICK r : r = stream[s][j]
        OBVIOUS
      <3>2. r \in StreamRec(Frame) /\ stream'[s][j] = r
        BY <1>5, <1>6, <2>2, <3>1
      <3>3. PayloadOf(o, j) = <<>> /\ \A k \in 1..Len(o) : ~IsUpd(o[k], j)
        <4>1. \A k \in 1..Len(o) : o[k].id # j
          BY <1>3, <2>2 DEF FramesAbout
        <4>2. PayloadOf(o, j) = <<>>
          BY <1>4, <4>1, PayloadNone
        <4>3. QED
          BY <4>1, <4>2 DEF IsUpd
      <3>4. PayloadOf(q, j) = PayloadOf(v, j) /\ (q = v \/ (v # <<>> /\ q = Tail(v)))
        BY <1>3, <2>2
      <3>5. Credit(j, r, r, v, q, o)
        BY <1>4, <3>2, <3>3, <3>4, CreditSelf
      <3>6. QED
        BY <3>1, <3>2, <3>5
    <2>3. QED
      BY <2>1, <2>2
  <1>12. ASSUME NEW j \in Ids
         PROVE  /\ Windowed(j, stream'[s][j], stream'[p][j], net'[s], net'[p], Open')
                /\ Windowed(j, stream'[p][j], stream'[s][j], net'[p], net'[s], Open')
    <2>1. PICK c \in StreamRec(Frame) :
              /\ Credit(j, stream[s][j], c, v, q, o)
              /\ stream'[s][j] = c \/ stream'[s][j] = Cleared(c)
      BY <1>11
    <2>2. PICK a \in StreamRec(Frame), r \in StreamRec(Frame) : a = stream[s][j] /\ r = stream[p][j]
      BY <1>2, <1>6
    <2>3. stream'[p][j] = r
      BY <1>2, <1>5, <2>2
    <2>4. /\ a.closed => c.closed
          /\ Reads(j, a, c, v, q, o) /\ Knows(j, a, c, v, q) /\ Sends(j, a, c, o)
      BY <2>1, <2>2, Zenon DEF Credit
    <2>5. Windowed(j, a, r, v, w, open) /\ Windowed(j, r, a, w, v, open)
      BY <1>10, <2>2
    <2>6. Windowed(j, c, r, q, IF open THEN w \o o ELSE w, open)
      BY <1>4, <2>4, <2>5, WindowedReads
    <2>7. Windowed(j, r, c, IF open THEN w \o o ELSE w, q, open)
      BY <1>4, <2>4, <2>5, WindowedWrites
    <2>8. PICK u : u = net'[p]
      OBVIOUS
    <2>9. /\ Windowed(j, c, r, q, u, open) /\ Windowed(j, Cleared(c), r, q, u, open)
          /\ Windowed(j, r, c, u, q, open) /\ Windowed(j, r, Cleared(c), u, q, open)
      BY <1>9, <2>6, <2>7, <2>8, WindowedCleared
    <2>10. /\ Windowed(j, stream'[s][j], r, q, u, open)
           /\ Windowed(j, r, stream'[s][j], u, q, open)
      BY <2>1, <2>9, Zenon
    <2>11. /\ Windowed(j, stream'[s][j], r, q, u, Open')
           /\ Windowed(j, r, stream'[s][j], u, q, Open')
      BY <1>8, <2>10, Zenon DEF Windowed
    <2>12. QED
      BY <1>5, <2>3, <2>8, <2>11, Zenon
  <1>13. \A t \in Side, j \in Ids :
             Windowed(j, stream'[t][j], stream'[Peer(t)][j], net'[t], net'[Peer(t)], Open')
    BY <1>1, <1>2, <1>12, Zenon
  <1>14. QED
    BY <1>13, Zenon DEF AllWindowed
-----------------------------------------------------------------------------
(* The credit a handler uses.                                               *)

\* As Reads, of a handler that takes nothing from the wire.
Consumes(i, a, b) ==
    \E n \in Nat :
        /\ TotalLen(a.pending_tcp_writes) = n + TotalLen(b.pending_tcp_writes)
        /\ b.num_read = (a.num_read + n) % Modulus
        /\ \A k \in 1..Len(b.out) : IsUpd(b.out[k], i) =>
              b.out[k].consumed = b.num_read /\ b.out[k].window = StreamBuf

\* What a handler of stream i of side s that starts at a, with nothing sent, ends with.
Trades(s, i, a, b) ==
    /\ a.closed => b.closed
    /\ a.pending_tcp_writes = <<>> => b.pending_tcp_writes = <<>>
    /\ Version[s] = 2 =>
          /\ b.peer_consumed = a.peer_consumed /\ b.peer_window = a.peer_window
          /\ Sends(i, a, b, b.out) /\ Consumes(i, a, b)

SameCounters(a, b) ==
    /\ b.pending_tcp_writes = a.pending_tcp_writes
    /\ b.num_read = a.num_read /\ b.num_written = a.num_written
    /\ b.peer_consumed = a.peer_consumed /\ b.peer_window = a.peer_window

SameCredit(a, b) == SameCounters(a, b) /\ b.closed = a.closed /\ b.out = a.out

\* Nothing but FINs is sent.
Silent(a, b) ==
    /\ SameCounters(a, b)
    /\ a.closed => b.closed
    /\ \A k \in 1..Len(b.out) : b.out[k].cmd = "fin"

LEMMA TradesCredit ==
    ASSUME NEW s, Version[s] = 2, NEW i, NEW a \in StreamRec(Frame), NEW b \in StreamRec(Frame),
           NEW v \in Seq(Frame), Trades(s, i, a, b)
    PROVE  Credit(i, a, b, v, v, b.out)
  <1>1. /\ b.peer_consumed = a.peer_consumed /\ b.peer_window = a.peer_window
        /\ Sends(i, a, b, b.out) /\ Consumes(i, a, b) /\ (a.closed => b.closed)
    BY Zenon DEF Trades
  <1>2. PICK n \in Nat :
            /\ TotalLen(a.pending_tcp_writes) = n + TotalLen(b.pending_tcp_writes)
            /\ b.num_read = (a.num_read + n) % Modulus
            /\ \A k \in 1..Len(b.out) : IsUpd(b.out[k], i) =>
                  b.out[k].consumed = b.num_read /\ b.out[k].window = StreamBuf
    BY <1>1, Zenon DEF Consumes
  <1>3. Load(i, a, v) = n + Load(i, b, v)
    <2>1. PICK x \in Nat, y \in Nat, z \in Nat : /\ x = TotalLen(a.pending_tcp_writes)
              /\ y = TotalLen(b.pending_tcp_writes) /\ z = Len(PayloadOf(v, i))
      BY LoadType, Zenon
    <2>2. x + z = n + (y + z)
      BY <1>2, <2>1
    <2>3. QED
      BY <2>1, <2>2 DEF Load
  <1>4. Reads(i, a, b, v, v, b.out)
    BY <1>2, <1>3, Zenon DEF Reads
  <1>5. Knows(i, a, b, v, v)
    BY <1>1, Zenon DEF Knows
  <1>6. QED
    BY <1>1, <1>4, <1>5, Zenon DEF Credit

LEMMA SameThenTrades ==
    ASSUME NEW s, NEW i, NEW a, NEW b, NEW c, SameCredit(a, b), Trades(s, i, b, c)
    PROVE  Trades(s, i, a, c)
  BY Zenon DEF SameCredit, SameCounters, Trades, Sends, Consumes

LEMMA TradesThenSame ==
    ASSUME NEW s, NEW i, NEW a, NEW b, NEW c, Trades(s, i, a, b), SameCredit(b, c)
    PROVE  Trades(s, i, a, c)
  BY Zenon DEF SameCredit, SameCounters, Trades, Sends, Consumes

LEMMA NothingAdded == \A c \in Counter : (c + 0) % Modulus = c
  <1>1. SUFFICES ASSUME NEW c \in Counter PROVE (c + 0) % Modulus = c
    OBVIOUS
  <1>2. 0 < Modulus /\ c < Modulus /\ c \in Int /\ Modulus \in Nat
    BY GrantedFacts DEF Counter
  <1>3. (c + 0) % Modulus = IF c + 0 < Modulus THEN c + 0 ELSE c + 0 - Modulus
    BY <1>2, Advanced
  <1>4. QED
    BY <1>2, <1>3

LEMMA SilentTrades ==
    ASSUME NEW s, NEW i, NEW a \in StreamRec(FramesOf(i)), NEW b \in StreamRec(FramesOf(i)), Silent(a, b)
    PROVE  Trades(s, i, a, b) /\ PayloadOf(b.out, i) = <<>> /\ \A k \in 1..Len(b.out) : ~IsUpd(b.out[k], i)
  <1>1. a \in StreamRec(Frame) /\ b \in StreamRec(Frame) /\ b.out \in Seq(Frame)
    BY StreamRecFrame, SentType
  <1>2. \A k \in 1..Len(b.out) : b.out[k].cmd = "fin"
    BY DEF Silent
  <1>3. PayloadOf(b.out, i) = <<>>
    BY <1>1, <1>2, PayloadNone
  <1>4. /\ b.pending_tcp_writes = a.pending_tcp_writes /\ b.num_read = a.num_read /\ b.num_written = a.num_written
        /\ b.peer_consumed = a.peer_consumed /\ b.peer_window = a.peer_window
        /\ a.closed => b.closed
    BY Zenon DEF Silent, SameCounters
  <1>5. \A k \in 1..Len(b.out) : ~IsUpd(b.out[k], i)
    BY <1>2 DEF IsUpd
  <1>6. Sends(i, a, b, b.out)
    <2>1. Len(PayloadOf(b.out, i)) = 0
      BY <1>3
    <2>2. b.num_written = (a.num_written + Len(PayloadOf(b.out, i))) % Modulus
      BY <1>1, <1>4, <2>1, CreditType, NothingAdded
    <2>3. QED
      BY <1>3, <2>2, Zenon DEF Sends
  <1>7. Consumes(i, a, b)
    <2>1. PICK x \in Nat : x = TotalLen(a.pending_tcp_writes)
      <3>1. <<>> \in Seq(Frame)
        BY EmptySeq
      <3>2. QED
        BY <1>1, <3>1, LoadType, Zenon
    <2>2. TotalLen(a.pending_tcp_writes) = 0 + TotalLen(b.pending_tcp_writes)
      BY <1>4, <2>1
    <2>3. b.num_read = (a.num_read + 0) % Modulus
      BY <1>1, <1>4, CreditType, NothingAdded
    <2>4. 0 \in Nat
      OBVIOUS
    <2>5. QED
      BY <1>5, <2>2, <2>3, <2>4, Zenon DEF Consumes
  <1>8. QED
    BY <1>3, <1>4, <1>5, <1>6, <1>7, Zenon DEF Trades

\* The steps that only look at the socket.
LEMMA SocketCredit ==
    ASSUME NEW F, NEW r \in StreamRec(F)
    PROVE  /\ SameCredit(r, StartTcpRead(r)) /\ SameCredit(r, FlushTcpWrites(r))
           /\ SameCredit(r, ShutdownTcpSendIfReady(r)) /\ SameCredit(r, MaybeFinish(r))
  <1>1. PICK c, d, e, g : /\ c = [r EXCEPT !.reads = r.reads + 1] /\ d = [r EXCEPT !.tcp_write_active = TRUE]
                          /\ e = [r EXCEPT !.send_shut = TRUE] /\ g = [r EXCEPT !.close_timer = TRUE]
    BY Zenon
  <1>2. SameCredit(r, r)
    BY DEF SameCredit, SameCounters
  <1>3. SameCredit(r, c)
    BY <1>1, Zenon DEF StreamRec, SameCredit, SameCounters
  <1>4. SameCredit(r, d)
    BY <1>1, Zenon DEF StreamRec, SameCredit, SameCounters
  <1>5. SameCredit(r, e)
    BY <1>1, Zenon DEF StreamRec, SameCredit, SameCounters
  <1>6. SameCredit(r, g)
    BY <1>1, Zenon DEF StreamRec, SameCredit, SameCounters
  <1>7. StartTcpRead(r) = r \/ StartTcpRead(r) = c
    BY <1>1, Zenon DEF StartTcpRead
  <1>8. FlushTcpWrites(r) = r \/ FlushTcpWrites(r) = d
    BY <1>1, Zenon DEF FlushTcpWrites
  <1>9. ShutdownTcpSendIfReady(r) = r \/ ShutdownTcpSendIfReady(r) = e
    BY <1>1, Zenon DEF ShutdownTcpSendIfReady
  <1>10. MaybeFinish(r) = r \/ MaybeFinish(r) = g
    BY <1>1, Zenon DEF MaybeFinish
  <1>11. QED
    BY <1>2, <1>3, <1>4, <1>5, <1>6, <1>7, <1>8, <1>9, <1>10, Zenon

LEMMA SelfSilent ==
    ASSUME NEW a, a.out = <<>>
    PROVE  Silent(a, a)
  <1>1. \A k \in 1..Len(a.out) : FALSE
    OBVIOUS
  <1>2. QED
    BY <1>1 DEF Silent, SameCounters

\* send_local_fin and close.
LEMMA FinSilent ==
    ASSUME NEW i \in Ids, NEW r \in StreamRec(FramesOf(i)), r.out = <<>>, Sound(r)
    PROVE  Silent(r, SendLocalFin(i, r)) /\ Silent(r, Close(i, r))
  <1>1. PICK b, f, o, c : /\ b = [r EXCEPT !.local_fin_sent = TRUE] /\ f = Fin(i) /\ o = <<f>>
                          /\ c = [b EXCEPT !.out = o]
    BY Zenon
  <1>2. f \in FramesOf(i) /\ f.cmd = "fin" /\ o \in Seq(FramesOf(i)) /\ Len(o) = 1 /\ o[1] = f
    <2>1. f \in FramesOf(i) /\ f.cmd = "fin"
      BY <1>1 DEF Fin, FramesOf, Frame
    <2>2. QED
      BY <1>1, <2>1
  <1>3. b \in StreamRec(FramesOf(i))
    BY <1>1, Zenon DEF StreamRec
  <1>4. SameCounters(r, b) /\ b.closed = r.closed /\ b.out = <<>>
    BY <1>1, Zenon DEF StreamRec, SameCounters
  <1>5. SameCounters(b, c) /\ c.closed = b.closed /\ c.out = o
    BY <1>1, <1>3, Zenon DEF StreamRec, SameCounters
  <1>6. Silent(r, c)
    <2>1. \A k \in 1..Len(o) : o[k].cmd = "fin"
      BY <1>2
    <2>2. QED
      BY <1>4, <1>5, <2>1, Zenon DEF Silent, SameCounters
  <1>7. SendLocalFin(i, r) = r \/ SendLocalFin(i, r) = c
    <2>1. Append(<<>>, f) = o
      BY <1>1
    <2>2. SendFrame(b, f) = c
      BY <1>1, <1>4, <2>1, Zenon DEF SendFrame
    <2>3. QED
      BY <1>1, <2>2, Zenon DEF SendLocalFin
  <1>8. Silent(r, r)
    BY SelfSilent
  <1>9. Silent(r, SendLocalFin(i, r))
    BY <1>6, <1>7, <1>8, Zenon
  <1>10. PICK a : a = SendLocalFin(i, r)
    OBVIOUS
  <1>11. a \in StreamRec(FramesOf(i))
    BY <1>10, SendLocalFinKeeps
  <1>12. PICK d : d = [a EXCEPT !.closed = TRUE, !.close_timer = FALSE, !.reads = 0, !.done = <<>>,
                                !.tcp_read_buffer = <<>>, !.pending_outbound = <<>>]
    OBVIOUS
  <1>13. SameCounters(a, d) /\ d.closed /\ d.out = a.out
    BY <1>11, <1>12, Zenon DEF StreamRec, SameCounters
  <1>14. Silent(r, d)
    BY <1>9, <1>10, <1>13, Zenon DEF Silent, SameCounters
  <1>15. Close(i, r) = r \/ Close(i, r) = d
    BY <1>10, <1>12, Zenon DEF Close
  <1>16. QED
    BY <1>8, <1>9, <1>14, <1>15, Zenon
-----------------------------------------------------------------------------
(* try_flush_outbound and mark_payload_consumed.                            *)

LEMMA FlushTrades ==
    ASSUME NEW s, NEW i \in Ids, NEW r \in StreamRec(FramesOf(i)), Sound(r), r.out = <<>>
    PROVE  Trades(s, i, r, TryFlushOutbound(s, i, r))
  <1> DEFINE bufs == r.pending_outbound
             total == TotalLen(bufs)
             n == IF Version[s] = 2 THEN Max({0, Min({total, AvailablePeerWindow(r)})}) ELSE total
             chunks == FlattenSeq([j \in DOMAIN bufs |-> Chunks(SubSeq(bufs[j], 1, Share(bufs, n, j)))])
             rest == [j \in DOMAIN bufs |-> SubSeq(bufs[j], Share(bufs, n, j) + 1, Len(bufs[j]))]
             front == Min({j \in DOMAIN bufs : rest[j] # <<>>} \cup {Len(bufs) + 1})
             psh == [k \in DOMAIN chunks |-> Psh(i, chunks[k])]
             o == r.out \o psh
             w == (r.num_written + n) % Modulus
             left == SubSeq(rest, front, Len(rest))
             b == [r EXCEPT !.out = o, !.num_written = w, !.pending_outbound = left]
  <1>1. TryFlushOutbound(s, i, r) = IF r.closed THEN r ELSE b
    BY Zenon DEF TryFlushOutbound
  <1>2. /\ bufs \in Seq(Seq(Item)) /\ r.num_written \in Counter /\ r.peer_consumed \in Counter
        /\ r.peer_window \in Counter
    BY DEF StreamRec
  <1>3. PICK l, d, k : l = total /\ d = AvailablePeerWindow(r) /\ k = n
    OBVIOUS
  <1>4. PICK x : x = Behind(r.num_written, r.peer_consumed)
    OBVIOUS
  <1>5. x \in Nat /\ d = IF x >= Modulus \div 2 THEN 0 ELSE r.peer_window - x
    <2>1. x \in Nat
      <3>1. Behind(r.num_written, r.peer_consumed) \in Counter
        BY <1>2, BehindCases
      <3>2. QED
        BY <1>4, <3>1, ModulusFacts DEF Counter
    <2>2. (r.num_written - r.peer_consumed) % Modulus = x
      BY <1>4 DEF Behind
    <2>3. QED
      BY <1>3, <2>1, <2>2 DEF AvailablePeerWindow
  <1>6. l \in Nat /\ d \in Int
    <2>1. l \in Nat
      BY <1>2, <1>3, FlattenType, LenProperties DEF TotalLen
    <2>2. r.peer_window \in Int
      BY <1>2, ModulusFacts DEF Counter
    <2>3. QED
      BY <1>5, <2>1, <2>2
  <1>7. /\ k \in Nat /\ k <= l
        /\ Version[s] = 2 /\ k # 0 => k + x <= r.peer_window
    <2> HIDE DEF total
    <2>1. k = IF Version[s] = 2 THEN Max({0, Min({l, d})}) ELSE l
      BY <1>3
    <2>2. Max({0, Min({l, d})}) = IF d <= 0 THEN 0 ELSE IF l <= d THEN l ELSE d
      BY <1>6, ShareCases
    <2>3. r.peer_window \in Int
      BY <1>2, ModulusFacts DEF Counter
    <2>4. k \in Nat /\ k <= l
      BY <1>6, <2>1, <2>2
    <2>5. ASSUME Version[s] = 2, k # 0 PROVE k + x <= r.peer_window
      <3>1. k <= d /\ d > 0
        BY <1>6, <2>1, <2>2, <2>5
      <3>2. d = r.peer_window - x
        BY <1>5, <3>1
      <3>3. QED
        BY <1>5, <2>3, <2>4, <3>1, <3>2
    <2>6. QED
      BY <2>4, <2>5
  <1>8. /\ chunks \in Seq({y \in Seq(Item) : Len(y) \in 1..FrameSize})
        /\ Len(FlattenSeq(chunks)) = k
    <2>1. chunks = FlushedChunks(bufs, n)
      BY Zenon DEF FlushedChunks
    <2>2. PICK u : u = bufs
      OBVIOUS
    <2>3. u \in Seq(Seq(Item)) /\ k \in Nat
      BY <1>2, <1>7, <2>2
    <2>4. /\ FlushedChunks(u, k) \in Seq({y \in Seq(Item) : Len(y) \in 1..FrameSize})
          /\ Len(FlattenSeq(FlushedChunks(u, k))) = IF k <= TotalLen(u) THEN k ELSE TotalLen(u)
      BY <2>3, FlushSplits, Zenon
    <2>5. k <= TotalLen(u)
      BY <1>3, <1>7, <2>2
    <2> HIDE DEF n, bufs, chunks
    <2>6. chunks = FlushedChunks(u, k)
      BY <1>3, <2>1, <2>2
    <2>7. QED
      BY <2>4, <2>5, <2>6
  <1>9. w = (r.num_written + k) % Modulus
    BY <1>3
  <1> HIDE DEF n, chunks, left, w
  <1>10. chunks \in Seq(Seq(Item))
    <2>1. {y \in Seq(Item) : Len(y) \in 1..FrameSize} \subseteq Seq(Item)
      OBVIOUS
    <2>2. QED
      BY <1>8, <2>1, SeqMonotonic
  <1>11. psh \in Seq(FramesOf(i)) /\ PayloadOf(psh, i) = FlattenSeq(chunks)
    BY <1>10, PayloadPsh
  <1>12. \A j \in 1..Len(psh) : psh[j].cmd = "psh"
    BY DEF Psh
  <1> HIDE DEF psh
  <1>13. o = psh
    BY <1>11, ConcatEmptySeq
  <1> HIDE DEF o
  <1>14. /\ b.closed = r.closed /\ b.pending_tcp_writes = r.pending_tcp_writes
         /\ b.num_read = r.num_read /\ b.num_written = w
         /\ b.peer_consumed = r.peer_consumed /\ b.peer_window = r.peer_window /\ b.out = o
    BY Zenon DEF StreamRec
  <1> HIDE DEF b
  <1>15. ASSUME ~r.closed PROVE Trades(s, i, r, b)
    <2>1. ASSUME Version[s] = 2 PROVE Sends(i, r, b, b.out)
      <3>1. Len(PayloadOf(b.out, i)) = k /\ PayloadOf(b.out, i) \in Seq(Item)
        BY <1>8, <1>10, <1>11, <1>13, <1>14, FlattenType
      <3>2. b.num_written = (r.num_written + Len(PayloadOf(b.out, i))) % Modulus
        BY <1>9, <1>14, <3>1
      <3>3. CASE k = 0
        <4>1. PayloadOf(b.out, i) = <<>>
          BY <3>1, <3>3, EmptySeq
        <4>2. QED
          BY <3>2, <4>1, Zenon DEF Sends
      <3>4. CASE k # 0
        <4>1. Len(PayloadOf(b.out, i)) + Behind(r.num_written, b.peer_consumed) <= b.peer_window
          BY <1>4, <1>7, <1>14, <2>1, <3>1, <3>4
        <4>2. QED
          BY <1>15, <3>2, <4>1, Zenon DEF Sends
      <3>5. QED
        BY <3>3, <3>4
    <2>2. Consumes(i, r, b)
      <3>1. r \in StreamRec(Frame)
        BY StreamRecFrame
      <3>2. PICK y \in Nat : y = TotalLen(r.pending_tcp_writes)
        BY <3>1, LoadType, EmptySeq, Zenon
      <3>3. TotalLen(r.pending_tcp_writes) = 0 + TotalLen(b.pending_tcp_writes)
        BY <1>14, <3>2
      <3>4. b.num_read = (r.num_read + 0) % Modulus
        BY <1>14, <3>1, CreditType, NothingAdded
      <3>5. \A j \in 1..Len(b.out) : ~IsUpd(b.out[j], i)
        BY <1>12, <1>13, <1>14 DEF IsUpd
      <3>6. 0 \in Nat
        OBVIOUS
      <3>7. QED
        BY <3>3, <3>4, <3>5, <3>6, Zenon DEF Consumes
    <2>3. QED
      BY <1>14, <2>1, <2>2, Zenon DEF Trades
  <1>16. Trades(s, i, r, r)
    BY SelfSilent, SilentTrades
  <1>17. QED
    BY <1>1, <1>15, <1>16, Zenon

\* A payload has been written to the application, and is counted.
LEMMA MarkTrades ==
    ASSUME NEW s, NEW i \in Ids, NEW r \in StreamRec(FramesOf(i)), Sound(r), r.out = <<>>,
           ~r.tcp_write_active, r.pending_tcp_writes # <<>>, NEW front, front = Head(r.pending_tcp_writes),
           NEW w, w = [r EXCEPT !.pending_tcp_writes = Tail(@), !.delivered = @ \o front]
    PROVE  Trades(s, i, r, MarkPayloadConsumed(s, i, w, Len(front)))
  <1>1. /\ w \in StreamRec(FramesOf(i)) /\ w.closed = r.closed /\ Len(front) \in Nat
    BY WrittenSteps, Zenon
  <1>2. PICK bytes \in Nat : bytes = Len(front)
    BY <1>1
  <1> PICK p : p = Tail(r.pending_tcp_writes)
    BY Zenon
  <1>3. /\ w.closed = r.closed /\ w.pending_tcp_writes = p
        /\ w.num_read = r.num_read /\ w.num_written = r.num_written
        /\ w.peer_consumed = r.peer_consumed /\ w.peer_window = r.peer_window /\ w.out = <<>>
    <2>1. PICK d : d = r.delivered \o front
      BY Zenon
    <2>2. w = [r EXCEPT !.pending_tcp_writes = p, !.delivered = d]
      BY <1>2, <2>1
    <2>3. QED
      BY <2>2, Zenon DEF StreamRec
  <1>4. TotalLen(r.pending_tcp_writes) = bytes + TotalLen(p)
    <2>1. PICK u : u = r.pending_tcp_writes
      OBVIOUS
    <2>2. u \in Seq(Seq(Item)) /\ u # <<>> /\ p = Tail(u) /\ front = Head(u)
      BY <1>2, <2>1 DEF StreamRec
    <2>3. FlattenSeq(u) = front \o FlattenSeq(p) /\ front \in Seq(Item) /\ p \in Seq(Seq(Item))
      BY <2>2, FlattenHeadTail, HeadThenTail, Zenon
    <2>4. FlattenSeq(p) \in Seq(Item)
      BY <2>3, FlattenType, Zenon
    <2>5. Len(front \o FlattenSeq(p)) = Len(front) + Len(FlattenSeq(p))
      BY <2>3, <2>4, ConcatProperties
    <2>6. QED
      BY <1>2, <2>1, <2>3, <2>5 DEF TotalLen
  <1> DEFINE read == (w.num_read + bytes) % Modulus
             unacked == (w.incr + bytes) % Modulus
             due == unacked >= Max({1, StreamBuf \div 2}) \/ read = bytes
             b == [w EXCEPT !.num_read = read, !.incr = IF due THEN 0 ELSE unacked]
             f == Upd(i, read, Max({1, StreamBuf}))
             y == MarkPayloadConsumed(s, i, w, bytes)
  <1>5. /\ Version[s] # 2 => y = w
        /\ Version[s] = 2 => y = b \/ y = SendFrame(b, f)
    BY Zenon DEF MarkPayloadConsumed
  <1>6. f.consumed = read /\ f.window = StreamBuf /\ f.cmd = "upd"
    BY ModulusFacts DEF Upd
  <1>7. read = (r.num_read + bytes) % Modulus
    BY <1>3
  <1>8. read \in Counter /\ unacked \in Counter /\ 0 \in Counter
    <2>1. w.num_read \in Int /\ w.incr \in Int
      BY <1>1, ModulusFacts DEF StreamRec, Counter
    <2>2. w.num_read + bytes \in Int /\ w.incr + bytes \in Int
      BY <2>1
    <2>3. QED
      BY <2>2, ModulusFacts, Zenon
  <1> HIDE DEF read, unacked, due, f, y
  <1>9. b \in StreamRec(FramesOf(i))
    <2>1. CASE due
      BY <1>1, <1>8, <2>1, ZenonT(40) DEF StreamRec
    <2>2. CASE ~due
      BY <1>1, <1>8, <2>2, ZenonT(40) DEF StreamRec
    <2>3. QED
      BY <2>1, <2>2
  <1>10. PICK o : o = <<f>>
    BY Zenon
  <1>11. Len(o) = 1 /\ o[1] = f
    BY <1>10
  <1>12. /\ b.closed = w.closed /\ b.pending_tcp_writes = p
         /\ b.num_read = read /\ b.num_written = w.num_written
         /\ b.peer_consumed = w.peer_consumed /\ b.peer_window = w.peer_window /\ b.out = <<>>
    BY <1>1, <1>3, Zenon DEF StreamRec
  <1>13. SendFrame(b, f) = [b EXCEPT !.out = o]
    <2>1. Append(<<>>, f) = o
      BY <1>10
    <2>2. QED
      BY <1>12, <2>1, Zenon DEF SendFrame
  <1> HIDE DEF b
  <1>14. PICK c : c = SendFrame(b, f)
    OBVIOUS
  <1>15. /\ c.closed = w.closed /\ c.pending_tcp_writes = p
         /\ c.num_read = read /\ c.num_written = w.num_written
         /\ c.peer_consumed = w.peer_consumed /\ c.peer_window = w.peer_window /\ c.out = o
    BY <1>12, <1>13, <1>14, <1>9, Zenon DEF StreamRec
  <1>16. PICK g : g = y
    OBVIOUS
  <1>17. /\ g.closed = r.closed /\ g.pending_tcp_writes = p
         /\ Version[s] = 2 =>
               /\ g.num_read = read /\ g.num_written = r.num_written
               /\ g.peer_consumed = r.peer_consumed /\ g.peer_window = r.peer_window
               /\ g.out = <<>> \/ g.out = o
    BY <1>3, <1>5, <1>12, <1>14, <1>15, <1>16, Zenon
  <1>18. ASSUME Version[s] = 2
         PROVE  Sends(i, r, g, g.out) /\ Consumes(i, r, g)
    <2>1. \A k \in 1..Len(g.out) : g.out[k] = f
      BY <1>11, <1>17, <1>18
    <2>2. Consumes(i, r, g)
      <3>1. \A k \in 1..Len(g.out) : IsUpd(g.out[k], i) =>
                g.out[k].consumed = g.num_read /\ g.out[k].window = StreamBuf
        BY <1>6, <1>17, <1>18, <2>1
      <3>2. /\ TotalLen(r.pending_tcp_writes) = bytes + TotalLen(g.pending_tcp_writes)
            /\ g.num_read = (r.num_read + bytes) % Modulus
        BY <1>4, <1>7, <1>17, <1>18
      <3>3. QED
        BY <3>1, <3>2, Zenon DEF Consumes
    <2>3. Sends(i, r, g, g.out)
      <3>1. g.out \in Seq(Frame)
        <4>1. MarkPayloadConsumed(s, i, w, bytes) \in StreamRec(FramesOf(i))
          <5>1. Sound(w)
            BY WrittenSteps, Zenon
          <5>2. QED
            BY <1>1, <5>1, MarkKeeps
        <4>2. g \in StreamRec(FramesOf(i))
          BY <1>16, <4>1 DEF y
        <4>3. QED
          BY <4>2, SentType
      <3>2. PayloadOf(g.out, i) = <<>>
        <4>1. \A k \in 1..Len(g.out) : ~(g.out[k].cmd = "psh" /\ g.out[k].id = i)
          BY <1>6, <2>1
        <4>2. PICK q : q = g.out
          OBVIOUS
        <4>3. QED
          BY <3>1, <4>1, <4>2, PayloadNone
      <3>3. Len(PayloadOf(g.out, i)) = 0
        BY <3>2
      <3>4. g.num_written = (r.num_written + Len(PayloadOf(g.out, i))) % Modulus
        <4>1. r.num_written \in Counter
          BY DEF StreamRec
        <4>2. QED
          BY <1>17, <1>18, <3>3, <4>1, NothingAdded
      <3>5. QED
        BY <3>2, <3>4, Zenon DEF Sends
    <2>4. QED
      BY <2>2, <2>3
  <1>19. Trades(s, i, r, g)
    BY <1>17, <1>18, Zenon DEF Trades
  <1>20. QED
    BY <1>2, <1>16, <1>19 DEF y

LEMMA QueueCredit ==
    ASSUME NEW F, NEW r \in StreamRec(F), NEW x
    PROVE  SameCredit(r, QueueOutbound(r, x))
  <1>1. PICK p, q : p = Append(r.pending_outbound, x) /\ q = r.queued \o x
    BY Zenon
  <1>2. PICK b : b = [r EXCEPT !.pending_outbound = p, !.queued = q]
    OBVIOUS
  <1>3. QueueOutbound(r, x) = b
    BY <1>1, <1>2 DEF QueueOutbound
  <1>4. SameCredit(r, b)
    BY <1>2, Zenon DEF StreamRec, SameCredit, SameCounters
  <1>5. QED
    BY <1>3, <1>4
-----------------------------------------------------------------------------
(* The handlers, as they use credit.                                        *)

\* One handler of stream i of side s.
Pays(s, i, b) ==
    /\ stream[s][i].created
    /\ b \in StreamRec(FramesOf(i))
    /\ Trades(s, i, stream[s][i], b)
    /\ StreamStep(s, i, b)

LEMMA FinTrades ==
    ASSUME NEW s, NEW i \in Ids, NEW r \in StreamRec(FramesOf(i)), r.out = <<>>, Sound(r)
    PROVE  /\ Trades(s, i, r, Close(i, r)) /\ Trades(s, i, r, MaybeFinish(SendLocalFin(i, r)))
           /\ Close(i, r) \in StreamRec(FramesOf(i)) /\ MaybeFinish(SendLocalFin(i, r)) \in StreamRec(FramesOf(i))
  <1>1. PICK c, f : c = Close(i, r) /\ f = SendLocalFin(i, r)
    OBVIOUS
  <1>2. c \in StreamRec(FramesOf(i)) /\ f \in StreamRec(FramesOf(i)) /\ Sound(f)
    BY <1>1, CloseKeeps, SendLocalFinKeeps
  <1>3. Silent(r, c) /\ Silent(r, f)
    BY <1>1, FinSilent
  <1>4. Trades(s, i, r, c) /\ Trades(s, i, r, f)
    BY <1>2, <1>3, SilentTrades, Zenon
  <1>5. PICK m : m = MaybeFinish(f)
    OBVIOUS
  <1>6. SameCredit(f, m) /\ m \in StreamRec(FramesOf(i))
    BY <1>2, <1>5, SocketCredit, MaybeFinishKeeps
  <1>7. Trades(s, i, r, m)
    BY <1>4, <1>6, TradesThenSame
  <1>8. QED
    BY <1>1, <1>2, <1>4, <1>5, <1>6, <1>7

LEMMA ReadHandlerPays ==
    ASSUME Types, NEW s \in Side, NEW i \in Ids, ReadHandler(s, i)
    PROVE  \E b : Pays(s, i, b)
  <1>1. PICK a : a = stream[s][i]
    OBVIOUS
  <1>2. PICK d, r : d = Tail(a.done) /\ r = [a EXCEPT !.done = d]
    BY Zenon
  <1>3. PICK result : result = Head(a.done)
    OBVIOUS
  <1>4. a \in StreamRec(FramesOf(i)) /\ Sound(a) /\ (~a.created => a = NoStream) /\ a.out = <<>>
    BY <1>1, StreamHere
  <1>5. a.done # <<>>
    BY <1>1 DEF ReadHandler
  <1>6. a.created
    BY <1>4, <1>5, NoStreamIdle
  <1>7. /\ r \in StreamRec(FramesOf(i)) /\ Sound(r) /\ ~r.closed
        /\ result \in Int /\ result <= Len(r.tcp_read_buffer)
    <2>1. r = [a EXCEPT !.done = Tail(@)]
      BY <1>2
    <2>2. QED
      BY <1>3, <1>4, <1>5, <2>1, DoneTail, Zenon
  <1>8. SameCredit(a, r) /\ r.out = <<>>
    BY <1>2, <1>4, Zenon DEF StreamRec, SameCredit, SameCounters
  <1>9. \/ /\ result > 0
           /\ \E queued \in {QueueOutbound(r, SubSeq(r.tcp_read_buffer, 1, result))} :
              \E flushed \in {TryFlushOutbound(s, i, queued)} :
                 StreamStep(s, i, IF HasPendingOutbound(flushed) THEN flushed ELSE StartTcpRead(flushed))
        \/ /\ result = EndOfStream
           /\ StreamStep(s, i, MaybeFinish(SendLocalFin(i, r)))
        \/ /\ result = ReadFailed
           /\ StreamStep(s, i, Close(i, r))
    BY <1>1, <1>2, <1>3 DEF ReadHandler
  <1>10. CASE /\ result > 0
              /\ \E queued \in {QueueOutbound(r, SubSeq(r.tcp_read_buffer, 1, result))} :
                 \E flushed \in {TryFlushOutbound(s, i, queued)} :
                    StreamStep(s, i, IF HasPendingOutbound(flushed) THEN flushed ELSE StartTcpRead(flushed))
    <2>1. PICK x : x = SubSeq(r.tcp_read_buffer, 1, result)
      BY Zenon
    <2>2. x \in Seq(Item)
      <3>1. r.tcp_read_buffer \in Seq(Item)
        BY <1>7 DEF StreamRec
      <3>2. result \in 0..Len(r.tcp_read_buffer)
        BY <1>7, <1>10, <3>1, LenProperties
      <3>3. QED
        BY <2>1, <3>1, <3>2, Halves
    <2>3. PICK q, f, g : q = QueueOutbound(r, x) /\ f = TryFlushOutbound(s, i, q) /\ g = StartTcpRead(f)
      OBVIOUS
    <2>4. q \in StreamRec(FramesOf(i)) /\ Sound(q)
      BY <1>7, <2>2, <2>3, QueueSteps
    <2>5. SameCredit(r, q)
      BY <1>7, <2>3, QueueCredit
    <2>6. SameCredit(a, q) /\ q.out = <<>>
      BY <1>8, <2>5, Zenon DEF SameCredit, SameCounters
    <2>7. f \in StreamRec(FramesOf(i)) /\ Sound(f)
      BY <2>3, <2>4, TryFlushKeeps
    <2>8. Trades(s, i, q, f)
      BY <2>3, <2>4, <2>6, FlushTrades
    <2>9. g \in StreamRec(FramesOf(i)) /\ SameCredit(f, g)
      BY <2>3, <2>7, StartTcpReadKeeps, SocketCredit
    <2>10. Trades(s, i, a, f)
      BY <2>6, <2>8, SameThenTrades
    <2>11. Trades(s, i, a, g)
      BY <2>9, <2>10, TradesThenSame
    <2>12. StreamStep(s, i, f) \/ StreamStep(s, i, g)
      <3>1. StreamStep(s, i, IF HasPendingOutbound(f) THEN f ELSE g)
        BY <1>10, <2>1, <2>3
      <3>2. QED
        BY <3>1, Zenon
    <2>13. Pays(s, i, f) \/ Pays(s, i, g)
      BY <1>1, <1>6, <2>7, <2>9, <2>10, <2>11, <2>12, Zenon DEF Pays
    <2>14. QED
      BY <2>13, Zenon
  <1>11. PICK m, c : m = MaybeFinish(SendLocalFin(i, r)) /\ c = Close(i, r)
    OBVIOUS
  <1>12. /\ m \in StreamRec(FramesOf(i)) /\ c \in StreamRec(FramesOf(i))
         /\ Trades(s, i, r, m) /\ Trades(s, i, r, c)
    BY <1>7, <1>8, <1>11, FinTrades
  <1>13. Trades(s, i, a, m) /\ Trades(s, i, a, c)
    BY <1>8, <1>12, SameThenTrades
  <1>14. CASE StreamStep(s, i, m) \/ StreamStep(s, i, c)
    <2>1. Pays(s, i, m) \/ Pays(s, i, c)
      BY <1>1, <1>6, <1>12, <1>13, <1>14, Zenon DEF Pays
    <2>2. QED
      BY <2>1, Zenon
  <1>15. QED
    BY <1>9, <1>10, <1>11, <1>14, Zenon

LEMMA CloseTimerPays ==
    ASSUME Types, NEW s \in Side, NEW i \in Ids, CloseTimer(s, i)
    PROVE  \E b : Pays(s, i, b)
  <1>1. PICK a, b : a = stream[s][i] /\ b = Close(i, a)
    OBVIOUS
  <1>2. a \in StreamRec(FramesOf(i)) /\ Sound(a) /\ (~a.created => a = NoStream) /\ a.out = <<>>
    BY <1>1, StreamHere
  <1>3. a.created
    <2>1. a.close_timer
      BY <1>1 DEF CloseTimer
    <2>2. QED
      BY <1>2, <2>1, NoStreamIdle
  <1>4. b \in StreamRec(FramesOf(i)) /\ Trades(s, i, a, b)
    BY <1>1, <1>2, FinTrades
  <1>5. StreamStep(s, i, b)
    BY <1>1 DEF CloseTimer
  <1>6. Pays(s, i, b)
    BY <1>1, <1>3, <1>4, <1>5, Zenon DEF Pays
  <1>7. QED
    BY <1>6, Zenon

LEMMA WriteHandlerPays ==
    ASSUME Types, NEW s \in Side, NEW i \in Ids, WriteHandler(s, i)
    PROVE  \E b : Pays(s, i, b)
  <1>1. PICK a : a = stream[s][i]
    OBVIOUS
  <1>2. PICK r : r = [a EXCEPT !.tcp_write_active = FALSE]
    BY Zenon
  <1>3. PICK front : front = Head(r.pending_tcp_writes)
    OBVIOUS
  <1>4. PICK w : w = [r EXCEPT !.pending_tcp_writes = Tail(@), !.delivered = @ \o front]
    OBVIOUS
  <1>5. a \in StreamRec(FramesOf(i)) /\ Sound(a) /\ (~a.created => a = NoStream) /\ a.out = <<>>
    BY <1>1, StreamHere
  <1>6. a.tcp_write_active
    BY <1>1 DEF WriteHandler
  <1>7. a.created /\ a.pending_tcp_writes # <<>>
    BY <1>5, <1>6, NoStreamIdle DEF Sound
  <1>8. /\ r \in StreamRec(FramesOf(i)) /\ Sound(r) /\ ~r.tcp_write_active
        /\ r.pending_tcp_writes # <<>> /\ SameCredit(a, r) /\ r.out = <<>>
    <2>1. r \in StreamRec(FramesOf(i))
      BY <1>2, <1>5, Zenon DEF StreamRec
    <2>2. Same(a, r) /\ r.reads = a.reads /\ ~r.tcp_write_active
      BY <1>2, <1>5, Zenon DEF StreamRec, Same
    <2>3. Sound(r)
      BY <1>5, <2>2, Zenon DEF Sound, Same
    <2>4. SameCredit(a, r)
      BY <1>2, <1>5, Zenon DEF StreamRec, SameCredit, SameCounters
    <2>5. QED
      BY <1>5, <1>7, <2>1, <2>2, <2>3, <2>4, Zenon DEF Same
  <1>9. PICK m, c : m = MaybeFinish(SendLocalFin(i, r)) /\ c = Close(i, r)
    OBVIOUS
  <1>10. PICK y, n, z, o : /\ y = MarkPayloadConsumed(s, i, w, Len(front)) /\ n = FlushTcpWrites(y)
                           /\ z = ShutdownTcpSendIfReady(n) /\ o = MaybeFinish(z)
    OBVIOUS
  <1>11. StreamStep(s, i, o) \/ StreamStep(s, i, m) \/ StreamStep(s, i, c)
    BY <1>1, <1>2, <1>3, <1>4, <1>9, <1>10 DEF WriteHandler
  <1>12. /\ m \in StreamRec(FramesOf(i)) /\ c \in StreamRec(FramesOf(i))
         /\ Trades(s, i, r, m) /\ Trades(s, i, r, c)
    BY <1>8, <1>9, FinTrades
  <1>13. o \in StreamRec(FramesOf(i)) /\ Trades(s, i, r, o)
    <2>1. w \in StreamRec(FramesOf(i)) /\ Sound(w) /\ Len(front) \in Nat
      BY <1>3, <1>4, <1>8, WrittenSteps, Zenon
    <2>2. y \in StreamRec(FramesOf(i)) /\ Sound(y)
      BY <1>10, <2>1, MarkKeeps
    <2>3. Trades(s, i, r, y)
      BY <1>3, <1>4, <1>8, <1>10, MarkTrades, Zenon
    <2>4. n \in StreamRec(FramesOf(i)) /\ Sound(n) /\ SameCredit(y, n)
      BY <1>10, <2>2, FlushTcpWritesKeeps, SocketCredit
    <2>5. z \in StreamRec(FramesOf(i)) /\ Sound(z) /\ SameCredit(n, z)
      BY <1>10, <2>4, ShutdownKeeps, SocketCredit
    <2>6. o \in StreamRec(FramesOf(i)) /\ SameCredit(z, o)
      BY <1>10, <2>5, MaybeFinishKeeps, SocketCredit
    <2>7. Trades(s, i, r, n)
      BY <2>3, <2>4, TradesThenSame
    <2>8. Trades(s, i, r, z)
      BY <2>5, <2>7, TradesThenSame
    <2>9. QED
      BY <2>6, <2>8, TradesThenSame
  <1>14. Trades(s, i, a, m) /\ Trades(s, i, a, c) /\ Trades(s, i, a, o)
    BY <1>8, <1>12, <1>13, SameThenTrades
  <1>15. Pays(s, i, o) \/ Pays(s, i, m) \/ Pays(s, i, c)
    BY <1>1, <1>7, <1>11, <1>12, <1>13, <1>14, Zenon DEF Pays
  <1>16. QED
    BY <1>15, Zenon

LEMMA ResolveDonePays ==
    ASSUME Types, NEW i \in Ids, ResolveDone(i)
    PROVE  \E b : Pays("server", i, b)
  <1>1. PICK a : a = stream["server"][i]
    OBVIOUS
  <1>2. PICK p, r : p = [a EXCEPT !.phase = "connect"] /\ r = [a EXCEPT !.phase = "idle"]
    BY Zenon
  <1>3. PICK c : c = Close(i, r)
    OBVIOUS
  <1>4. a \in StreamRec(FramesOf(i)) /\ Sound(a) /\ (~a.created => a = NoStream) /\ a.out = <<>>
    BY <1>1, StreamHere DEF Side
  <1>5. a.created
    <2>1. a.phase = "resolve"
      BY <1>1 DEF ResolveDone
    <2>2. QED
      BY <1>4, <2>1, NoStreamIdle
  <1>6. StreamStep("server", i, p) \/ StreamStep("server", i, c)
    BY <1>1, <1>2, <1>3 DEF ResolveDone
  <1>7. p \in StreamRec(FramesOf(i)) /\ r \in StreamRec(FramesOf(i))
    BY <1>2, <1>4, Zenon DEF StreamRec
  <1>8. SameCredit(a, p) /\ SameCredit(a, r)
    BY <1>2, <1>4, Zenon DEF StreamRec, SameCredit, SameCounters
  <1>9. Sound(r) /\ r.out = <<>>
    <2>1. Same(a, r) /\ r.reads = a.reads /\ r.tcp_write_active = a.tcp_write_active
      BY <1>2, <1>4, Zenon DEF StreamRec, Same
    <2>2. QED
      BY <1>4, <2>1, Zenon DEF Sound, Same
  <1>10. c \in StreamRec(FramesOf(i)) /\ Trades("server", i, r, c)
    BY <1>3, <1>7, <1>9, FinTrades
  <1>11. Trades("server", i, a, a)
    BY <1>4, SelfSilent, SilentTrades
  <1>12. Trades("server", i, a, c) /\ Trades("server", i, a, p)
    BY <1>8, <1>10, <1>11, SameThenTrades, TradesThenSame
  <1>13. Pays("server", i, p) \/ Pays("server", i, c)
    BY <1>1, <1>5, <1>6, <1>7, <1>10, <1>12, Zenon DEF Pays
  <1>14. QED
    BY <1>13, Zenon

LEMMA ConnectDonePays ==
    ASSUME Types, NEW i \in Ids, ConnectDone(i)
    PROVE  UNCHANGED <<stream, net>> \/ \E b : Pays("server", i, b)
  <1>1. PICK a : a = stream["server"][i]
    OBVIOUS
  <1>2. PICK r : r = [a EXCEPT !.phase = "idle"]
    BY Zenon
  <1>3. PICK ready : ready = [r EXCEPT !.tcp_ready = TRUE]
    BY Zenon
  <1>4. PICK c, f, g, h : /\ c = Close(i, r) /\ f = FlushTcpWrites(ready)
                          /\ g = StartTcpRead(f) /\ h = ShutdownTcpSendIfReady(g)
    OBVIOUS
  <1>5. a \in StreamRec(FramesOf(i)) /\ Sound(a) /\ (~a.created => a = NoStream) /\ a.out = <<>>
    BY <1>1, StreamHere DEF Side
  <1>6. a.created
    <2>1. a.phase = "connect"
      BY <1>1 DEF ConnectDone
    <2>2. QED
      BY <1>5, <2>1, NoStreamIdle
  <1>7. UNCHANGED <<stream, net>> \/ StreamStep("server", i, h) \/ StreamStep("server", i, c)
    BY <1>1, <1>2, <1>3, <1>4, Zenon DEF ConnectDone
  <1>8. r \in StreamRec(FramesOf(i)) /\ SameCredit(a, r) /\ Sound(r) /\ r.out = <<>>
    <2>1. r \in StreamRec(FramesOf(i))
      BY <1>2, <1>5, Zenon DEF StreamRec
    <2>2. Same(a, r) /\ r.reads = a.reads /\ r.tcp_write_active = a.tcp_write_active
      BY <1>2, <1>5, Zenon DEF StreamRec, Same
    <2>3. SameCredit(a, r)
      BY <1>2, <1>5, Zenon DEF StreamRec, SameCredit, SameCounters
    <2>4. QED
      BY <1>5, <2>1, <2>2, <2>3, Zenon DEF Sound, Same
  <1>9. ready \in StreamRec(FramesOf(i)) /\ SameCredit(r, ready) /\ Sound(ready)
    <2>1. ready \in StreamRec(FramesOf(i))
      BY <1>3, <1>8, Zenon DEF StreamRec
    <2>2. Same(r, ready) /\ ready.reads = r.reads /\ ready.tcp_write_active = r.tcp_write_active
      BY <1>3, <1>8, Zenon DEF StreamRec, Same
    <2>3. SameCredit(r, ready)
      BY <1>3, <1>8, Zenon DEF StreamRec, SameCredit, SameCounters
    <2>4. QED
      BY <1>8, <2>1, <2>2, <2>3, Zenon DEF Sound, Same
  <1>10. f \in StreamRec(FramesOf(i)) /\ SameCredit(ready, f) /\ Sound(f)
    BY <1>4, <1>9, FlushTcpWritesKeeps, SocketCredit
  <1>11. g \in StreamRec(FramesOf(i)) /\ SameCredit(f, g) /\ Sound(g)
    BY <1>4, <1>10, StartTcpReadKeeps, SocketCredit
  <1>12. h \in StreamRec(FramesOf(i)) /\ SameCredit(g, h)
    BY <1>4, <1>11, ShutdownKeeps, SocketCredit
  <1>13. SameCredit(a, h)
    BY <1>8, <1>9, <1>10, <1>11, <1>12, Zenon DEF SameCredit, SameCounters
  <1>14. c \in StreamRec(FramesOf(i)) /\ Trades("server", i, r, c)
    BY <1>4, <1>8, FinTrades
  <1>15. Trades("server", i, a, a)
    BY <1>5, SelfSilent, SilentTrades
  <1>16. Trades("server", i, a, c) /\ Trades("server", i, a, h)
    BY <1>8, <1>13, <1>14, <1>15, SameThenTrades, TradesThenSame
  <1>17. UNCHANGED <<stream, net>> \/ Pays("server", i, h) \/ Pays("server", i, c)
    BY <1>1, <1>6, <1>7, <1>12, <1>14, <1>16, Zenon DEF Pays
  <1>18. QED
    BY <1>17, Zenon
-----------------------------------------------------------------------------
(* The steps of the session.                                                *)

LEMMA SameVersions == UNCHANGED config => \A s : Version'[s] = Version[s]
  BY DEF Version

LEMMA WindowedSame ==
    ASSUME NEW i, NEW a, NEW b, NEW c, NEW d, NEW v, NEW w, NEW open,
           SameCounters(a, b), b.closed = a.closed, SameCounters(c, d), d.closed = c.closed,
           Windowed(i, a, c, v, w, open)
    PROVE  Windowed(i, b, d, v, w, open)
  <1>1. Load(i, b, v) = Load(i, a, v)
    BY DEF Load, SameCounters
  <1>2. QED
    BY <1>1, Zenon DEF Windowed, SameCounters

\* A step that sends and takes nothing and counts nothing.
LEMMA QuietWindow ==
    ASSUME WindowInv, UNCHANGED <<config, net>>, KeepsSessions,
           \A t \in Side, j \in Ids :
              /\ SameCounters(stream[t][j], stream'[t][j])
              /\ stream'[t][j].closed = stream[t][j].closed
              /\ stream'[t][j].created = stream[t][j].created
    PROVE  WindowInv'
  <1>1. \A s : Version'[s] = Version[s]
    BY SameVersions
  <1>2. AllWindowed => AllWindowed'
    <2>1. SUFFICES ASSUME AllWindowed, NEW s \in Side, NEW i \in Ids
                   PROVE  Windowed(i, stream'[s][i], stream'[Peer(s)][i], net'[s], net'[Peer(s)], Open')
      BY Zenon DEF AllWindowed
    <2>2. Windowed(i, stream[s][i], stream[Peer(s)][i], net[s], net[Peer(s)], Open)
      BY <2>1, Zenon DEF AllWindowed
    <2>3. Peer(s) \in Side
      BY Sides
    <2>4. Windowed(i, stream'[s][i], stream'[Peer(s)][i], net[s], net[Peer(s)], Open)
      BY <2>2, <2>3, WindowedSame
    <2>5. Open' <=> Open
      BY Zenon DEF Open, KeepsSessions, Side
    <2>6. QED
      BY <2>4, <2>5, Zenon DEF Windowed
  <1>3. Refused => Refused'
    <2>1. "client" \in Side /\ "server" \in Side
      BY DEF Side
    <2>2. \A i \in Ids : /\ stream'["server"][i].created = stream["server"][i].created
                         /\ stream'["client"][i].pending_tcp_writes = stream["client"][i].pending_tcp_writes
      BY <2>1, Zenon DEF SameCounters
    <2>3. QED
      BY <2>2, Zenon DEF Refused
  <1>4. QED
    BY <1>1, <1>2, <1>3, Zenon DEF WindowInv

LEMMA RefusedStep ==
    ASSUME Types, Refused, NEW i \in Ids, NEW b \in StreamRec(Frame),
           b.pending_tcp_writes = <<>>, Effect("client", i, b, net["client"])
    PROVE  Refused'
  <1>1. "client" \in Side /\ "server" \in Side /\ net["client"] \in Seq(Frame)
    BY DEF Side, Types
  <1>2. /\ stream'["client"][i] = Cleared(b)
        /\ \A t \in Side, j \in Ids : t # "client" \/ j # i => stream'[t][j] = stream[t][j]
        /\ net'["client"] = net["client"]
    BY <1>1, EffectFacts
  <1>3. Cleared(b).pending_tcp_writes = <<>>
    BY ClearedCredit
  <1>4. \A j \in Ids : stream'["client"][j].pending_tcp_writes = <<>>
    <2>1. SUFFICES ASSUME NEW j \in Ids PROVE stream'["client"][j].pending_tcp_writes = <<>>
      OBVIOUS
    <2>2. CASE j = i
      BY <1>2, <1>3, <2>2
    <2>3. CASE j # i
      BY <1>1, <1>2, <2>3, Zenon DEF Refused
    <2>4. QED
      BY <2>2, <2>3
  <1>5. \A j \in Ids : stream'["server"][j] = stream["server"][j]
    BY <1>1, <1>2
  <1>6. QED
    BY <1>2, <1>4, <1>5, Zenon DEF Refused

LEMMA PaysWindow ==
    ASSUME SmuxInv, WindowInv, UNCHANGED <<config, session>>, NEW s \in Side, NEW i \in Ids,
           NEW b, Pays(s, i, b)
    PROVE  WindowInv'
  <1>1. Types
    BY DEF SmuxInv
  <1>2. PICK a, q : a = stream[s][i] /\ q = net[s]
    OBVIOUS
  <1>3. /\ a.created /\ b \in StreamRec(FramesOf(i)) /\ Trades(s, i, a, b) /\ StreamStep(s, i, b)
    BY <1>2, Zenon DEF Pays
  <1>4. b \in StreamRec(Frame) /\ a \in StreamRec(Frame) /\ q \in Seq(Frame)
    BY <1>1, <1>2, <1>3, StreamRecFrame, StreamHere DEF Types
  <1>5. Effect(s, i, b, q)
    BY <1>1, <1>2, <1>3, StreamStepEffect
  <1>6. FramesAbout(b.out, i)
    <2>1. b.out \in Seq(FramesOf(i))
      BY <1>3 DEF StreamRec
    <2>2. QED
      BY <2>1, FramesOfFacts
  <1>7. KeepsSessions
    BY DEF KeepsSessions
  <1>8. ASSUME Version[s] = 2, AllWindowed PROVE AllWindowed'
    <2>1. Credit(i, a, b, q, q, b.out)
      BY <1>3, <1>4, <1>8, TradesCredit
    <2>2. QED
      BY <1>1, <1>2, <1>4, <1>5, <1>6, <1>7, <1>8, <2>1, WindowStep
  <1>9. ASSUME Refused PROVE Refused'
    <2>1. s = "client"
      BY <1>2, <1>3, <1>9 DEF Refused, Side
    <2>2. a.pending_tcp_writes = <<>>
      BY <1>2, <1>9, <2>1 DEF Refused
    <2>3. b.pending_tcp_writes = <<>>
      BY <1>3, <2>2, Zenon DEF Trades
    <2>4. QED
      BY <1>1, <1>2, <1>4, <1>5, <1>9, <2>1, <2>3, RefusedStep
  <1>10. \A t : Version'[t] = Version[t]
    BY SameVersions
  <1>11. QED
    BY <1>8, <1>9, <1>10, Zenon DEF WindowInv

\* A record that counts as a does.
LEMMA CreditSame ==
    ASSUME NEW i, NEW a, NEW b, NEW v, NEW v2, NEW o,
           Credit(i, a, a, v, v2, o), SameCounters(a, b), a.closed => b.closed
    PROVE  Credit(i, a, b, v, v2, o)
  <1>1. Reads(i, a, a, v, v2, o) /\ Knows(i, a, a, v, v2) /\ Sends(i, a, a, o)
    BY Zenon DEF Credit
  <1>2. Load(i, b, v2) = Load(i, a, v2)
    BY DEF Load, SameCounters
  <1>3. Reads(i, a, b, v, v2, o)
    BY <1>1, <1>2, Zenon DEF Reads, SameCounters
  <1>4. Knows(i, a, b, v, v2)
    BY <1>1, Zenon DEF Knows, SameCounters
  <1>5. Sends(i, a, b, o)
    BY <1>1, Zenon DEF Sends, SameCounters
  <1>6. QED
    BY <1>3, <1>4, <1>5, Zenon DEF Credit

LEMMA NewStreamCredit ==
    ASSUME NEW phase
    PROVE  /\ SameCounters(NoStream, NewStream(phase)) /\ ~NoStream.closed
           /\ NewStream(phase).out = <<>>
  BY DEF NewStream, NoStream, SameCounters

LEMMA StartClientCredit ==
    ASSUME NEW i \in Ids, NEW gone, NEW b,
           b = StartClient(SendFrame(NewStream("idle"), Syn(i)), gone)
    PROVE  SameCounters(NoStream, b)
  <1>1. PICK n, f, m, r, w, g : /\ n = NewStream("idle") /\ f = Syn(i)
                                /\ m = SendFrame(n, f)
                                /\ r = [m EXCEPT !.tcp_ready = TRUE]
                                /\ w = FlushTcpWrites(r) /\ g = StartTcpRead(w)
    BY Zenon
  <1>2. n \in StreamRec(Frame) /\ SameCounters(NoStream, n)
    BY <1>1, NewStreamFresh, NewStreamCredit
  <1>3. f \in Frame
    BY <1>1 DEF Syn, Frame
  <1>4. PICK o : o = Append(n.out, f)
    BY Zenon
  <1>5. o \in Seq(Frame)
    <2>1. n.out \in Seq(Frame)
      BY <1>2 DEF StreamRec
    <2>2. QED
      BY <1>3, <1>4, <2>1, AppendProperties
  <1>6. m = [n EXCEPT !.out = o]
    BY <1>1, <1>4, Zenon DEF SendFrame
  <1>7. m \in StreamRec(Frame)
    BY <1>2, <1>5, <1>6, ZenonT(40) DEF StreamRec
  <1>8. r \in StreamRec(Frame)
    BY <1>1, <1>7, ZenonT(40) DEF StreamRec
  <1>9. SameCounters(n, m)
    BY <1>2, <1>6, Zenon DEF StreamRec, SameCounters
  <1>10. SameCounters(m, r)
    BY <1>1, <1>7, Zenon DEF StreamRec, SameCounters
  <1>11. SameCredit(r, w)
    BY <1>1, <1>8, SocketCredit
  <1>12. w = r \/ w \in StreamRec(Frame)
    <2>1. w = r \/ w = [r EXCEPT !.tcp_write_active = TRUE]
      BY <1>1, Zenon DEF FlushTcpWrites
    <2>2. ASSUME w = [r EXCEPT !.tcp_write_active = TRUE] PROVE w \in StreamRec(Frame)
      BY <1>8, <2>2, Zenon DEF StreamRec
    <2>3. QED
      BY <2>1, <2>2
  <1>13. SameCredit(w, g)
    BY <1>1, <1>8, <1>12, SocketCredit
  <1>14. b = r \/ b = g
    BY <1>1, Zenon DEF StartClient
  <1>15. QED
    BY <1>2, <1>9, <1>10, <1>11, <1>13, <1>14, Zenon DEF SameCredit, SameCounters

LEMMA AcceptWindow ==
    ASSUME SmuxInv, WindowInv, UNCHANGED config, HandleAccept
    PROVE  WindowInv'
  <1>1. Types /\ Order
    BY DEF SmuxInv
  <1>2. "client" \in Side
    BY DEF Side
  <1>3. PICK i : i = NextStreamId(session["client"].next_stream_id)
    OBVIOUS
  <1>4. /\ i \in Ids
        /\ session' = [session EXCEPT !["client"].next_stream_id = i]
    BY <1>3, Zenon DEF HandleAccept
  <1>5. PICK gone :
           StreamStep("client", i, StartClient(SendFrame(NewStream("idle"), Syn(i)), gone))
    BY <1>3, Zenon DEF HandleAccept
  <1>6. PICK b, q : b = StartClient(SendFrame(NewStream("idle"), Syn(i)), gone) /\ q = net["client"]
    OBVIOUS
  <1>7. /\ b \in StreamRec(Frame) /\ b.out = <<Syn(i)>> /\ SameCounters(NoStream, b)
        /\ b.pending_tcp_writes = <<>>
    <2>1. Fresh(i, b)
      BY <1>4, <1>6, StartClientFresh
    <2>2. QED
      BY <1>4, <1>6, <2>1, StartClientFresh, StartClientCredit DEF Fresh
  <1>8. q \in Seq(Frame) /\ Effect("client", i, b, q)
    <2>1. StreamStep("client", i, b)
      BY <1>5, <1>6
    <2>2. QED
      BY <1>1, <1>2, <1>4, <1>6, <2>1, StreamStepEffect DEF Types
  <1>9. KeepsSessions
    <2>1. session \in [Side -> [closed : BOOLEAN, next_stream_id : Int]]
      BY <1>1 DEF Types
    <2>2. PICK u : u = [session["client"] EXCEPT !.next_stream_id = i]
      BY Zenon
    <2>3. u.closed = session["client"].closed
      BY <1>2, <2>1, <2>2
    <2>4. session' = [session EXCEPT !["client"] = u]
      BY <1>2, <1>4, <2>1, <2>2, Zenon
    <2>5. /\ session'["client"] = u
          /\ \A t \in Side : t # "client" => session'[t] = session[t]
      BY <1>2, <2>1, <2>4
    <2>6. SUFFICES ASSUME NEW t \in Side PROVE session'[t].closed = session[t].closed
      BY Zenon DEF KeepsSessions
    <2>7. QED
      BY <2>3, <2>5
  <1>10. stream["client"][i] = NoStream
    <2>1. session["client"].next_stream_id \in Int /\ i \in Int
      BY <1>1, <1>2, <1>4, IdsAreInts DEF Types
    <2>2. i = session["client"].next_stream_id + 2
      BY <1>3 DEF NextStreamId
    <2>3. stream["client"][i].created => i <= session["client"].next_stream_id
      BY <1>1, <1>4, Zenon DEF Order
    <2>4. ~stream["client"][i].created
      BY <2>1, <2>2, <2>3
    <2>5. QED
      BY <1>1, <1>2, <1>4, <2>4, StreamHere
  <1>11. PICK f, o : f = Syn(i) /\ o = <<f>>
    BY Zenon
  <1>12. Len(o) = 1 /\ o[1] = f /\ f.id = i /\ f.cmd = "syn" /\ o = b.out
    BY <1>7, <1>11 DEF Syn
  <1>13. FramesAbout(b.out, i)
    BY <1>12 DEF FramesAbout
  <1>14. Credit(i, NoStream, b, q, q, o)
    <2>1. o \in Seq(Frame)
      BY <1>7, <1>12, Zenon DEF StreamRec
    <2>2. \A k \in 1..Len(o) : o[k].cmd = "syn"
      BY <1>12
    <2>3. PayloadOf(o, i) = <<>>
      BY <2>1, <2>2, PayloadNone
    <2>4. \A k \in 1..Len(o) : ~IsUpd(o[k], i)
      BY <2>2 DEF IsUpd
    <2>5. Credit(i, NoStream, NoStream, q, q, o)
      BY <1>8, <2>1, <2>3, <2>4, NoStreamType, CreditSelf
    <2>6. ~NoStream.closed
      BY NoStreamIdle
    <2>7. QED
      BY <1>7, <2>5, <2>6, CreditSame
  <1>15. AllWindowed => AllWindowed'
    <2>1. HAVE AllWindowed
    <2>2. Credit(i, stream["client"][i], b, net["client"], q, b.out)
      BY <1>6, <1>10, <1>12, <1>14
    <2>3. QED
      BY <1>1, <1>2, <1>4, <1>6, <1>7, <1>8, <1>9, <1>13, <2>1, <2>2, WindowStep
  <1>16. Refused => Refused'
    BY <1>1, <1>4, <1>6, <1>7, <1>8, RefusedStep
  <1>17. \A t : Version'[t] = Version[t]
    BY SameVersions
  <1>18. QED
    BY <1>15, <1>16, <1>17, Zenon DEF WindowInv
-----------------------------------------------------------------------------
(* The frames.                                                              *)

\* A frame for stream i has been taken off the wire, and the stream is now b.
LEMMA AfterWindow ==
    ASSUME SmuxInv, WindowInv, UNCHANGED <<config, session>>, NEW s \in Side, VersionAccepted(s),
           net[s] # <<>>, NEW b \in StreamRec(FramesOf(Head(net[s]).id)),
           Version[s] = 2 => Credit(Head(net[s]).id, stream[s][Head(net[s]).id], b, net[s], Tail(net[s]), b.out),
           stream' = [stream EXCEPT ![s][Head(net[s]).id] = [b EXCEPT !.out = <<>>]],
           net' = [net EXCEPT ![s] = Tail(@), ![Peer(s)] = Transmitted(s, @, b.out)]
    PROVE  WindowInv'
  <1>1. Types
    BY DEF SmuxInv
  <1>2. PICK q, f, t : q = net[s] /\ f = Head(q) /\ t = Tail(q)
    BY Zenon
  <1>3. q \in Seq(Frame) /\ q # <<>>
    BY <1>1, <1>2 DEF Types
  <1>4. f \in Frame /\ t \in Seq(Frame)
    BY <1>2, <1>3, HeadTailProperties
  <1>5. PICK i \in Ids : i = f.id
    BY <1>4 DEF Frame
  <1>6. b \in StreamRec(FramesOf(i)) /\ b \in StreamRec(Frame)
    <2>1. b \in StreamRec(FramesOf(i))
      BY <1>2, <1>5
    <2>2. QED
      BY <2>1, StreamRecFrame
  <1>7. FramesAbout(b.out, i)
    <2>1. b.out \in Seq(FramesOf(i))
      BY <1>6 DEF StreamRec
    <2>2. QED
      BY <2>1, FramesOfFacts
  <1>8. Effect(s, i, b, t)
    <2>1. PICK p : p = Peer(s)
      OBVIOUS
    <2>2. net \in [Side -> Seq(Frame)] /\ p \in Side /\ p # s
      BY <1>1, <2>1, Sides DEF Types
    <2>3. net' = [net EXCEPT ![s] = t, ![p] = Transmitted(s, @, b.out)]
      BY <1>2, <2>1, <2>2, Zenon
    <2>4. stream' = [stream EXCEPT ![s][i] = Cleared(b)]
      BY <1>2, <1>5 DEF Cleared
    <2>5. QED
      BY <2>1, <2>3, <2>4, Zenon DEF Effect
  <1>9. ASSUME NEW j \in Ids \ {i} PROVE PayloadOf(t, j) = PayloadOf(net[s], j)
    <2>1. Data(f, j) = <<>>
      BY <1>5, <1>9, Zenon DEF Data
    <2>2. PayloadOf(q, j) = <<>> \o PayloadOf(t, j)
      BY <1>2, <1>3, <2>1, HeadPayload, Zenon
    <2>3. PayloadOf(t, j) \in Seq(Item)
      BY <1>4, PayloadType
    <2>4. QED
      BY <1>2, <2>2, <2>3, ConcatEmptySeq
  <1>10. KeepsSessions
    BY DEF KeepsSessions
  <1>11. ASSUME Version[s] = 2, AllWindowed PROVE AllWindowed'
    <2>1. Credit(i, stream[s][i], b, net[s], t, b.out)
      BY <1>2, <1>5, <1>11
    <2>2. net[s] # <<>> /\ t = Tail(net[s])
      BY <1>2, <1>3
    <2>3. QED
      BY <1>1, <1>4, <1>6, <1>7, <1>8, <1>9, <1>10, <1>11, <2>1, <2>2, WindowStep, Zenon
  <1>12. Version["client"] = Version["server"]
    <2>1. Version[s] = Version[Peer(s)] /\ (s = "client" \/ s = "server")
      BY DEF VersionAccepted, Side
    <2>2. QED
      BY <2>1, Zenon DEF Peer
  <1>13. \A u : Version'[u] = Version[u]
    BY SameVersions
  <1>14. QED
    BY <1>11, <1>12, <1>13, Zenon DEF WindowInv

\* A frame without payload or credit, answered by a record that counts as a does.
LEMMA FrameIgnored ==
    ASSUME NEW q \in Seq(Frame), q # <<>>, NEW i, ~(Head(q).cmd = "psh" /\ Head(q).id = i),
           NEW a \in StreamRec(Frame), NEW b, SameCounters(a, b), a.closed => b.closed, b.out = <<>>
    PROVE  Credit(i, a, b, q, Tail(q), b.out)
  <1>1. PICK f, t : f = Head(q) /\ t = Tail(q)
    BY Zenon
  <1>2. f \in Frame /\ t \in Seq(Frame)
    BY <1>1, HeadTailProperties
  <1>3. PayloadOf(t, i) = PayloadOf(q, i)
    <2>1. Data(f, i) = <<>>
      BY <1>1, Zenon DEF Data
    <2>2. PayloadOf(q, i) = <<>> \o PayloadOf(t, i)
      BY <1>1, <2>1, HeadPayload, Zenon
    <2>3. PayloadOf(t, i) \in Seq(Item)
      BY <1>2, PayloadType
    <2>4. QED
      BY <2>2, <2>3, ConcatEmptySeq
  <1>4. PICK o : o = b.out
    OBVIOUS
  <1>5. o \in Seq(Frame) /\ PayloadOf(o, i) = <<>> /\ Len(o) = 0
    BY <1>4, EmptySeq, PayloadEmpty
  <1>6. \A k \in 1..Len(o) : ~IsUpd(o[k], i)
    BY <1>5
  <1>7. t = q \/ (q # <<>> /\ t = Tail(q))
    BY <1>1
  <1>8. Credit(i, a, a, q, t, o)
    BY <1>2, <1>3, <1>5, <1>6, <1>7, CreditSelf, Zenon
  <1>9. QED
    BY <1>1, <1>4, <1>8, CreditSame

\* A frame for a stream that is closed.
LEMMA FrameDropped ==
    ASSUME NEW q \in Seq(Frame), q # <<>>, NEW i, NEW a \in StreamRec(Frame), a.closed, a.out = <<>>
    PROVE  Credit(i, a, a, q, Tail(q), a.out)
  <1>1. Reads(i, a, a, q, Tail(q), a.out)
    BY Zenon DEF Reads
  <1>2. Knows(i, a, a, q, Tail(q))
    BY Zenon DEF Knows
  <1>3. Sends(i, a, a, a.out)
    <2>1. PayloadOf(a.out, i) = <<>> /\ Len(PayloadOf(a.out, i)) = 0
      BY PayloadEmpty
    <2>2. a.num_written = (a.num_written + Len(PayloadOf(a.out, i))) % Modulus
      BY <2>1, CreditType, NothingAdded
    <2>3. QED
      BY <2>1, <2>2, Zenon DEF Sends
  <1>4. QED
    BY <1>1, <1>2, <1>3, Zenon DEF Credit

LEMMA OnFinCredit ==
    ASSUME NEW i, NEW r \in StreamRec(FramesOf(i)), Sound(r)
    PROVE  SameCredit(r, OnFin(r))
  <1>1. PICK a, b, c : /\ a = [r EXCEPT !.remote_fin_received = TRUE]
                       /\ b = ShutdownTcpSendIfReady(a) /\ c = MaybeFinish(b)
    BY Zenon
  <1>2. a \in StreamRec(FramesOf(i)) /\ SameCredit(r, a)
    <2>1. a \in StreamRec(FramesOf(i))
      BY <1>1, Zenon DEF StreamRec
    <2>2. SameCredit(r, a)
      BY <1>1, Zenon DEF StreamRec, SameCredit, SameCounters
    <2>3. QED
      BY <2>1, <2>2
  <1>3. Sound(a)
    <2>1. Same(r, a) /\ a.reads = r.reads /\ a.tcp_write_active = r.tcp_write_active
      BY <1>1, Zenon DEF StreamRec, Same
    <2>2. QED
      BY <2>1, Zenon DEF Sound, Same
  <1>4. b \in StreamRec(FramesOf(i)) /\ SameCredit(a, b)
    BY <1>1, <1>2, <1>3, ShutdownKeeps, SocketCredit
  <1>5. SameCredit(b, c)
    BY <1>1, <1>4, SocketCredit
  <1>6. OnFin(r) = r \/ OnFin(r) = c
    BY <1>1 DEF OnFin
  <1>7. SameCredit(r, r) /\ SameCredit(r, c)
    BY <1>2, <1>4, <1>5, Zenon DEF SameCredit, SameCounters
  <1>8. QED
    BY <1>6, <1>7

\* A payload moves from the wire to pending_tcp_writes_.
LEMMA OnDataCredit ==
    ASSUME NEW q \in Seq(Frame), q # <<>>, Head(q).cmd = "psh",
           NEW a \in StreamRec(FramesOf(Head(q).id)), a.out = <<>>, Sound(a),
           NEW b, b = OnData(Head(q).id, a, Head(q).data)
    PROVE  Credit(Head(q).id, a, b, q, Tail(q), b.out)
  <1>1. PICK f, t, i, d : f = Head(q) /\ t = Tail(q) /\ i = f.id /\ d = f.data
    BY Zenon
  <1>2. f \in Frame /\ t \in Seq(Frame) /\ a \in StreamRec(Frame) /\ a \in StreamRec(FramesOf(i))
    BY <1>1, HeadTailProperties, StreamRecFrame
  <1>3. d \in Seq(Item) /\ Data(f, i) = d
    <2>1. f \in [cmd : {"psh"}, id : Ids, data : Seq(Item)]
      BY <1>1, <1>2 DEF Frame
    <2>2. QED
      BY <1>1, <2>1 DEF Data
  <1>4. PICK p : p = Append(a.pending_tcp_writes, d)
    BY Zenon
  <1>5. a.pending_tcp_writes \in Seq(Seq(Item))
    BY <1>2, CreditType
  <1>6. p \in Seq(Seq(Item)) /\ FlattenSeq(p) = FlattenSeq(a.pending_tcp_writes) \o d
    <2>1. p \in Seq(Seq(Item))
      BY <1>3, <1>4, <1>5, AppendProperties
    <2>2. QED
      BY <1>3, <1>4, <1>5, <2>1, FlattenAppend, Zenon
  <1>7. PICK c : c = [a EXCEPT !.pending_tcp_writes = p]
    BY Zenon
  <1>8. c \in StreamRec(FramesOf(i))
    BY <1>2, <1>6, <1>7, Zenon DEF StreamRec
  <1>9. /\ c.pending_tcp_writes = p /\ c.num_read = a.num_read /\ c.num_written = a.num_written
        /\ c.peer_consumed = a.peer_consumed /\ c.peer_window = a.peer_window
        /\ c.closed = a.closed /\ c.out = <<>>
    BY <1>2, <1>7, Zenon DEF StreamRec
  <1>10. b = FlushTcpWrites(c)
    BY <1>1, <1>4, <1>7 DEF OnData
  <1>11. SameCredit(c, b)
    BY <1>8, <1>10, SocketCredit
  <1>12. /\ b.pending_tcp_writes = p /\ b.num_read = a.num_read /\ b.num_written = a.num_written
         /\ b.peer_consumed = a.peer_consumed /\ b.peer_window = a.peer_window
         /\ b.closed = a.closed /\ b.out = <<>>
    BY <1>9, <1>11, Zenon DEF SameCredit, SameCounters
  <1>13. Load(i, a, q) = 0 + Load(i, b, t)
    <2>1. PICK g, h : g = FlattenSeq(a.pending_tcp_writes) /\ h = PayloadOf(t, i)
      OBVIOUS
    <2>2. g \in Seq(Item) /\ h \in Seq(Item)
      BY <1>2, <1>5, <2>1, FlattenType, PayloadType
    <2>3. PayloadOf(q, i) = d \o h
      BY <1>1, <1>3, <2>1, HeadPayload, Zenon
    <2>4. Len(d \o h) = Len(d) + Len(h) /\ Len(g \o d) = Len(g) + Len(d)
      BY <1>3, <2>2, ConcatProperties
    <2>5. Load(i, a, q) = Len(g) + Len(d \o h) /\ Load(i, b, t) = Len(g \o d) + Len(h)
      BY <1>6, <1>12, <2>1, <2>3, Zenon DEF Load, TotalLen
    <2>6. Len(g) \in Nat /\ Len(d) \in Nat /\ Len(h) \in Nat
      BY <1>3, <2>2, LenProperties
    <2>7. QED
      BY <2>4, <2>5, <2>6
  <1>14. \A k \in 1..Len(b.out) : FALSE
    BY <1>12
  <1>15. Reads(i, a, b, q, t, b.out)
    <2>1. b.num_read = (a.num_read + 0) % Modulus
      BY <1>2, <1>12, CreditType, NothingAdded
    <2>2. 0 \in Nat
      OBVIOUS
    <2>3. QED
      BY <1>13, <1>14, <2>1, <2>2, Zenon DEF Reads
  <1>16. Knows(i, a, b, q, t)
    BY <1>1, <1>12, Zenon DEF Knows
  <1>17. Sends(i, a, b, b.out)
    <2>1. PayloadOf(b.out, i) = <<>> /\ Len(PayloadOf(b.out, i)) = 0
      BY <1>12, PayloadEmpty
    <2>2. b.num_written = (a.num_written + Len(PayloadOf(b.out, i))) % Modulus
      BY <1>2, <1>12, <2>1, CreditType, NothingAdded
    <2>3. QED
      BY <2>1, <2>2, Zenon DEF Sends
  <1>18. Credit(i, a, b, q, t, b.out)
    BY <1>12, <1>15, <1>16, <1>17, Zenon DEF Credit
  <1>19. QED
    BY <1>1, <1>18

\* An UPD is taken at its word, and what it allows is sent.
LEMMA OnUpdateCredit ==
    ASSUME NEW s, Version[s] = 2, NEW q \in Seq(Frame), q # <<>>, Head(q).cmd = "upd",
           NEW a \in StreamRec(FramesOf(Head(q).id)), a.out = <<>>, ~a.closed, Sound(a),
           NEW b, b = OnUpdate(s, Head(q).id, a, Head(q).consumed, Head(q).window)
    PROVE  Credit(Head(q).id, a, b, q, Tail(q), b.out)
  <1>1. PICK f, t, i : f = Head(q) /\ t = Tail(q) /\ i = f.id
    BY Zenon
  <1>2. f \in Frame /\ t \in Seq(Frame) /\ a \in StreamRec(Frame) /\ a \in StreamRec(FramesOf(i)) /\ i \in Ids
    <2>1. f \in Frame /\ t \in Seq(Frame)
      BY <1>1, HeadTailProperties
    <2>2. i \in Ids
      BY <1>1, <2>1 DEF Frame
    <2>3. QED
      BY <1>1, <2>1, <2>2, StreamRecFrame
  <1>3. PICK c \in Counter, w \in Counter : c = f.consumed /\ w = f.window
    BY <1>1, <1>2 DEF Frame
  <1>4. PICK r, g, h : /\ r = [a EXCEPT !.peer_consumed = c, !.peer_window = w]
                       /\ g = TryFlushOutbound(s, i, r) /\ h = StartTcpRead(g)
    OBVIOUS
  <1>5. r \in StreamRec(FramesOf(i))
    BY <1>2, <1>4, Zenon DEF StreamRec
  <1>6. /\ r.pending_tcp_writes = a.pending_tcp_writes /\ r.num_read = a.num_read
        /\ r.num_written = a.num_written /\ r.peer_consumed = c /\ r.peer_window = w
        /\ r.closed = a.closed /\ r.out = <<>>
    BY <1>2, <1>4, Zenon DEF StreamRec
  <1>7. Sound(r)
    <2>1. Same(a, r) /\ r.reads = a.reads /\ r.tcp_write_active = a.tcp_write_active
      BY <1>2, <1>4, Zenon DEF StreamRec, Same
    <2>2. QED
      BY <2>1, Zenon DEF Sound, Same
  <1>8. g \in StreamRec(FramesOf(i)) /\ Sound(g) /\ Trades(s, i, r, g)
    BY <1>2, <1>4, <1>5, <1>6, <1>7, TryFlushKeeps, FlushTrades, Zenon
  <1>9. h \in StreamRec(FramesOf(i)) /\ Trades(s, i, r, h)
    <2>1. h \in StreamRec(FramesOf(i)) /\ SameCredit(g, h)
      BY <1>4, <1>8, StartTcpReadKeeps, SocketCredit
    <2>2. QED
      BY <1>8, <2>1, TradesThenSame
  <1>10. b = g \/ b = h
    BY <1>1, <1>3, <1>4, Zenon DEF OnUpdate
  <1>11. b \in StreamRec(Frame) /\ Trades(s, i, r, b)
    BY <1>8, <1>9, <1>10, StreamRecFrame
  <1>12. r \in StreamRec(Frame)
    BY <1>5, StreamRecFrame
  <1>13. Credit(i, r, b, t, t, b.out)
    BY <1>2, <1>11, <1>12, TradesCredit
  <1>14. Load(i, a, q) = Load(i, r, t)
    <2>1. Data(f, i) = <<>>
      <3>1. f.cmd # "psh"
        BY <1>1
      <3>2. QED
        BY <3>1, Zenon DEF Data
    <2>2. PayloadOf(q, i) = <<>> \o PayloadOf(t, i)
      BY <1>1, <2>1, HeadPayload, Zenon
    <2>3. PayloadOf(t, i) \in Seq(Item)
      BY <1>2, PayloadType
    <2>4. PayloadOf(q, i) = PayloadOf(t, i)
      BY <2>2, <2>3, ConcatEmptySeq
    <2>5. QED
      BY <1>6, <2>4 DEF Load
  <1>15. Reads(i, a, b, q, t, b.out)
    <2>1. Reads(i, r, b, t, t, b.out)
      BY <1>13, Zenon DEF Credit
    <2>2. QED
      BY <1>6, <1>14, <2>1, Zenon DEF Reads
  <1>16. Knows(i, a, b, q, t)
    <2>1. b.peer_consumed = r.peer_consumed /\ b.peer_window = r.peer_window
      BY <1>11, Zenon DEF Trades
    <2>2. IsUpd(f, i)
      BY <1>1 DEF IsUpd
    <2>3. QED
      BY <1>1, <1>3, <1>6, <2>1, <2>2, Zenon DEF Knows
  <1>17. Sends(i, a, b, b.out)
    <2>1. Sends(i, r, b, b.out)
      BY <1>13, Zenon DEF Credit
    <2>2. QED
      BY <1>6, <2>1, Zenon DEF Sends
  <1>18. Credit(i, a, b, q, t, b.out)
    BY <1>15, <1>16, <1>17, Zenon DEF Credit
  <1>19. QED
    BY <1>1, <1>18

\* What SessionClose leaves of side s and of what was under way.
LEMMA CloseEffect ==
    ASSUME Types, NEW s \in Side, SessionClose(s)
    PROVE  /\ \A i \in Ids : /\ Ended(stream[s][i], stream'[s][i])
                             /\ stream'[s][i].pending_tcp_writes = stream[s][i].pending_tcp_writes
           /\ stream'[Peer(s)] = stream[Peer(s)]
           /\ net'[s] = <<>>
           /\ \E k \in 0..Len(net[Peer(s)]) : net'[Peer(s)] = SubSeq(net[Peer(s)], 1, k)
           /\ session'[s].closed
  <1>1. PICK p : p = Peer(s)
    OBVIOUS
  <1>2. p \in Side /\ p # s
    BY <1>1, Sides
  <1>3. PICK k \in 0..Len(net[p]) : net' = [net EXCEPT ![s] = <<>>, ![p] = SubSeq(@, 1, k)]
    BY <1>1, Zenon DEF SessionClose
  <1>4. net'[s] = <<>> /\ net'[p] = SubSeq(net[p], 1, k)
    BY <1>2, <1>3, Zenon DEF Types
  <1>5. PICK g : g = [i \in Ids |-> IF stream[s][i].created THEN Cleared(Close(i, stream[s][i]))
                                    ELSE stream[s][i]]
    BY Zenon
  <1>6. stream' = [stream EXCEPT ![s] = g]
    BY <1>5, Zenon DEF SessionClose, Cleared
  <1>7. stream'[s] = g /\ stream'[p] = stream[p]
    BY <1>2, <1>6 DEF Types
  <1>8. ASSUME NEW i \in Ids
        PROVE  Ended(stream[s][i], g[i]) /\ g[i].pending_tcp_writes = stream[s][i].pending_tcp_writes
    <2>1. g[i] = IF stream[s][i].created THEN Cleared(Close(i, stream[s][i])) ELSE stream[s][i]
      BY <1>5
    <2>2. Ended(stream[s][i], g[i])
      BY <2>1, CloseEnds
    <2>3. PICK a, b : a = stream[s][i] /\ b = Close(i, a)
      OBVIOUS
    <2>4. a \in StreamRec(FramesOf(i)) /\ Sound(a)
      BY <2>3, StreamHere
    <2>5. b \in StreamRec(FramesOf(i)) /\ b.pending_tcp_writes = a.pending_tcp_writes
      BY <2>3, <2>4, CloseKeeps DEF Moves
    <2>6. Cleared(b).pending_tcp_writes = a.pending_tcp_writes
      BY <2>5, ClearedCredit
    <2>7. g[i] = Cleared(b) \/ g[i] = a
      BY <2>1, <2>3
    <2>8. QED
      BY <2>2, <2>3, <2>6, <2>7
  <1>9. session'[s].closed
    BY DEF SessionClose, Types
  <1>10. QED
    BY <1>1, <1>4, <1>7, <1>8, <1>9

LEMMA CloseWindow ==
    ASSUME SmuxInv, WindowInv, UNCHANGED config, NEW s \in Side, SessionClose(s)
    PROVE  WindowInv'
  <1>1. Types
    BY DEF SmuxInv
  <1>2. PICK p : p = Peer(s)
    OBVIOUS
  <1>3. p \in Side /\ p # s /\ Peer(p) = s /\ \A t \in Side : t = s \/ t = p
    BY <1>2, Sides
  <1>4. /\ \A i \in Ids : /\ Ended(stream[s][i], stream'[s][i])
                          /\ stream'[s][i].pending_tcp_writes = stream[s][i].pending_tcp_writes
        /\ stream'[p] = stream[p]
        /\ net'[s] = <<>>
        /\ session'[s].closed
    BY <1>1, <1>2, CloseEffect
  <1>5. PICK k \in 0..Len(net[p]) : net'[p] = SubSeq(net[p], 1, k)
    BY <1>1, <1>2, CloseEffect
  <1>6. ~Open'
    BY <1>4 DEF Open, Side
  <1>7. AllWindowed => AllWindowed'
    <2>1. SUFFICES ASSUME AllWindowed, NEW i \in Ids
                   PROVE  /\ ~stream'[s][i].closed => Load(i, stream'[s][i], net'[s]) <= Granted
                          /\ ~stream'[p][i].closed => Load(i, stream'[p][i], net'[p]) <= Granted
      <3>1. ASSUME AllWindowed,
                   \A t \in Side, j \in Ids : ~stream'[t][j].closed => Load(j, stream'[t][j], net'[t]) <= Granted
            PROVE  AllWindowed'
        BY <1>6, <3>1, Zenon DEF AllWindowed, Windowed
      <3>2. QED
        BY <1>3, <2>1, <3>1, Zenon
    <2>2. ASSUME ~stream'[s][i].closed PROVE Load(i, stream'[s][i], net'[s]) <= Granted
      <3>1. ~stream'[s][i].created /\ stream'[s][i] = NoStream
        BY <1>4, <2>2, Zenon DEF Ended
      <3>2. stream'[s][i].pending_tcp_writes = <<>> /\ PayloadOf(net'[s], i) = <<>>
        BY <1>4, <3>1, NoStreamIdle, PayloadEmpty
      <3>3. TotalLen(<<>>) = 0
        BY FlattenEmpty DEF TotalLen
      <3>4. Load(i, stream'[s][i], net'[s]) = 0
        BY <3>2, <3>3 DEF Load
      <3>5. QED
        BY <3>4, GrantedFacts
    <2>3. ASSUME ~stream'[p][i].closed PROVE Load(i, stream'[p][i], net'[p]) <= Granted
      <3>1. PICK a, v, u : a = stream[p][i] /\ v = net[p] /\ u = SubSeq(v, 1, k)
        BY Zenon
      <3>2. v \in Seq(Frame) /\ a \in StreamRec(Frame) /\ k \in 0..Len(v)
        BY <1>1, <1>3, <3>1 DEF Types
      <3>3. ~a.closed /\ stream'[p][i] = a /\ net'[p] = u
        BY <1>4, <1>5, <2>3, <3>1
      <3>4. Load(i, a, v) <= Granted
        BY <1>3, <2>1, <3>1, <3>3, Zenon DEF AllWindowed, Windowed
      <3>5. PICK z \in Seq(Item) : PayloadOf(u, i) \in Seq(Item) /\ PayloadOf(v, i) = PayloadOf(u, i) \o z
        BY <3>1, <3>2, PayloadPrefix, ZenonT(40)
      <3>6. Len(PayloadOf(u, i)) <= Len(PayloadOf(v, i))
        <4>1. PICK x \in Seq(Item) : x = PayloadOf(u, i)
          BY <3>5
        <4>2. Len(x \o z) = Len(x) + Len(z) /\ Len(x) \in Nat /\ Len(z) \in Nat
          BY ConcatProperties, LenProperties
        <4>3. QED
          BY <3>5, <4>1, <4>2
      <3>7. u \in Seq(Frame)
        BY <3>1, <3>2, Halves
      <3>8. /\ TotalLen(a.pending_tcp_writes) \in Nat
            /\ Len(PayloadOf(u, i)) \in Nat /\ Len(PayloadOf(v, i)) \in Nat
        BY <3>2, <3>7, LoadType, Zenon
      <3>9. Load(i, a, u) <= Load(i, a, v)
        BY <3>6, <3>8 DEF Load
      <3>10. Load(i, a, u) \in Nat /\ Load(i, a, v) \in Nat /\ Granted \in Nat
        BY <3>2, <3>7, LoadType, GrantedFacts
      <3>11. QED
        BY <3>3, <3>4, <3>9, <3>10
    <2>4. QED
      BY <2>2, <2>3
  <1>8. Refused => Refused'
    <2>1. HAVE Refused
    <2>2. "client" \in Side /\ "server" \in Side
      BY DEF Side
    <2>3. \A i \in Ids : ~stream'["server"][i].created
      <3>1. \A i \in Ids : stream'[s][i].created = stream[s][i].created
        BY <1>4, Zenon DEF Ended
      <3>2. QED
        BY <1>3, <1>4, <2>1, <2>2, <3>1, Zenon DEF Refused
    <2>4. \A i \in Ids : stream'["client"][i].pending_tcp_writes = <<>>
      BY <1>3, <1>4, <2>1, <2>2, Zenon DEF Refused
    <2>5. net'["client"] = <<>>
      <3>1. CASE s = "client"
        BY <1>4, <3>1
      <3>2. CASE p = "client"
        <4>1. net[p] = <<>> /\ k = 0
          <5>1. net[p] = <<>>
            BY <2>1, <3>2 DEF Refused
          <5>2. QED
            BY <5>1
        <4>2. SubSeq(net[p], 1, 0) = <<>>
          BY <4>1, SubSeqEmpty
        <4>3. QED
          BY <1>5, <3>2, <4>1, <4>2, Zenon
      <3>3. QED
        BY <1>3, <2>2, <3>1, <3>2
    <2>6. QED
      BY <2>3, <2>4, <2>5, Zenon DEF Refused
  <1>9. \A t : Version'[t] = Version[t]
    BY SameVersions
  <1>10. QED
    BY <1>7, <1>8, <1>9, Zenon DEF WindowInv

LEMMA ReceiveFrameWindow ==
    ASSUME SmuxInv, WindowInv, UNCHANGED config, NEW s \in Side, ReceiveFrame(s)
    PROVE  WindowInv'
  <1>1. Types /\ Order
    BY DEF SmuxInv
  <1>2. PICK q, f, r, phase : /\ q = net[s] /\ f = Head(q) /\ r = stream[s][f.id]
                              /\ phase = IF config.unixSockets THEN "connect" ELSE "resolve"
    OBVIOUS
  <1>3. q # <<>>
    BY <1>2, Zenon DEF ReceiveFrame
  <1>4. q \in Seq(Frame) /\ f \in Frame /\ f.id \in Ids
    <2>1. q \in Seq(Frame)
      BY <1>1, <1>2 DEF Types
    <2>2. f \in Frame
      BY <1>2, <1>3, <2>1, HeadTailProperties
    <2>3. QED
      BY <2>1, <2>2 DEF Frame
  <1>5. /\ r \in StreamRec(FramesOf(f.id)) /\ r \in StreamRec(Frame) /\ r.out = <<>> /\ Sound(r)
        /\ ~r.created => r = NoStream
    BY <1>1, <1>2, <1>4, StreamHere
  <1>6. r.created <=> f.cmd # "syn"
    BY <1>1, <1>2, <1>3, SynOfNew
  <1>7. InStreams(s, f.id) <=> r.created /\ ~r.closed
    BY <1>2 DEF InStreams
  <1>8. CASE SessionClose(s)
    BY <1>8, CloseWindow
  <1>9. ASSUME NEW b, UNCHANGED session, VersionAccepted(s),
               stream' = [stream EXCEPT ![s][f.id] = [b EXCEPT !.out = <<>>]],
               net' = [net EXCEPT ![s] = Tail(@), ![Peer(s)] = Transmitted(s, @, b.out)],
               \/ f.cmd = "syn" /\ b = IF InStreams(s, f.id) THEN r ELSE NewStream(phase)
               \/ f.cmd # "syn" /\ ~InStreams(s, f.id) /\ b = r
               \/ f.cmd = "fin" /\ InStreams(s, f.id) /\ b = OnFin(r)
               \/ f.cmd = "psh" /\ InStreams(s, f.id) /\ b = OnData(f.id, r, f.data)
               \/ f.cmd = "upd" /\ InStreams(s, f.id) /\ b = OnUpdate(s, f.id, r, f.consumed, f.window)
        PROVE  WindowInv'
    <2>1. ASSUME b \in StreamRec(FramesOf(f.id)), Version[s] = 2 => Credit(f.id, r, b, q, Tail(q), b.out)
          PROVE  WindowInv'
      BY <1>2, <1>3, <1>9, <2>1, AfterWindow, Zenon
    <2>2. CASE f.cmd = "syn" /\ b = IF InStreams(s, f.id) THEN r ELSE NewStream(phase)
      <3>1. r = NoStream /\ b = NewStream(phase)
        BY <1>5, <1>6, <1>7, <2>2
      <3>2. phase \in {"idle", "resolve", "connect"}
        BY <1>2
      <3>3. b \in StreamRec(FramesOf(f.id))
        BY <3>1, <3>2, NewStreamFresh
      <3>4. SameCounters(r, b) /\ ~r.closed /\ b.out = <<>>
        BY <3>1, NewStreamCredit
      <3>5. Credit(f.id, r, b, q, Tail(q), b.out)
        BY <1>2, <1>3, <1>4, <1>5, <2>2, <3>4, FrameIgnored, Zenon
      <3>6. QED
        BY <2>1, <3>3, <3>5
    <2>3. CASE f.cmd # "syn" /\ ~InStreams(s, f.id) /\ b = r
      <3>1. r.closed
        BY <1>6, <1>7, <2>3
      <3>2. Credit(f.id, r, r, q, Tail(q), r.out)
        BY <1>3, <1>4, <1>5, <3>1, FrameDropped
      <3>3. QED
        BY <1>5, <2>1, <2>3, <3>2
    <2>4. CASE f.cmd = "fin" /\ InStreams(s, f.id) /\ b = OnFin(r)
      <3>1. b \in StreamRec(FramesOf(f.id)) /\ SameCredit(r, b)
        BY <1>5, <2>4, OnFinKeeps, OnFinCredit
      <3>2. SameCounters(r, b) /\ (r.closed => b.closed) /\ b.out = <<>>
        BY <1>5, <3>1, Zenon DEF SameCredit
      <3>3. Credit(f.id, r, b, q, Tail(q), b.out)
        BY <1>2, <1>3, <1>4, <1>5, <2>4, <3>2, FrameIgnored, Zenon
      <3>4. QED
        BY <2>1, <3>1, <3>3
    <2>5. CASE f.cmd = "psh" /\ InStreams(s, f.id) /\ b = OnData(f.id, r, f.data)
      <3>1. f.data \in Seq(Item)
        BY <1>4, <2>5 DEF Frame
      <3>2. b \in StreamRec(FramesOf(f.id))
        BY <1>5, <2>5, <3>1, OnDataKeeps
      <3>3. Credit(f.id, r, b, q, Tail(q), b.out)
        BY <1>2, <1>3, <1>4, <1>5, <2>5, OnDataCredit
      <3>4. QED
        BY <2>1, <3>2, <3>3
    <2>6. CASE f.cmd = "upd" /\ InStreams(s, f.id) /\ b = OnUpdate(s, f.id, r, f.consumed, f.window)
      <3>1. f.consumed \in Counter /\ f.window \in Counter
        BY <1>4, <2>6 DEF Frame
      <3>2. b \in StreamRec(FramesOf(f.id))
        BY <1>4, <1>5, <2>6, <3>1, OnUpdateKeeps
      <3>3. Version[s] = 2 => Credit(f.id, r, b, q, Tail(q), b.out)
        BY <1>2, <1>3, <1>4, <1>5, <1>7, <2>6, OnUpdateCredit
      <3>4. QED
        BY <2>1, <3>2, <3>3
    <2>7. QED
      BY <1>9, <2>2, <2>3, <2>4, <2>5, <2>6
  <1>10. QED
    BY <1>2, <1>8, <1>9, Zenon DEF ReceiveFrame

\* A completed read counts nothing.
LEMMA ReceiveWindow ==
    ASSUME SmuxInv, WindowInv, UNCHANGED config, NEW s \in Side, NEW i \in Ids, Receive(s, i)
    PROVE  WindowInv'
  <1>1. Types
    BY DEF SmuxInv
  <1>2. PICK a : a = stream[s][i]
    OBVIOUS
  <1>3. a \in StreamRec(Frame) /\ stream \in [Side -> [Ids -> StreamRec(Frame)]]
    BY <1>1, <1>2 DEF Types
  <1>4. UNCHANGED <<session, net>>
    BY DEF Receive
  <1>5. \E x, y, z : stream' = [stream EXCEPT ![s][i] =
                        [a EXCEPT !.reads = x, !.done = y, !.tcp_read_buffer = z]]
    <2>1. PICK e, n, buf, data :
              /\ e = app[s][i] /\ n = Min({ReadBuf, app[s][i].sent - app[s][i].taken})
              /\ buf = a.tcp_read_buffer
              /\ data = AppBytes(i, e.taken, e.taken + n) \o SubSeq(buf, n + 1, Len(buf))
      BY Zenon
    <2>2. \/ stream' = [stream EXCEPT ![s][i] =
                [a EXCEPT !.reads = @ - 1, !.done = Append(@, n), !.tcp_read_buffer = data]]
          \/ \E result \in {EndOfStream, ReadFailed} :
                stream' = [stream EXCEPT ![s][i] =
                   [a EXCEPT !.reads = @ - 1, !.done = Append(@, result), !.tcp_read_buffer = buf]]
      BY <1>2, <2>1, Zenon DEF Receive
    <2>3. \E v, z : stream' = [stream EXCEPT ![s][i] =
                        [a EXCEPT !.reads = @ - 1, !.done = Append(@, v), !.tcp_read_buffer = z]]
      BY <2>2, Zenon
    <2>4. PICK v, z : stream' = [stream EXCEPT ![s][i] =
                        [a EXCEPT !.reads = @ - 1, !.done = Append(@, v), !.tcp_read_buffer = z]]
      BY <2>3, Zenon
    <2>5. stream' = [stream EXCEPT ![s][i] =
                        [a EXCEPT !.reads = a.reads - 1, !.done = Append(a.done, v),
                                  !.tcp_read_buffer = z]]
      BY <1>3, <2>4
    <2>6. QED
      BY <2>5, Zenon
  <1>6. PICK x, y, z : stream' = [stream EXCEPT ![s][i] =
                          [a EXCEPT !.reads = x, !.done = y, !.tcp_read_buffer = z]]
    BY <1>5, Zenon
  <1>7. PICK b : b = [a EXCEPT !.reads = x, !.done = y, !.tcp_read_buffer = z]
    OBVIOUS
  <1>8. SameCounters(a, b) /\ b.closed = a.closed /\ b.created = a.created
    BY <1>3, <1>7, Zenon DEF StreamRec, SameCounters
  <1>9. /\ stream'[s][i] = b
        /\ \A t \in Side, j \in Ids : t # s \/ j # i => stream'[t][j] = stream[t][j]
    BY <1>3, <1>6, <1>7
  <1>10. \A r : SameCounters(r, r)
    BY Zenon DEF SameCounters
  <1>11. \A t \in Side, j \in Ids :
            /\ SameCounters(stream[t][j], stream'[t][j])
            /\ stream'[t][j].closed = stream[t][j].closed
            /\ stream'[t][j].created = stream[t][j].created
    BY <1>2, <1>8, <1>9, <1>10, Zenon
  <1>12. KeepsSessions
    BY <1>4 DEF KeepsSessions
  <1>13. QED
    BY <1>4, <1>11, <1>12, QuietWindow

LEMMA WindowInit == Init => WindowInv
  <1>1. SUFFICES ASSUME Init PROVE WindowInv
    OBVIOUS
  <1>2. /\ \A s \in Side, i \in Ids : stream[s][i] = NoStream
        /\ \A s \in Side : net[s] = <<>>
    BY <1>1 DEF Init
  <1>3. /\ ~NoStream.created /\ ~NoStream.closed /\ NoStream.pending_tcp_writes = <<>>
        /\ NoStream.num_read = 0 /\ NoStream.num_written = 0
        /\ NoStream.peer_consumed = 0 /\ NoStream.peer_window = InitWindow
    BY DEF NoStream
  <1>4. Refused
    BY <1>2, <1>3 DEF Refused, Side
  <1>5. ASSUME NEW i \in Ids, NEW open
        PROVE  Windowed(i, NoStream, NoStream, <<>>, <<>>, open)
    <2>1. TotalLen(<<>>) = 0 /\ PayloadOf(<<>>, i) = <<>>
      BY FlattenEmpty, PayloadEmpty DEF TotalLen
    <2>2. Load(i, NoStream, <<>>) = 0
      BY <1>3, <2>1 DEF Load
    <2>3. Granted \in Nat /\ InitWindow <= Granted /\ 0 \in Counter
      BY GrantedFacts, ModulusFacts
    <2>4. Behind(0, 0) = 0 /\ (0 + 0) % Modulus = 0
      <3>1. Behind(0, 0) = IF 0 <= 0 THEN 0 - 0 ELSE 0 - 0 + Modulus
        BY <2>3, BehindCases
      <3>2. QED
        BY <2>3, <3>1, NothingAdded
    <2>5. Credits(i, 0, 0, <<>>)
      BY DEF Credits
    <2>6. QED
      BY <1>3, <2>2, <2>3, <2>4, <2>5 DEF Windowed
  <1>6. AllWindowed
    <2>1. SUFFICES ASSUME NEW s \in Side, NEW i \in Ids
                   PROVE  Windowed(i, stream[s][i], stream[Peer(s)][i], net[s], net[Peer(s)], Open)
      BY Zenon DEF AllWindowed
    <2>2. /\ stream[s][i] = NoStream /\ stream[Peer(s)][i] = NoStream
          /\ net[s] = <<>> /\ net[Peer(s)] = <<>>
      BY <1>2, Sides
    <2>3. QED
      BY <1>5, <2>2
  <1>7. QED
    BY <1>4, <1>6 DEF WindowInv

LEMMA WindowNext == SmuxInv /\ WindowInv /\ [Next]_vars => WindowInv'
  <1>1. SUFFICES ASSUME SmuxInv, WindowInv, [Next]_vars PROVE WindowInv'
    OBVIOUS
  <1>2. Types
    BY <1>1 DEF SmuxInv
  <1>3. ASSUME UNCHANGED <<config, session, stream, net>> PROVE WindowInv'
    <2>1. KeepsSessions
      BY <1>3 DEF KeepsSessions
    <2>2. \A t \in Side, j \in Ids :
              /\ SameCounters(stream[t][j], stream'[t][j])
              /\ stream'[t][j].closed = stream[t][j].closed
              /\ stream'[t][j].created = stream[t][j].created
      BY <1>3 DEF SameCounters
    <2>3. QED
      BY <1>1, <1>3, <2>1, <2>2, QuietWindow
  <1>4. CASE UNCHANGED vars
    BY <1>3, <1>4 DEF vars
  <1>5. ASSUME EnvironmentStep PROVE WindowInv'
    <2>1. UNCHANGED config
      BY <1>5 DEF EnvironmentStep
    <2>2. CASE HandleAccept
      BY <1>1, <2>1, <2>2, AcceptWindow
    <2>3. CASE \/ \E s \in Side, i \in Ids : AppSend(s, i) \/ AppEof(s, i) \/ AppReset(s, i)
               \/ LinkDown
      <3>1. UNCHANGED <<session, stream, net>>
        BY <2>3 DEF AppSend, AppEof, AppReset, LinkDown
      <3>2. QED
        BY <1>3, <2>1, <3>1
    <2>4. CASE Scavenge
      <3>1. SessionClose("client") /\ "client" \in Side
        BY <2>4 DEF Scavenge, Side
      <3>2. QED
        BY <1>1, <2>1, <3>1, CloseWindow
    <2>5. QED
      BY <1>5, <2>2, <2>3, <2>4, Zenon DEF EnvironmentStep
  <1>6. ASSUME NEW s \in Side, ProcessStep(s) PROVE WindowInv'
    <2>1. UNCHANGED config
      BY <1>6 DEF ProcessStep
    <2>2. CASE ReceiveFrame(s)
      BY <1>1, <2>1, <2>2, ReceiveFrameWindow
    <2>3. CASE KeepaliveTimeout(s)
      <3>1. SessionClose(s)
        BY <2>3 DEF KeepaliveTimeout
      <3>2. QED
        BY <1>1, <2>1, <3>1, CloseWindow
    <2>4. ASSUME NEW i \in Ids, Receive(s, i) PROVE WindowInv'
      BY <1>1, <2>1, <2>4, ReceiveWindow
    <2>5. ASSUME NEW i \in Ids,
                 \/ ReadHandler(s, i) \/ WriteHandler(s, i) \/ CloseTimer(s, i)
                 \/ s = "server" /\ ResolveDone(i)
          PROVE  WindowInv'
      <3>1. \E b : Pays(s, i, b)
        BY <1>2, <2>5, ReadHandlerPays, WriteHandlerPays, CloseTimerPays, ResolveDonePays, Zenon
      <3>2. session' = session
        BY <2>5 DEF ReadHandler, WriteHandler, CloseTimer, ResolveDone
      <3>3. QED
        BY <1>1, <2>1, <3>1, <3>2, PaysWindow
    <2>6. ASSUME NEW i \in Ids, ConnectDone(i) PROVE WindowInv'
      <3>1. UNCHANGED <<stream, net>> \/ \E b : Pays("server", i, b)
        BY <1>2, <2>6, ConnectDonePays, Zenon
      <3>2. session' = session /\ "server" \in Side
        BY <2>6 DEF ConnectDone, Side
      <3>3. QED
        BY <1>1, <1>3, <2>1, <3>1, <3>2, PaysWindow
    <2>7. QED
      BY <1>6, <2>2, <2>3, <2>4, <2>5, <2>6, Zenon DEF ProcessStep
  <1>7. QED
    BY <1>1, <1>4, <1>5, <1>6, Zenon DEF Next

LEMMA WindowInvRespected == SmuxInv /\ WindowInv => WindowRespected
  <1>1. SUFFICES ASSUME SmuxInv, WindowInv, NEW s \in Side, NEW i \in Ids, Version[s] = 2, InStreams(s, i)
                 PROVE  TotalLen(stream[s][i].pending_tcp_writes) + Len(OnWire(s, i)) <= Granted
    BY Zenon DEF WindowRespected, Granted
  <1>2. PICK to, w : to = stream[s][i] /\ w = net[s]
    OBVIOUS
  <1>3. to.created /\ ~to.closed /\ Load(i, to, w) = TotalLen(to.pending_tcp_writes) + Len(OnWire(s, i))
    BY <1>1, <1>2, WirePayload DEF InStreams, Load
  <1>4. CASE Version["client"] = Version["server"]
    <2>1. \A t \in Side : Version[t] = 2
      BY <1>1, <1>4 DEF Side
    <2>2. AllWindowed
      BY <1>1, <2>1, Zenon DEF WindowInv
    <2>3. Load(i, to, w) <= Granted
      BY <1>2, <1>3, <2>2, Zenon DEF AllWindowed, Windowed
    <2>4. QED
      BY <1>2, <1>3, <2>3
  <1>5. CASE Version["client"] # Version["server"]
    <2>1. Refused
      BY <1>1, <1>5, Zenon DEF WindowInv
    <2>2. s = "client"
      BY <1>2, <1>3, <2>1 DEF Refused, Side
    <2>3. to.pending_tcp_writes = <<>> /\ w = <<>>
      BY <1>2, <2>1, <2>2 DEF Refused
    <2>4. TotalLen(<<>>) = 0 /\ PayloadOf(<<>>, i) = <<>>
      BY FlattenEmpty, PayloadEmpty DEF TotalLen
    <2>5. Load(i, to, w) = 0
      BY <2>3, <2>4 DEF Load
    <2>6. QED
      BY <1>2, <1>3, <2>5, GrantedFacts
  <1>6. QED
    BY <1>4, <1>5

(* smux v2: on_update, try_flush_outbound and mark_payload_consumed keep    *)
(* what a receiver holds of one stream, and what is on its way there,       *)
(* within the window that was granted, across the wrap of the counters.     *)
THEOREM SmuxWindow == Spec => []WindowRespected
  <1>1. SmuxInv /\ WindowInv /\ [Next]_vars => WindowInv'
    BY WindowNext
  <1>2. QED
    BY <1>1, WindowInit, WindowInvRespected, SmuxInvariant, PTL DEF Spec
=============================================================================
