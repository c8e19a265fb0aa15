--------------------------- MODULE RegistryProofs ---------------------------
(***************************************************************************)
(* The registry under calls, returns and errors, for all sizes and         *)
(* functions: it never stores outside of its array, everything below top   *)
(* has a value, and every function finds the values LuaCalls promises.     *)
(***************************************************************************)
EXTENDS Registry, Integers, SequenceTheorems, WellFoundedInduction, TLAPS

\* The first n elements of a sequence.
LEMMA PrefixProperties ==
  ASSUME NEW S, NEW s \in Seq(S), NEW n \in 0 .. Len(s)
  PROVE  /\ SubSeq(s, 1, n) \in Seq(S)
         /\ Len(SubSeq(s, 1, n)) = n
         /\ \A i \in 1 .. n : SubSeq(s, 1, n)[i] = s[i]
<1>1. Len(s) \in Nat /\ n \in Nat /\ \A i \in 1 .. n : s[i] \in S
  BY LenProperties, ElementOfSeq
<1> QED
  BY <1>1, SubSeqProperties

\* Every set of natural numbers has a least element.
LEMMA SmallestExists ==
  ASSUME NEW T, T \subseteq Nat, T # {}
  PROVE  \E x \in T : \A y \in T : x <= y
<1> DEFINE R == OpToRel(<, Nat)
<1>1. IsWellFoundedOn(R, Nat)
  BY NatLessThanWellFounded
<1>2. \A x, y \in Nat : x < y => <<x, y>> \in R
  BY DEF OpToRel
<1> HIDE DEF R
<1>3. PICK x \in T : \A y \in T : ~ (<<y, x>> \in R)
  BY ONLY <1>1, T \subseteq Nat, T # {}, WFMin, ZenonT(60)
<1>4. \A y \in T : ~ (y < x)
  BY <1>2, <1>3, Zenon
<1> QED
  BY <1>4

-----------------------------------------------------------------------------
(* The operations of the registry.  Each lemma says what an operation      *)
(* leaves below the new top unless it overflows.                           *)

Registries ==
    [array : UNION {[0..n - 1 -> Stores] : n \in Nat}, size : Nat, top : Nat, overflow : BOOLEAN]

Sound(r) ==
    /\ r \in Registries /\ r.array \in [0..r.size - 1 -> Stores] /\ r.top <= r.size
    /\ \A i \in 0..r.top - 1 : r.array[i] # Empty

\* What every operation makes of r: it neither shrinks nor forgets an overflow.
Grows(r, s) == Sound(s) /\ r.size <= s.size /\ (r.overflow => s.overflow)

LEMMA LuaValuesStored ==
  LuaValues \subseteq Stores /\ Empty \notin LuaValues /\ LNil \in LuaValues
BY NilAssumption, GrowAssumption DEF LuaValues, Stores

LEMMA SoundTypes ==
  ASSUME NEW r, Sound(r)
  PROVE  /\ r.size \in Nat /\ r.top \in Nat /\ r.top <= r.size /\ r.overflow \in BOOLEAN
         /\ DOMAIN r.array = 0..r.size - 1
         /\ \A i \in 0..r.top - 1 : i \in 0..r.size - 1 /\ r.array[i] \in LuaValues
BY DEF Sound, Registries, Stores

LEMMA MadeArray ==
  ASSUME NEW n \in Nat, NEW a \in [0..n - 1 -> Stores]
  PROVE  a \in UNION {[0..m - 1 -> Stores] : m \in Nat}
OBVIOUS

LEMMA ForceResizeProperties ==
  ASSUME NEW r, Sound(r), NEW n \in Nat, r.top <= n
  PROVE  /\ Sound(forceResize(r, n)) /\ forceResize(r, n).size = n
         /\ forceResize(r, n).top = r.top /\ forceResize(r, n).overflow = r.overflow
         /\ \A i \in 0..r.top - 1 : forceResize(r, n).array[i] = r.array[i]
<1> DEFINE a == [i \in 0..n - 1 |-> IF i < r.top THEN r.array[i] ELSE Empty]
<1>1. a \in [0..n - 1 -> Stores]
  BY SoundTypes DEF Stores, LuaValues
<1>2. \A i \in 0..r.top - 1 : i \in 0..n - 1 /\ a[i] = r.array[i]
  BY SoundTypes
<1>3. forceResize(r, n) = [r EXCEPT !.array = a, !.size = n]
  BY DEF forceResize
<1> HIDE DEF a
<1>4. r \in Registries
  BY DEF Sound
<1>5. /\ forceResize(r, n) \in Registries /\ forceResize(r, n).array = a
      /\ forceResize(r, n).size = n /\ forceResize(r, n).top = r.top
      /\ forceResize(r, n).overflow = r.overflow
  <2>1. a \in UNION {[0..m - 1 -> Stores] : m \in Nat}
    BY <1>1, MadeArray
  <2> QED
    BY <1>1, <1>3, <1>4, <2>1 DEF Registries
<1>6. \A i \in 0..r.top - 1 : r.array[i] # Empty
  BY DEF Sound
<1>7. \A i \in 0..r.top - 1 : a[i] # Empty
  BY <1>2, <1>6
<1> QED
  BY <1>1, <1>2, <1>5, <1>7 DEF Sound

LEMMA CheckSizeProperties ==
  ASSUME NEW r, Sound(r), NEW n \in Int
  PROVE  LET s == checkSize(r, n)
         IN  /\ Grows(r, s) /\ s.top = r.top
             /\ ~s.overflow => n <= s.size
             /\ n <= r.size => s.overflow = r.overflow
             /\ \A i \in 0..r.top - 1 : s.array[i] = r.array[i]
<1>1. CASE r.overflow \/ n <= r.size
  BY <1>1, SoundTypes DEF checkSize, Grows
<1>2. CASE ~r.overflow /\ ~(n <= r.size) /\ PaddedSize(n) < n
  <2>1. checkSize(r, n) = [r EXCEPT !.overflow = TRUE]
    BY <1>2 DEF checkSize, resize
  <2> DEFINE s == checkSize(r, n)
  <2>2. /\ s \in Registries /\ s.overflow = TRUE /\ s.array = r.array /\ s.size = r.size
        /\ s.top = r.top
    BY <2>1 DEF Sound, Registries
  <2> HIDE DEF s
  <2>3. Sound(s)
    BY <2>2 DEF Sound
  <2> QED
    BY <1>2, <2>2, <2>3, SoundTypes DEF Grows, s
<1>3. CASE ~r.overflow /\ ~(n <= r.size) /\ ~(PaddedSize(n) < n)
  <2> DEFINE p == PaddedSize(n)
  <2>1. p \in Nat /\ n <= p /\ r.size <= p /\ r.top <= p /\ n \in Nat
    BY <1>3, SoundTypes, GrowAssumption DEF PaddedSize, SmallerOf
  <2>2. checkSize(r, n) = forceResize(r, p)
    BY <1>3 DEF checkSize, resize
  <2> HIDE DEF p
  <2>3. /\ Sound(forceResize(r, p)) /\ forceResize(r, p).size = p
        /\ forceResize(r, p).top = r.top /\ forceResize(r, p).overflow = r.overflow
        /\ \A i \in 0..r.top - 1 : forceResize(r, p).array[i] = r.array[i]
    BY <2>1, ForceResizeProperties
  <2> QED
    BY <1>3, <2>1, <2>2, <2>3 DEF Grows
<1> QED
  BY <1>1, <1>2, <1>3

\* Storing contents, all in place, and moving top to where all is stored below.
LEMMA StoredProperties ==
  ASSUME NEW r, Sound(r), NEW c, NEW n \in Nat,
         ~r.overflow =>
            /\ n <= r.size
            /\ \A i \in DOMAIN c : i \in 0..r.size - 1 /\ c[i] \in Stores
            /\ \A i \in 0..n - 1 : IF i \in DOMAIN c THEN c[i] # Empty ELSE i < r.top
  PROVE  LET s == Stored(r, c, n)
         IN  /\ Grows(r, s) /\ s.overflow = r.overflow /\ s.size = r.size
             /\ ~s.overflow =>
                  /\ s.top = n
                  /\ \A i \in 0..n - 1 : s.array[i] = IF i \in DOMAIN c THEN c[i] ELSE r.array[i]
<1>1. CASE r.overflow
  <2>1. Stored(r, c, n) = r
    BY <1>1 DEF Stored
  <2>2. Grows(r, r)
    BY SoundTypes DEF Grows
  <2> QED
    BY <1>1, <2>1, <2>2
<1>2. CASE ~r.overflow
  <2> DEFINE s == Stored(r, c, n)
             a == Overlay(c, r.array)
  <2>1. s = [r EXCEPT !.array = a, !.top = n]
    BY <1>2 DEF Stored
  <2>2. /\ r \in Registries /\ r.size \in Nat /\ r.top \in Nat /\ n <= r.size /\ r.array \in [0..r.size - 1 -> Stores]
        /\ \A i \in 0..r.top - 1 : r.array[i] # Empty
    BY SoundTypes, <1>2 DEF Sound
  <2>3. a \in [0..r.size - 1 -> Stores] /\ \A i \in 0..r.size - 1 : a[i] = IF i \in DOMAIN c THEN c[i] ELSE r.array[i]
    BY <1>2, <2>2 DEF Overlay
  <2> HIDE DEF a
  <2>4. a \in UNION {[0..m - 1 -> Stores] : m \in Nat}
    BY <2>2, <2>3, MadeArray
  <2>5. s \in Registries /\ s.array = a /\ s.top = n /\ s.size = r.size /\ s.overflow = r.overflow
    BY <2>1, <2>2, <2>4 DEF Registries
  <2> HIDE DEF s
  <2>6. \A i \in 0..n - 1 : a[i] # Empty /\ a[i] = IF i \in DOMAIN c THEN c[i] ELSE r.array[i]
    BY <1>2, <2>2, <2>3
  <2>7. Sound(s)
    BY <2>2, <2>3, <2>5, <2>6 DEF Sound
  <2>8. Grows(r, s)
    BY <1>2, <2>2, <2>5, <2>7 DEF Grows
  <2> QED
    BY <2>5, <2>6, <2>8 DEF s
<1> QED
  BY <1>1, <1>2

LEMMA ClearedProperties ==
  ASSUME NEW r, Sound(r), NEW c, NEW n \in Nat,
         ~r.overflow =>
            /\ n <= r.size
            /\ \A i \in DOMAIN c : i \in 0..r.size - 1 /\ c[i] \in Stores
            /\ \A i \in 0..n - 1 : IF i \in DOMAIN c THEN c[i] # Empty ELSE i < r.top
  PROVE  LET s == Cleared(r, c, n)
         IN  /\ Grows(r, s) /\ s.overflow = r.overflow /\ s.size = r.size
             /\ ~s.overflow =>
                  /\ s.top = n
                  /\ \A i \in 0..n - 1 : s.array[i] = IF i \in DOMAIN c THEN c[i] ELSE r.array[i]
<1> DEFINE d == Overlay([i \in n..r.top - 1 |-> Empty], c)
<1>1. Cleared(r, c, n) = Stored(r, d, n)
  BY DEF Cleared
<1>2. DOMAIN d = n..r.top - 1 \cup DOMAIN c
  BY DEF Overlay
<1>3. \A i \in DOMAIN d : d[i] = IF i \in n..r.top - 1 THEN Empty ELSE c[i]
  BY DEF Overlay
<1> HIDE DEF d
<1>4. r.size \in Nat /\ r.top \in Nat /\ r.top <= r.size /\ Empty \in Stores
  BY SoundTypes DEF Stores
<1>5. \A i \in 0..n - 1 : (i \in DOMAIN d <=> i \in DOMAIN c) /\ (i \in DOMAIN d => d[i] = c[i])
  BY <1>2, <1>3, <1>4
<1>6. ~r.overflow =>
            /\ n <= r.size
            /\ \A i \in DOMAIN d : i \in 0..r.size - 1 /\ d[i] \in Stores
            /\ \A i \in 0..n - 1 : IF i \in DOMAIN d THEN d[i] # Empty ELSE i < r.top
  BY <1>2, <1>3, <1>4, <1>5
<1> DEFINE s == Stored(r, d, n)
<1>7. /\ Grows(r, s) /\ s.overflow = r.overflow /\ s.size = r.size
      /\ ~s.overflow =>
           /\ s.top = n
           /\ \A i \in 0..n - 1 : s.array[i] = IF i \in DOMAIN d THEN d[i] ELSE r.array[i]
  BY <1>6, StoredProperties
<1> HIDE DEF s
<1>8. Cleared(r, c, n) = s
  BY <1>1 DEF s
<1> QED
  BY <1>5, <1>7, <1>8

LEMMA GrowsTwice ==
  ASSUME NEW r, NEW s, NEW t, Sound(r), Grows(r, s), Grows(s, t)
  PROVE  Grows(r, t)
BY SoundTypes DEF Grows

LEMMA SingleProperties ==
  ASSUME NEW i, NEW v
  PROVE  DOMAIN Single(i, v) = {i} /\ Single(i, v)[i] = v
BY DEF Single

LEMMA SetTopProperties ==
  ASSUME NEW r, Sound(r), NEW n \in Nat
  PROVE  LET s == SetTop(r, n)
         IN  /\ Grows(r, s)
             /\ n <= r.size => s.overflow = r.overflow
             /\ ~s.overflow =>
                  /\ s.top = n
                  /\ \A i \in 0..n - 1 : s.array[i] = IF i < r.top THEN r.array[i] ELSE LNil
<1> DEFINE q == checkSize(r, n)
           c == Nils(q.top, n)
           s == Cleared(q, c, n)
<1>1. SetTop(r, n) = s
  BY DEF SetTop
<1>2. /\ Grows(r, q) /\ q.top = r.top
      /\ ~q.overflow => n <= q.size
      /\ n <= r.size => q.overflow = r.overflow
      /\ \A i \in 0..r.top - 1 : q.array[i] = r.array[i]
  BY CheckSizeProperties
<1>3. Sound(q) /\ q.size \in Nat /\ q.top \in Nat /\ r.top \in Nat /\ q.top <= q.size
  BY <1>2, SoundTypes DEF Grows
<1> HIDE DEF q
<1>4. DOMAIN c = q.top..n - 1 /\ \A i \in q.top..n - 1 : c[i] = LNil
  BY <1>3 DEF Nils
<1> HIDE DEF c
<1>5. ~q.overflow =>
            /\ n <= q.size
            /\ \A i \in DOMAIN c : i \in 0..q.size - 1 /\ c[i] \in Stores
            /\ \A i \in 0..n - 1 : IF i \in DOMAIN c THEN c[i] # Empty ELSE i < q.top
  BY <1>2, <1>3, <1>4, LuaValuesStored
<1>6. /\ Grows(q, s) /\ s.overflow = q.overflow
      /\ ~s.overflow =>
           /\ s.top = n
           /\ \A i \in 0..n - 1 : s.array[i] = IF i \in DOMAIN c THEN c[i] ELSE q.array[i]
  BY <1>3, <1>5, ClearedProperties
<1> HIDE DEF s
<1>7. Grows(r, s)
  BY <1>2, <1>6, GrowsTwice
<1> QED
  BY <1>1, <1>2, <1>3, <1>4, <1>6, <1>7

LEMMA SetProperties ==
  ASSUME NEW r, Sound(r), NEW i \in 0..r.top, NEW v \in LuaValues
  PROVE  LET s == Set(r, i, v)
         IN  /\ Grows(r, s)
             /\ i + 1 <= r.size => s.overflow = r.overflow
             /\ ~s.overflow =>
                  /\ s.top = LargerOf(r.top, i + 1)
                  /\ \A j \in 0..s.top - 1 : s.array[j] = IF j = i THEN v ELSE r.array[j]
<1> DEFINE q == checkSize(r, i + 1)
           n == LargerOf(q.top, i + 1)
           c == Single(i, v)
           s == Stored(q, c, n)
<1>1. Set(r, i, v) = s
  BY DEF Set
<1>2. r.top \in Nat /\ i \in Nat /\ i + 1 \in Nat
  BY SoundTypes
<1>3. /\ Grows(r, q) /\ q.top = r.top
      /\ ~q.overflow => i + 1 <= q.size
      /\ i + 1 <= r.size => q.overflow = r.overflow
      /\ \A j \in 0..r.top - 1 : q.array[j] = r.array[j]
  BY <1>2, CheckSizeProperties
<1>4. Sound(q) /\ q.size \in Nat /\ q.top <= q.size
  BY <1>3, SoundTypes DEF Grows
<1> HIDE DEF q
<1>5. /\ n \in Nat /\ n = LargerOf(r.top, i + 1) /\ (~q.overflow => n <= q.size)
      /\ \A j \in 0..n - 1 : j = i \/ j < q.top
  BY <1>2, <1>3, <1>4 DEF LargerOf
<1>6. DOMAIN c = {i} /\ c[i] = v
  BY SingleProperties
<1> HIDE DEF n, c
<1>7. ~q.overflow =>
            /\ n <= q.size
            /\ \A j \in DOMAIN c : j \in 0..q.size - 1 /\ c[j] \in Stores
            /\ \A j \in 0..n - 1 : IF j \in DOMAIN c THEN c[j] # Empty ELSE j < q.top
  BY <1>2, <1>3, <1>4, <1>5, <1>6, LuaValuesStored
<1>8. /\ Grows(q, s) /\ s.overflow = q.overflow
      /\ ~s.overflow =>
           /\ s.top = n
           /\ \A j \in 0..n - 1 : s.array[j] = IF j \in DOMAIN c THEN c[j] ELSE q.array[j]
  BY <1>4, <1>5, <1>7, StoredProperties
<1> HIDE DEF s
<1>9. Grows(r, s)
  BY <1>3, <1>8, GrowsTwice
<1>10. ~s.overflow => \A j \in 0..s.top - 1 : s.array[j] = IF j = i THEN v ELSE r.array[j]
  BY <1>2, <1>3, <1>5, <1>6, <1>8
<1> QED
  BY <1>1, <1>3, <1>5, <1>8, <1>9, <1>10

LEMMA PushProperties ==
  ASSUME NEW r, Sound(r), NEW v \in LuaValues
  PROVE  LET s == Push(r, v)
         IN  /\ Grows(r, s)
             /\ r.top + 1 <= r.size => s.overflow = r.overflow
             /\ ~s.overflow =>
                  /\ s.top = r.top + 1
                  /\ \A j \in 0..s.top - 1 : s.array[j] = IF j = r.top THEN v ELSE r.array[j]
<1> DEFINE q == checkSize(r, r.top + 1)
<1>1. r.top \in Nat /\ r.top \in 0..r.top
  BY SoundTypes
<1>2. q.top = r.top
  BY <1>1, CheckSizeProperties
<1>3. LargerOf(r.top, r.top + 1) = r.top + 1
  BY <1>1 DEF LargerOf
<1>4. Push(r, v) = Set(r, r.top, v)
  BY <1>2, <1>3 DEF Push, Set
<1> QED
  BY <1>1, <1>3, <1>4, SetProperties

LEMMA PopProperties ==
  ASSUME NEW r, Sound(r), r.top # 0
  PROVE  LET s == Pop(r)
         IN  /\ Grows(r, s) /\ s.overflow = r.overflow
             /\ ~s.overflow =>
                  /\ s.top = r.top - 1
                  /\ \A j \in 0..s.top - 1 : s.array[j] = r.array[j]
<1> DEFINE n == r.top - 1
           c == Single(n, LNil)
           s == Stored(r, c, n)
<1>1. Pop(r) = s
  BY DEF Pop
<1>2. n \in Nat /\ r.top \in Nat /\ n < r.top /\ r.size \in Nat /\ r.top <= r.size
  BY SoundTypes
<1>3. DOMAIN c = {n} /\ c[n] = LNil
  BY SingleProperties
<1> HIDE DEF c
<1>4. /\ n <= r.size
      /\ \A j \in DOMAIN c : j \in 0..r.size - 1 /\ c[j] \in Stores
      /\ \A j \in 0..n - 1 : j \notin DOMAIN c /\ j < r.top
  BY <1>2, <1>3, LuaValuesStored
<1> HIDE DEF n
<1>5. /\ Grows(r, s) /\ s.overflow = r.overflow
      /\ ~s.overflow =>
           /\ s.top = n
           /\ \A j \in 0..n - 1 : s.array[j] = IF j \in DOMAIN c THEN c[j] ELSE r.array[j]
  BY <1>2, <1>4, StoredProperties
<1> HIDE DEF s
<1>6. ~s.overflow => s.top = r.top - 1 /\ \A j \in 0..s.top - 1 : s.array[j] = r.array[j]
  BY <1>4, <1>5 DEF n
<1> QED
  BY <1>1, <1>5, <1>6

LEMMA InsertProperties ==
  ASSUME NEW r, Sound(r), NEW i \in 0..r.top, NEW v \in LuaValues
  PROVE  LET s == Insert(r, v, i)
         IN  /\ Grows(r, s)
             /\ ~s.overflow =>
                  /\ s.top = r.top + 1
                  /\ \A j \in 0..s.top - 1 :
                       s.array[j] = IF j < i THEN r.array[j] ELSE IF j = i THEN v ELSE r.array[j - 1]
<1> DEFINE q == checkSize(r, r.top + 1)
           n == q.top + 1
           c == [j \in i..q.top |-> IF j = i THEN v ELSE q.array[j - 1]]
           s == Stored(q, c, n)
<1>1. r.top \in Nat /\ i \in Nat /\ r.top + 1 \in Nat
  BY SoundTypes
<1>2. CASE i >= r.top
  <2>1. i = r.top /\ LargerOf(r.top, i + 1) = r.top + 1
    BY <1>1, <1>2 DEF LargerOf
  <2>2. Insert(r, v, i) = Set(r, r.top, v)
    BY <2>1, <1>2 DEF Insert
  <2> QED
    BY <1>1, <2>1, <2>2, SetProperties
<1>3. CASE ~(i >= r.top)
  <2>1. Insert(r, v, i) = s
    BY <1>3 DEF Insert
  <2>2. /\ Grows(r, q) /\ q.top = r.top
        /\ ~q.overflow => r.top + 1 <= q.size
        /\ \A j \in 0..r.top - 1 : q.array[j] = r.array[j]
    BY <1>1, CheckSizeProperties
  <2>3. Sound(q) /\ q.size \in Nat /\ \A j \in 0..r.top - 1 : r.array[j] \in LuaValues
    BY <2>2, SoundTypes DEF Grows
  <2> HIDE DEF q
  <2>4. /\ DOMAIN c = i..r.top /\ n \in Nat /\ n = r.top + 1
        /\ \A j \in i..r.top : c[j] = IF j = i THEN v ELSE r.array[j - 1]
    BY <1>1, <2>2
  <2> HIDE DEF c, n
  <2>5. \A j \in i..r.top : c[j] \in LuaValues
    BY <1>1, <2>3, <2>4
  <2>6. ~q.overflow =>
            /\ n <= q.size
            /\ \A j \in DOMAIN c : j \in 0..q.size - 1 /\ c[j] \in Stores
            /\ \A j \in 0..n - 1 : IF j \in DOMAIN c THEN c[j] # Empty ELSE j < q.top
    BY <1>1, <2>2, <2>3, <2>4, <2>5, LuaValuesStored
  <2>7. /\ Grows(q, s) /\ s.overflow = q.overflow
        /\ ~s.overflow =>
             /\ s.top = n
             /\ \A j \in 0..n - 1 : s.array[j] = IF j \in DOMAIN c THEN c[j] ELSE q.array[j]
    <3>1. Sound(q) /\ n \in Nat
      BY <2>3, <2>4
    <3> QED
      BY <3>1, <2>6, StoredProperties
  <2> HIDE DEF s
  <2>8. Grows(r, s)
    BY <2>2, <2>7, GrowsTwice
  <2>9. ~s.overflow =>
          /\ s.top = r.top + 1
          /\ \A j \in 0..s.top - 1 :
               s.array[j] = IF j < i THEN r.array[j] ELSE IF j = i THEN v ELSE r.array[j - 1]
    BY <1>1, <2>2, <2>4, <2>7
  <2> QED
    BY <2>1, <2>8, <2>9
<1> QED
  BY <1>2, <1>3

LEMMA FillNilProperties ==
  ASSUME NEW r, Sound(r), NEW m \in Nat, NEW n \in Nat, ~r.overflow => m <= r.top
  PROVE  LET s == FillNil(r, m, n)
         IN  /\ Grows(r, s)
             /\ ~s.overflow =>
                  /\ s.top = m + n
                  /\ \A j \in 0..s.top - 1 : s.array[j] = IF j < m THEN r.array[j] ELSE LNil
<1> DEFINE e == m + n
           q == checkSize(r, e)
           c == Nils(m, e)
           s == Cleared(q, c, e)
<1>1. FillNil(r, m, n) = s /\ e \in Nat
  BY DEF FillNil
<1>2. /\ Grows(r, q) /\ q.top = r.top
      /\ ~q.overflow => e <= q.size
      /\ \A j \in 0..r.top - 1 : q.array[j] = r.array[j]
  BY <1>1, CheckSizeProperties
<1>3. Sound(q) /\ q.size \in Nat /\ r.top \in Nat /\ (~q.overflow => m <= r.top)
  BY <1>2, SoundTypes DEF Grows
<1>4. DOMAIN c = m..e - 1 /\ \A j \in m..e - 1 : c[j] = LNil
  BY DEF Nils
<1> HIDE DEF q, c, e
<1>5. ~q.overflow =>
            /\ e <= q.size
            /\ \A j \in DOMAIN c : j \in 0..q.size - 1 /\ c[j] \in Stores
            /\ \A j \in 0..e - 1 : IF j \in DOMAIN c THEN c[j] # Empty ELSE j < q.top
  BY <1>1, <1>2, <1>3, <1>4, LuaValuesStored
<1>6. /\ Grows(q, s) /\ s.overflow = q.overflow
      /\ ~s.overflow =>
           /\ s.top = e
           /\ \A j \in 0..e - 1 : s.array[j] = IF j \in DOMAIN c THEN c[j] ELSE q.array[j]
  BY <1>1, <1>3, <1>5, ClearedProperties
<1> HIDE DEF s
<1>7. Grows(r, s)
  BY <1>2, <1>6, GrowsTwice
<1>8. ~s.overflow =>
          /\ s.top = m + n
          /\ \A j \in 0..s.top - 1 : s.array[j] = IF j < m THEN r.array[j] ELSE LNil
  BY <1>1, <1>2, <1>3, <1>4, <1>6 DEF e
<1> QED
  BY <1>1, <1>7, <1>8

\* Where the values to be copied end.
CopyEnd(r, limit) == IF limit = NoLimit \/ limit > r.top THEN r.top ELSE limit

\* What is copied lies above where it goes, or ends below it: no value that was
\* written by the loop is read again.
Apart(to, start, limit) == to <= start \/ (limit # NoLimit /\ limit <= to)

LEMMA CopyRangeProperties ==
  ASSUME NEW r, Sound(r), NEW to \in Nat, NEW start \in Nat, NEW limit \in Int, NEW n \in Nat,
         ~r.overflow => to <= r.top, Apart(to, start, limit)
  PROVE  LET s == CopyRange(r, to, start, limit, n)
         IN  /\ Grows(r, s)
             /\ ~s.overflow =>
                  /\ s.top = to + n
                  /\ \A j \in 0..s.top - 1 :
                       s.array[j] = IF j < to THEN r.array[j]
                                    ELSE IF start + (j - to) < CopyEnd(r, limit)
                                    THEN r.array[start + (j - to)] ELSE LNil
<1> DEFINE e == to + n
           q == checkSize(r, e)
           end == IF limit = NoLimit \/ limit > q.top THEN q.top ELSE limit
           c == CHOOSE f : f = [i \in to..e - 1 |->
                                  IF start + (i - to) >= end \/ start + (i - to) < 0 THEN LNil
                                  ELSE IF start + (i - to) \in to..i - 1 THEN f[start + (i - to)]
                                  ELSE q.array[start + (i - to)]]
           g == [i \in to..e - 1 |-> IF start + (i - to) >= end THEN LNil ELSE q.array[start + (i - to)]]
           s == Cleared(q, c, e)
<1>1. CopyRange(r, to, start, limit, n) = s /\ e \in Nat
  BY DEF CopyRange
<1>2. /\ Grows(r, q) /\ q.top = r.top
      /\ ~q.overflow => e <= q.size
      /\ \A j \in 0..r.top - 1 : q.array[j] = r.array[j]
  BY <1>1, CheckSizeProperties
<1>3. /\ Sound(q) /\ q.size \in Nat /\ r.top \in Nat /\ (~q.overflow => to <= r.top)
      /\ \A j \in 0..r.top - 1 : r.array[j] \in LuaValues
  BY <1>2, SoundTypes DEF Grows
<1> HIDE DEF q
<1>4. end = CopyEnd(r, limit) /\ end \in Int /\ end <= r.top /\ (to <= start \/ end <= to)
  BY <1>2, <1>3 DEF CopyEnd, Apart, NoLimit
<1> HIDE DEF end, e
<1>5. \A i \in to..e - 1 : start + (i - to) \in Nat
                           /\ (start + (i - to) >= end \/ ~(start + (i - to) \in to..i - 1))
  BY <1>1, <1>4
<1>6. \A f : [i \in to..e - 1 |->
                IF start + (i - to) >= end \/ start + (i - to) < 0 THEN LNil
                ELSE IF start + (i - to) \in to..i - 1 THEN f[start + (i - to)]
                ELSE q.array[start + (i - to)]] = g
  BY <1>5
<1> HIDE DEF g
<1>7. c = g
  BY <1>6
<1> HIDE DEF c
<1>8. /\ DOMAIN c = to..e - 1
      /\ \A i \in to..e - 1 : c[i] = IF start + (i - to) < end THEN r.array[start + (i - to)] ELSE LNil
  BY <1>2, <1>3, <1>4, <1>5, <1>7 DEF g
<1>9. \A i \in to..e - 1 : c[i] \in LuaValues
  BY <1>3, <1>4, <1>5, <1>8, LuaValuesStored
<1>10. ~q.overflow =>
            /\ e <= q.size
            /\ \A j \in DOMAIN c : j \in 0..q.size - 1 /\ c[j] \in Stores
            /\ \A j \in 0..e - 1 : IF j \in DOMAIN c THEN c[j] # Empty ELSE j < q.top
  BY <1>1, <1>2, <1>3, <1>8, <1>9, LuaValuesStored
<1>11. /\ Grows(q, s) /\ s.overflow = q.overflow
       /\ ~s.overflow =>
            /\ s.top = e
            /\ \A j \in 0..e - 1 : s.array[j] = IF j \in DOMAIN c THEN c[j] ELSE q.array[j]
  BY <1>1, <1>3, <1>10, ClearedProperties
<1> HIDE DEF s
<1>12. Grows(r, s)
  BY <1>2, <1>11, GrowsTwice
<1>13. ~s.overflow => \A j \in 0..e - 1 :
                       s.array[j] = IF j < to THEN r.array[j]
                                    ELSE IF start + (j - to) < end
                                    THEN r.array[start + (j - to)] ELSE LNil
  BY <1>1, <1>2, <1>3, <1>8, <1>11
<1> QED
  BY <1>1, <1>4, <1>11, <1>12, <1>13 DEF e

\* copyReturnValues hands over n values, those from start on: all up to top when
\* b is 0, else b - 1 of them.
LEMMA CopyReturnProperties ==
  ASSUME NEW r, Sound(r), NEW to \in Nat, NEW start \in Nat, NEW n \in Nat, NEW b \in Nat,
         ~r.overflow, to <= r.top, to <= start, b # 0 => start + (b - 1) <= r.top
  PROVE  LET s == copyReturnValues(r, to, start, n, b)
             end == IF b = 0 THEN r.top ELSE start + (b - 1)
         IN  /\ Grows(r, s)
             /\ ~s.overflow =>
                  /\ s.top = to + n
                  /\ \A j \in 0..s.top - 1 :
                       s.array[j] = IF j < to THEN r.array[j]
                                    ELSE IF start + (j - to) < end
                                    THEN r.array[start + (j - to)] ELSE LNil
<1> DEFINE copied == CopyRange(r, to, start, NoLimit, n)
           s == copyReturnValues(r, to, start, n, b)
<1>1. r.top \in Nat /\ CopyEnd(r, NoLimit) = r.top /\ NoLimit \in Int
  BY SoundTypes DEF CopyEnd, NoLimit
<1>2. /\ Grows(r, copied)
      /\ ~copied.overflow =>
           /\ copied.top = to + n
           /\ \A j \in 0..copied.top - 1 :
                copied.array[j] = IF j < to THEN r.array[j]
                                  ELSE IF start + (j - to) < r.top
                                  THEN r.array[start + (j - to)] ELSE LNil
  BY <1>1, CopyRangeProperties DEF Apart
<1> HIDE DEF copied
<1>3. CASE b = 1
  <2>1. s = FillNil(r, to, n)
    BY <1>3 DEF copyReturnValues
  <2> HIDE DEF s
  <2>2. /\ Grows(r, s)
        /\ ~s.overflow =>
             /\ s.top = to + n
             /\ \A j \in 0..s.top - 1 : s.array[j] = IF j < to THEN r.array[j] ELSE LNil
    BY <2>1, FillNilProperties
  <2>3. ~s.overflow => \A j \in 0..s.top - 1 :
                       s.array[j] = IF j < to THEN r.array[j]
                                    ELSE IF start + (j - to) < start + (b - 1)
                                    THEN r.array[start + (j - to)] ELSE LNil
    BY <1>3, <2>2
  <2> QED
    BY <1>3, <2>2, <2>3 DEF s
<1>4. CASE b # 1 /\ b > 1 /\ n > b - 1
  <2> DEFINE m == to + (b - 1)
             k == n - (b - 1)
  <2>1. s = FillNil(copied, m, k)
    BY <1>4 DEF copyReturnValues, copied
  <2>2. m \in Nat /\ k \in Nat /\ m + k = to + n /\ m <= to + n
    BY <1>4
  <2> HIDE DEF s, m, k
  <2>3. /\ Grows(copied, s)
        /\ ~s.overflow =>
             /\ s.top = m + k
             /\ \A j \in 0..s.top - 1 : s.array[j] = IF j < m THEN copied.array[j] ELSE LNil
    <3>1. Sound(copied) /\ (~copied.overflow => m <= copied.top)
      BY <1>2, <2>2 DEF Grows
    <3> QED
      BY <2>1, <2>2, <3>1, FillNilProperties
  <2>4. Grows(r, s)
    BY <1>2, <2>3, GrowsTwice
  <2>5. ~s.overflow => ~copied.overflow
    BY <2>3 DEF Grows
  <2>6. ~s.overflow => \A j \in 0..s.top - 1 :
                       s.array[j] = IF j < to THEN r.array[j]
                                    ELSE IF start + (j - to) < start + (b - 1)
                                    THEN r.array[start + (j - to)] ELSE LNil
    <3> SUFFICES ASSUME ~s.overflow, NEW j \in 0..s.top - 1
                 PROVE  s.array[j] = IF j < to THEN r.array[j]
                                    ELSE IF start + (j - to) < start + (b - 1)
                                    THEN r.array[start + (j - to)] ELSE LNil
      OBVIOUS
    <3>1. j \in 0..copied.top - 1 /\ j \in Nat /\ (j < m <=> j < to \/ j - to < b - 1)
      <4>1. j \in 0..copied.top - 1 /\ j \in Nat
        BY <1>2, <2>2, <2>3, <2>5
      <4>2. m = to + (b - 1)
        BY DEF m
      <4> QED
        BY <1>4, <4>1, <4>2
    <3>2. s.array[j] = IF j < m THEN copied.array[j] ELSE LNil
      BY <2>3
    <3>3. start + (j - to) < start + (b - 1) => start + (j - to) < r.top
      BY <1>1, <1>4, <3>1
    <3> QED
      BY <1>2, <1>4, <2>5, <3>1, <3>2, <3>3
  <2> QED
    BY <1>4, <2>2, <2>3, <2>4, <2>6 DEF s
<1>5. CASE b # 1 /\ ~(b > 1 /\ n > b - 1)
  <2>1. s = copied
    BY <1>5 DEF copyReturnValues, copied
  <2>2. \A j \in to..to + n - 1 : b # 0 => start + (j - to) < start + (b - 1) /\ start + (j - to) < r.top
    BY <1>1, <1>5
  <2> HIDE DEF s
  <2>3. ~s.overflow => \A j \in 0..s.top - 1 :
                       s.array[j] = IF j < to THEN r.array[j]
                                    ELSE IF start + (j - to) < IF b = 0 THEN r.top ELSE start + (b - 1)
                                    THEN r.array[start + (j - to)] ELSE LNil
    BY <1>2, <2>1, <2>2
  <2> QED
    BY <1>2, <2>1, <2>3 DEF s
<1> QED
  BY <1>3, <1>4, <1>5

-----------------------------------------------------------------------------
(* initCallFrame.                                                          *)

LEMMA FunctionTypes ==
  ASSUME NEW f \in Functions
  PROVE  /\ f.isG \in BOOLEAN /\ f.vararg \in BOOLEAN /\ f.np \in Nat /\ f.used \in Nat
         /\ f.isG => ~f.vararg
         /\ ~f.isG => f.np < f.used
BY FunctionAssumption

LEMMA LargerProperties ==
  ASSUME NEW m \in Nat, NEW n \in Nat
  PROVE  /\ LargerOf(m, n) \in Nat /\ m <= LargerOf(m, n) /\ n <= LargerOf(m, n)
         /\ LargerOf(m, n) \in {m, n}
BY DEF LargerOf

LEMMA MissingProperties ==
  ASSUME NEW r, Sound(r), NEW f \in Functions, NEW lbase \in Nat, NEW nargs \in Nat,
         ~r.overflow => lbase + nargs <= r.top
  PROVE  LET s == Missing(r, f, lbase, nargs)
             given == LargerOf(nargs, f.np)
         IN  /\ Grows(r, s)
             /\ ~s.overflow =>
                  /\ lbase + given <= s.top
                  /\ \A i \in 0..lbase + given - 1 :
                       s.array[i] = IF i < lbase + nargs THEN r.array[i] ELSE LNil
<1> DEFINE s == Missing(r, f, lbase, nargs)
<1>1. f.np \in Nat /\ r.top \in Nat /\ Grows(r, r)
  BY FunctionTypes, SoundTypes DEF Grows
<1>2. CASE nargs >= f.np
  <2>1. s = r /\ LargerOf(nargs, f.np) = nargs
    BY <1>1, <1>2 DEF Missing, LargerOf
  <2> HIDE DEF s
  <2>2. ~r.overflow => lbase + nargs <= r.top
    OBVIOUS
  <2>3. \A i \in 0..lbase + nargs - 1 : i < lbase + nargs
    OBVIOUS
  <2> QED
    BY <1>1, <2>1, <2>2, <2>3 DEF s
<1>3. CASE ~(nargs >= f.np)
  <2> DEFINE e == lbase + f.np
             m == lbase + nargs
             q == checkSize(r, e)
             c == Nils(m, e)
  <2>1. s = Stored(q, c, e) /\ LargerOf(nargs, f.np) = f.np
    BY <1>1, <1>3 DEF Missing, LargerOf
  <2>2. e \in Nat /\ m \in Nat /\ m <= e
    BY <1>1, <1>3
  <2>3. DOMAIN c = m..e - 1 /\ \A i \in m..e - 1 : c[i] = LNil
    BY <2>2 DEF Nils
  <2>4. /\ Grows(r, q) /\ q.top = r.top
        /\ ~q.overflow => e <= q.size
        /\ \A j \in 0..r.top - 1 : q.array[j] = r.array[j]
    BY <2>2, CheckSizeProperties
  <2>5. Sound(q) /\ q.size \in Nat /\ (~q.overflow => m <= r.top)
    BY <2>4, SoundTypes DEF Grows
  <2> HIDE DEF q, c, e, m, s
  <2>6. ~q.overflow =>
            /\ e <= q.size
            /\ \A j \in DOMAIN c : j \in 0..q.size - 1 /\ c[j] \in Stores
            /\ \A j \in 0..e - 1 : IF j \in DOMAIN c THEN c[j] # Empty ELSE j < q.top
    BY <1>1, <2>2, <2>3, <2>4, <2>5, LuaValuesStored
  <2>7. /\ Grows(q, s) /\ s.overflow = q.overflow
        /\ ~s.overflow =>
             /\ s.top = e
             /\ \A j \in 0..e - 1 : s.array[j] = IF j \in DOMAIN c THEN c[j] ELSE q.array[j]
    BY <2>1, <2>2, <2>5, <2>6, StoredProperties
  <2>8. Grows(r, s)
    BY <2>4, <2>7, GrowsTwice
  <2>9. ~s.overflow => e <= s.top /\ \A i \in 0..e - 1 :
                         s.array[i] = IF i < m THEN r.array[i] ELSE LNil
    BY <1>1, <2>2, <2>3, <2>4, <2>5, <2>7
  <2> QED
    BY <1>1, <2>1, <2>8, <2>9 DEF s, e, m
<1> QED
  BY <1>2, <1>3

LEMMA FixedWindowProperties ==
  ASSUME NEW r, Sound(r), NEW f \in Functions, ~f.isG, NEW lbase \in Nat, NEW given \in Nat,
         f.np <= given, ~r.overflow => lbase + given <= r.top
  PROVE  LET s == FixedWindow(r, f, lbase, given)
         IN  /\ Grows(r, s)
             /\ ~s.overflow =>
                  /\ s.top = lbase + f.used
                  /\ \A i \in 0..s.top - 1 : s.array[i] = IF i < lbase + f.np THEN r.array[i] ELSE LNil
<1> DEFINE e == lbase + LargerOf(given, f.used)
           m == lbase + f.np
           n == lbase + f.used
           q == checkSize(r, e)
           c == Nils(m, e)
           s == FixedWindow(r, f, lbase, given)
<1>1. s = Stored(q, c, n)
  BY DEF FixedWindow
<1>2. e \in Nat /\ m \in Nat /\ n \in Nat /\ m <= n /\ n <= e /\ r.top \in Nat /\ (~r.overflow => m <= r.top)
  <2>1. f.np \in Nat /\ f.used \in Nat /\ f.np < f.used /\ r.top \in Nat
    BY FunctionTypes, SoundTypes
  <2>2. LargerOf(given, f.used) \in Nat /\ f.used <= LargerOf(given, f.used)
    BY <2>1, LargerProperties
  <2> QED
    BY <2>1, <2>2
<1>3. DOMAIN c = m..e - 1 /\ \A i \in m..e - 1 : c[i] = LNil
  BY <1>2 DEF Nils
<1>4. /\ Grows(r, q) /\ q.top = r.top
      /\ ~q.overflow => e <= q.size
      /\ \A j \in 0..r.top - 1 : q.array[j] = r.array[j]
  BY <1>2, CheckSizeProperties
<1>5. Sound(q) /\ q.size \in Nat /\ (~q.overflow => m <= r.top)
  BY <1>2, <1>4, SoundTypes DEF Grows
<1> HIDE DEF q, c, e, m, n, s
<1>6. ~q.overflow =>
            /\ n <= q.size
            /\ \A j \in DOMAIN c : j \in 0..q.size - 1 /\ c[j] \in Stores
            /\ \A j \in 0..n - 1 : IF j \in DOMAIN c THEN c[j] # Empty ELSE j < q.top
  BY <1>2, <1>3, <1>4, <1>5, LuaValuesStored
<1>7. /\ Grows(q, s) /\ s.overflow = q.overflow
      /\ ~s.overflow =>
           /\ s.top = n
           /\ \A j \in 0..n - 1 : s.array[j] = IF j \in DOMAIN c THEN c[j] ELSE q.array[j]
  BY <1>1, <1>2, <1>5, <1>6, StoredProperties
<1>8. Grows(r, s)
  BY <1>4, <1>7, GrowsTwice
<1>9. ~s.overflow => \A i \in 0..n - 1 : s.array[i] = IF i < m THEN r.array[i] ELSE LNil
  BY <1>2, <1>3, <1>4, <1>5, <1>7
<1> QED
  BY <1>7, <1>8, <1>9 DEF s, n, m

\* The parameters are copied above the extra arguments.
LEMMA SwappedProperties ==
  ASSUME NEW r, Sound(r), NEW f \in Functions, NEW lbase \in Nat, NEW given \in Nat,
         f.np <= given, ~r.overflow => r.top = lbase + given + f.np
  PROVE  LET s == Swapped(r, f, lbase, given)
         IN  /\ Grows(r, s) /\ s.overflow = r.overflow
             /\ ~s.overflow =>
                  /\ s.top = r.top
                  /\ \A i \in 0..s.top - 1 :
                       s.array[i] = IF i \in lbase..lbase + f.np - 1 THEN LNil
                                    ELSE IF i < lbase + given THEN r.array[i] ELSE r.array[i - given]
<1> DEFINE p == lbase + f.np
           w == lbase + given
           n == w + f.np
           low == [i \in lbase..p - 1 |-> LNil]
           high == [i \in w..n - 1 |-> r.array[i - given]]
           c == Overlay(low, high)
           s == Swapped(r, f, lbase, given)
<1>1. /\ f.np \in Nat /\ p \in Nat /\ w \in Nat /\ n \in Nat /\ p <= w /\ w <= n
      /\ r.top \in Nat /\ r.size \in Nat /\ r.top <= r.size /\ n - given = p
      /\ \A i \in 0..r.top - 1 : r.array[i] \in LuaValues
  BY FunctionTypes, SoundTypes, SMTT(40)
<1>2. s = Stored(r, c, r.top) /\ (~r.overflow => r.top = n)
  <2>1. lbase + f.np - 1 = p - 1 /\ lbase + given + f.np - 1 = n - 1 /\ lbase + given + f.np = n
    BY <1>1
  <2> QED
    BY <2>1 DEF Swapped
<1>3. /\ DOMAIN c = (lbase..p - 1) \cup (w..n - 1)
      /\ \A i \in lbase..p - 1 : c[i] = LNil
      /\ \A i \in w..n - 1 : c[i] = r.array[i - given]
  BY <1>1, SMTT(40) DEF Overlay
<1>4. \A i \in w..n - 1 : i - given \in 0..p - 1
  BY <1>1
<1> HIDE DEF c, p, w, n, s
<1>5. ~r.overflow =>
            /\ r.top <= r.size
            /\ \A j \in DOMAIN c : j \in 0..r.size - 1 /\ c[j] \in Stores
            /\ \A j \in 0..r.top - 1 : IF j \in DOMAIN c THEN c[j] # Empty ELSE j < r.top
  <2> SUFFICES ASSUME ~r.overflow
               PROVE  \A j \in DOMAIN c : j \in 0..r.size - 1 /\ c[j] \in LuaValues
    BY <1>1, LuaValuesStored
  <2>1. \A j \in lbase..p - 1 : j \in 0..r.size - 1 /\ c[j] \in LuaValues
    BY <1>1, <1>2, <1>3, LuaValuesStored
  <2>2. \A j \in w..n - 1 : j \in 0..r.size - 1 /\ c[j] \in LuaValues
    BY <1>1, <1>2, <1>3, <1>4
  <2> QED
    BY <1>3, <2>1, <2>2
<1>6. /\ Grows(r, s) /\ s.overflow = r.overflow
      /\ ~s.overflow =>
           /\ s.top = r.top
           /\ \A j \in 0..r.top - 1 : s.array[j] = IF j \in DOMAIN c THEN c[j] ELSE r.array[j]
  BY <1>1, <1>2, <1>5, StoredProperties
<1>7. ~s.overflow => \A i \in 0..s.top - 1 :
                       s.array[i] = IF i \in lbase..p - 1 THEN LNil
                                    ELSE IF i < w THEN r.array[i] ELSE r.array[i - given]
  BY <1>1, <1>2, <1>3, <1>6
<1> QED
  BY <1>1, <1>6, <1>7 DEF s, p, w

LEMMA VarArgWindowProperties ==
  ASSUME NEW r, Sound(r), NEW f \in Functions, ~f.isG, NEW lbase \in Nat, NEW given \in Nat,
         f.np <= given, ~r.overflow => lbase + given <= r.top
  PROVE  LET s == VarArgWindow(r, f, lbase, given)
         IN  /\ Grows(r, s)
             /\ ~s.overflow =>
                  /\ s.top = lbase + given + f.used
                  /\ \A i \in 0..lbase - 1 : s.array[i] = r.array[i]
                  /\ \A i \in 0..f.np - 1 : s.array[lbase + given + i] = r.array[lbase + i]
                  /\ \A i \in f.np..given - 1 : s.array[lbase + i] = r.array[lbase + i]
<1> DEFINE w == lbase + given
           n == w + f.np
           s1 == SetTop(r, n)
           s2 == Swapped(s1, f, lbase, given)
           s3 == SetTop(s2, n + 1)
           c == Single(n, LNil)
           s4 == Stored(s3, c, s3.top)
           s5 == SetTop(s4, w + f.used)
<1>1. VarArgWindow(r, f, lbase, given) = s5
  BY DEF VarArgWindow, ArgSlot
<1>2. /\ w \in Nat /\ n \in Nat /\ n + 1 \in Nat /\ w + f.used \in Nat /\ n + 1 <= w + f.used
      /\ f.np \in Nat /\ f.used \in Nat /\ lbase + f.np <= w /\ w <= n /\ n = w + f.np
      /\ w = lbase + given
  BY FunctionTypes
<1>3. c = Single(n, LNil) /\ DOMAIN c = {n} /\ c[n] = LNil
  BY SingleProperties
<1>4. /\ Grows(r, s1) /\ Sound(s1)
      /\ ~s1.overflow =>
           /\ s1.top = n
           /\ \A i \in 0..w - 1 : s1.array[i] = r.array[i]
  <2>1. /\ Grows(r, s1)
        /\ ~s1.overflow =>
             /\ s1.top = n
             /\ \A i \in 0..n - 1 : s1.array[i] = IF i < r.top THEN r.array[i] ELSE LNil
    BY <1>2, SetTopProperties
  <2> HIDE DEF s1, n
  <2>2. r.top \in Nat /\ (~s1.overflow => w <= r.top)
    BY <2>1, SoundTypes DEF Grows
  <2> QED
    BY <1>2, <2>1, <2>2 DEF Grows
<1> HIDE DEF s1
<1>5. /\ Grows(s1, s2) /\ Sound(s2) /\ s2.overflow = s1.overflow
      /\ ~s2.overflow =>
           /\ s2.top = n
           /\ \A i \in 0..n - 1 :
                s2.array[i] = IF i \in lbase..lbase + f.np - 1 THEN LNil
                              ELSE IF i < w THEN s1.array[i] ELSE s1.array[i - given]
  <2>1. /\ Grows(s1, s2) /\ s2.overflow = s1.overflow
        /\ ~s2.overflow =>
             /\ s2.top = s1.top
             /\ \A i \in 0..s2.top - 1 :
                  s2.array[i] = IF i \in lbase..lbase + f.np - 1 THEN LNil
                                ELSE IF i < lbase + given THEN s1.array[i] ELSE s1.array[i - given]
    BY <1>2, <1>4, SwappedProperties
  <2> QED
    BY <1>4, <2>1 DEF Grows
<1> HIDE DEF s2
<1>6. /\ Grows(s2, s3) /\ Sound(s3)
      /\ ~s3.overflow =>
           /\ ~s2.overflow /\ s3.top = n + 1
           /\ \A i \in 0..n - 1 : s3.array[i] = s2.array[i]
  <2>1. /\ Grows(s2, s3)
        /\ ~s3.overflow =>
             /\ s3.top = n + 1
             /\ \A i \in 0..n + 1 - 1 : s3.array[i] = IF i < s2.top THEN s2.array[i] ELSE LNil
    BY <1>2, <1>5, SetTopProperties
  <2> HIDE DEF s3, n
  <2>2. ~s3.overflow => ~s2.overflow
    BY <2>1 DEF Grows
  <2> QED
    BY <1>2, <1>5, <2>1, <2>2 DEF Grows
<1> HIDE DEF s3
<1>7. /\ Grows(s3, s4) /\ Sound(s4)
      /\ ~s4.overflow =>
           /\ ~s3.overflow /\ s4.top = n + 1
           /\ \A i \in 0..n - 1 : s4.array[i] = s3.array[i]
  <2> HIDE DEF c, n
  <2>1. s3.top \in Nat /\ s3.size \in Nat /\ s3.top <= s3.size
    BY <1>6, SoundTypes
  <2>2. ~s3.overflow =>
            /\ s3.top <= s3.size
            /\ \A j \in DOMAIN c : j \in 0..s3.size - 1 /\ c[j] \in Stores
            /\ \A j \in 0..s3.top - 1 : IF j \in DOMAIN c THEN c[j] # Empty ELSE j < s3.top
    BY <1>2, <1>3, <1>6, <2>1, LuaValuesStored
  <2>3. /\ Grows(s3, s4) /\ s4.overflow = s3.overflow
        /\ ~s4.overflow =>
             /\ s4.top = s3.top
             /\ \A j \in 0..s3.top - 1 : s4.array[j] = IF j \in DOMAIN c THEN c[j] ELSE s3.array[j]
    BY <1>6, <2>1, <2>2, StoredProperties
  <2> HIDE DEF s4
  <2> QED
    BY <1>2, <1>3, <1>6, <2>3 DEF Grows
<1> HIDE DEF s4
<1>8. /\ Grows(s4, s5)
      /\ ~s5.overflow =>
           /\ ~s4.overflow /\ s5.top = w + f.used
           /\ \A i \in 0..n - 1 : s5.array[i] = s4.array[i]
  <2>1. /\ Grows(s4, s5)
        /\ ~s5.overflow =>
             /\ s5.top = w + f.used
             /\ \A i \in 0..w + f.used - 1 : s5.array[i] = IF i < s4.top THEN s4.array[i] ELSE LNil
    BY <1>2, <1>7, SetTopProperties
  <2> HIDE DEF s5, n, w
  <2>2. ~s5.overflow => ~s4.overflow
    BY <2>1 DEF Grows
  <2> QED
    BY <1>2, <1>7, <2>1, <2>2
<1> HIDE DEF s5
<1>9. Grows(r, s5)
  <2>1. Grows(r, s2)
    BY <1>4, <1>5, GrowsTwice
  <2>2. Grows(r, s3)
    BY <1>6, <2>1, GrowsTwice
  <2>3. Grows(r, s4)
    BY <1>7, <2>2, GrowsTwice
  <2> QED
    BY <1>8, <2>3, GrowsTwice
<1> HIDE DEF n, w
<1>10. ASSUME ~s5.overflow
       PROVE  \A i \in 0..n - 1 :
                s5.array[i] = IF i \in lbase..lbase + f.np - 1 THEN LNil
                              ELSE IF i < w THEN r.array[i] ELSE r.array[i - given]
  <2>1. ~s4.overflow /\ ~s3.overflow /\ ~s2.overflow /\ ~s1.overflow
    BY <1>5, <1>6, <1>7, <1>8, <1>10
  <2>2. \A i \in 0..n - 1 : s5.array[i] = s2.array[i]
    BY <1>6, <1>7, <1>8, <1>10, <2>1
  <2>3. \A i \in 0..n - 1 : i < w => i \in 0..w - 1
    BY <1>2
  <2>4. \A i \in 0..n - 1 : ~(i < w) => i - given \in 0..w - 1
    BY <1>2
  <2> QED
    BY <1>4, <1>5, <2>1, <2>2, <2>3, <2>4
<1>11. /\ \A i \in 0..lbase - 1 : i \in 0..n - 1 /\ i < w /\ i \notin lbase..lbase + f.np - 1
       /\ \A i \in 0..f.np - 1 : /\ w + i \in 0..n - 1 /\ ~(w + i < w) /\ w + i \notin lbase..lbase + f.np - 1
                                 /\ w + i - given = lbase + i
       /\ \A i \in f.np..given - 1 : lbase + i \in 0..n - 1 /\ lbase + i < w /\ lbase + i \notin lbase..lbase + f.np - 1
  BY <1>2
<1>12. ~s5.overflow =>
                  /\ \A i \in 0..lbase - 1 : s5.array[i] = r.array[i]
                  /\ \A i \in 0..f.np - 1 : s5.array[w + i] = r.array[lbase + i]
                  /\ \A i \in f.np..given - 1 : s5.array[lbase + i] = r.array[lbase + i]
  <2> SUFFICES ASSUME ~s5.overflow
               PROVE  /\ \A i \in 0..lbase - 1 : s5.array[i] = r.array[i]
                      /\ \A i \in 0..f.np - 1 : s5.array[w + i] = r.array[lbase + i]
                      /\ \A i \in f.np..given - 1 : s5.array[lbase + i] = r.array[lbase + i]
    OBVIOUS
  <2>1. \A j \in 0..n - 1 :
                s5.array[j] = IF j \in lbase..lbase + f.np - 1 THEN LNil
                              ELSE IF j < w THEN r.array[j] ELSE r.array[j - given]
    BY <1>10
  <2>2. ASSUME NEW i \in 0..lbase - 1
        PROVE  s5.array[i] = r.array[i]
    BY <1>11, <2>1
  <2>3. ASSUME NEW i \in 0..f.np - 1
        PROVE  s5.array[w + i] = r.array[lbase + i]
    <3> DEFINE j == w + i
    <3>1. j \in 0..n - 1 /\ ~(j < w) /\ j \notin lbase..lbase + f.np - 1 /\ j - given = lbase + i
      BY <1>2, <1>11
    <3> HIDE DEF j
    <3>2. s5.array[j] = r.array[lbase + i]
      BY <2>1, <3>1
    <3> QED
      BY <3>2 DEF j
  <2>4. ASSUME NEW i \in f.np..given - 1
        PROVE  s5.array[lbase + i] = r.array[lbase + i]
    <3> DEFINE j == lbase + i
    <3>1. j \in 0..n - 1 /\ j < w /\ j \notin lbase..lbase + f.np - 1
      BY <1>11
    <3> HIDE DEF j
    <3>2. s5.array[j] = r.array[j]
      BY <2>1, <3>1
    <3> QED
      BY <3>2 DEF j
  <2> QED
    BY <2>2, <2>3, <2>4
<1> QED
  BY <1>1, <1>8, <1>9, <1>12 DEF w

\* The argument number i, counted from 0, of those a function is called with.
ArgumentAt(r, lbase, nargs, i) == IF i < nargs THEN r.array[lbase + i] ELSE LNil

\* s is r with the registers of f prepared.
IsEntry(s, r, f, lbase, nargs) ==
    LET local == LocalBaseOf(f, lbase, nargs)
    IN  /\ Grows(r, s)
        /\ local \in Nat /\ lbase <= local
        /\ ~s.overflow =>
             /\ s.top = IF f.isG THEN lbase + nargs ELSE local + f.used
             /\ \A i \in 0..lbase - 1 : s.array[i] = r.array[i]
             /\ f.isG => \A i \in 0..nargs - 1 : s.array[lbase + i] = r.array[lbase + i]
             /\ ~f.isG => \A i \in 0..f.np - 1 : s.array[local + i] = ArgumentAt(r, lbase, nargs, i)
             /\ f.vararg =>
                  /\ lbase + f.np <= local
                  /\ \A i \in f.np..nargs - 1 : s.array[lbase + i] = r.array[lbase + i]

LEMMA InitCallFrameProperties ==
  ASSUME NEW r, Sound(r), NEW f \in Functions, NEW lbase \in Nat, NEW nargs \in Nat,
         ~r.overflow => lbase + nargs <= r.top
  PROVE  IsEntry(initCallFrame(r, f, lbase, nargs), r, f, lbase, nargs)
<1> DEFINE given == LargerOf(nargs, f.np)
           m == Missing(r, f, lbase, nargs)
           s == initCallFrame(r, f, lbase, nargs)
           local == LocalBaseOf(f, lbase, nargs)
<1> SUFFICES
        /\ Grows(r, s)
        /\ local \in Nat /\ lbase <= local
        /\ ~s.overflow =>
             /\ s.top = IF f.isG THEN lbase + nargs ELSE local + f.used
             /\ \A i \in 0..lbase - 1 : s.array[i] = r.array[i]
             /\ f.isG => \A i \in 0..nargs - 1 : s.array[lbase + i] = r.array[lbase + i]
             /\ ~f.isG => \A i \in 0..f.np - 1 : s.array[local + i] = ArgumentAt(r, lbase, nargs, i)
             /\ f.vararg =>
                  /\ lbase + f.np <= local
                  /\ \A i \in f.np..nargs - 1 : s.array[lbase + i] = r.array[lbase + i]
  BY DEF IsEntry
<1>1. /\ f.np \in Nat /\ f.used \in Nat /\ f.isG \in BOOLEAN /\ f.vararg \in BOOLEAN
      /\ f.isG => ~f.vararg
      /\ ~f.isG => f.np < f.used
      /\ given \in Nat /\ f.np <= given /\ nargs <= given /\ given \in {nargs, f.np}
  <2>1. f.np \in Nat
    BY FunctionTypes
  <2> QED
    BY <2>1, FunctionTypes, LargerProperties
<1>2. /\ local = (IF f.vararg THEN lbase + given ELSE lbase)
      /\ local \in Nat /\ lbase <= local
      /\ f.vararg => lbase + f.np <= local
  BY <1>1 DEF LocalBaseOf
<1>3. /\ Grows(r, m) /\ Sound(m)
      /\ ~m.overflow =>
           /\ lbase + given <= m.top
           /\ \A i \in 0..lbase + given - 1 :
                m.array[i] = IF i < lbase + nargs THEN r.array[i] ELSE LNil
  BY MissingProperties DEF Grows
<1> HIDE DEF given, m, local
<1>4. ASSUME ~m.overflow
      PROVE  /\ \A i \in 0..lbase - 1 : m.array[i] = r.array[i]
             /\ \A i \in 0..f.np - 1 : m.array[lbase + i] = ArgumentAt(r, lbase, nargs, i)
             /\ \A i \in f.np..nargs - 1 : m.array[lbase + i] = r.array[lbase + i]
  <2>1. \A i \in 0..lbase - 1 : i \in 0..lbase + given - 1 /\ i < lbase + nargs
    BY <1>1
  <2>2. \A i \in 0..f.np - 1 : lbase + i \in 0..lbase + given - 1 /\ (lbase + i < lbase + nargs <=> i < nargs)
    BY <1>1
  <2>3. \A i \in f.np..nargs - 1 : lbase + i \in 0..lbase + given - 1 /\ lbase + i < lbase + nargs
    BY <1>1
  <2> QED
    BY <1>3, <1>4, <2>1, <2>2, <2>3 DEF ArgumentAt
<1>5. CASE f.isG
  <2> DEFINE e == lbase + nargs
  <2>1. s = SetTop(r, e) /\ e \in Nat
    BY <1>5 DEF initCallFrame
  <2>2. /\ Grows(r, s)
        /\ ~s.overflow =>
             /\ s.top = e
             /\ \A i \in 0..e - 1 : s.array[i] = IF i < r.top THEN r.array[i] ELSE LNil
    BY <2>1, SetTopProperties
  <2> HIDE DEF s, e
  <2>3. ~s.overflow => e <= r.top /\ r.top \in Nat
    BY <2>2, SoundTypes DEF Grows, e
  <2>4. ~s.overflow => \A i \in 0..e - 1 : s.array[i] = r.array[i]
    BY <2>1, <2>2, <2>3
  <2>5. /\ \A i \in 0..lbase - 1 : i \in 0..e - 1
        /\ \A i \in 0..nargs - 1 : lbase + i \in 0..e - 1
    BY DEF e
  <2>6. ~s.overflow => /\ \A i \in 0..lbase - 1 : s.array[i] = r.array[i]
                       /\ \A i \in 0..nargs - 1 : s.array[lbase + i] = r.array[lbase + i]
    BY <2>4, <2>5
  <2> QED
    BY <1>1, <1>2, <1>5, <2>2, <2>6 DEF s, e, local
<1>6. CASE ~f.isG /\ ~f.vararg
  <2>1. s = FixedWindow(m, f, lbase, given)
    BY <1>6 DEF initCallFrame, m, given
  <2>2. /\ Grows(m, s)
        /\ ~s.overflow =>
             /\ s.top = lbase + f.used
             /\ \A i \in 0..s.top - 1 : s.array[i] = IF i < lbase + f.np THEN m.array[i] ELSE LNil
    <3> DEFINE t == FixedWindow(m, f, lbase, given)
    <3>1. Sound(m) /\ given \in Nat /\ f.np <= given /\ (~m.overflow => lbase + given <= m.top) /\ ~f.isG
      BY <1>1, <1>3, <1>6
    <3>2. /\ Grows(m, t)
          /\ ~t.overflow =>
               /\ t.top = lbase + f.used
               /\ \A i \in 0..t.top - 1 : t.array[i] = IF i < lbase + f.np THEN m.array[i] ELSE LNil
      BY <3>1, FixedWindowProperties
    <3> HIDE DEF t, s
    <3>3. s = t
      BY <2>1 DEF t
    <3> QED
      BY <3>2, <3>3
  <2> HIDE DEF s
  <2>3. Grows(r, s) /\ (~s.overflow => ~m.overflow)
    BY <1>3, <2>2, GrowsTwice DEF Grows
  <2>4. ~s.overflow => /\ \A i \in 0..lbase - 1 : s.array[i] = m.array[i]
                       /\ \A i \in 0..f.np - 1 : s.array[lbase + i] = m.array[lbase + i]
    BY <1>1, <1>6, <2>2
  <2>5. ~s.overflow => /\ \A i \in 0..lbase - 1 : s.array[i] = r.array[i]
                       /\ \A i \in 0..f.np - 1 : s.array[local + i] = ArgumentAt(r, lbase, nargs, i)
    BY <1>2, <1>4, <1>6, <2>3, <2>4
  <2> QED
    BY <1>2, <1>6, <2>2, <2>3, <2>5 DEF s, local
<1>7. CASE ~f.isG /\ f.vararg
  <2>1. s = VarArgWindow(m, f, lbase, given)
    BY <1>7 DEF initCallFrame, m, given
  <2>2. /\ Grows(m, s)
        /\ ~s.overflow =>
             /\ s.top = lbase + given + f.used
             /\ \A i \in 0..lbase - 1 : s.array[i] = m.array[i]
             /\ \A i \in 0..f.np - 1 : s.array[lbase + given + i] = m.array[lbase + i]
             /\ \A i \in f.np..given - 1 : s.array[lbase + i] = m.array[lbase + i]
    <3> DEFINE t == VarArgWindow(m, f, lbase, given)
    <3>1. Sound(m) /\ given \in Nat /\ f.np <= given /\ (~m.overflow => lbase + given <= m.top) /\ ~f.isG
      BY <1>1, <1>3, <1>7
    <3>2. /\ Grows(m, t)
          /\ ~t.overflow =>
               /\ t.top = lbase + given + f.used
               /\ \A i \in 0..lbase - 1 : t.array[i] = m.array[i]
               /\ \A i \in 0..f.np - 1 : t.array[lbase + given + i] = m.array[lbase + i]
               /\ \A i \in f.np..given - 1 : t.array[lbase + i] = m.array[lbase + i]
      BY <3>1, VarArgWindowProperties
    <3> HIDE DEF t, s
    <3>3. s = t
      BY <2>1 DEF t
    <3> QED
      BY <3>2, <3>3
  <2> HIDE DEF s
  <2>3. Grows(r, s) /\ (~s.overflow => ~m.overflow)
    BY <1>3, <2>2, GrowsTwice DEF Grows
  <2>4. \A i \in f.np..nargs - 1 : i \in f.np..given - 1
    BY <1>1
  <2>5. ~s.overflow => /\ s.top = local + f.used
                       /\ \A i \in 0..lbase - 1 : s.array[i] = r.array[i]
                       /\ \A i \in 0..f.np - 1 : s.array[local + i] = ArgumentAt(r, lbase, nargs, i)
                       /\ \A i \in f.np..nargs - 1 : s.array[lbase + i] = r.array[lbase + i]
    BY <1>2, <1>4, <1>7, <2>2, <2>3, <2>4
  <2> QED
    BY <1>2, <1>7, <2>3, <2>5 DEF s, local
<1> QED
  BY <1>1, <1>5, <1>6, <1>7

-----------------------------------------------------------------------------
(* The stack of frames.                                                    *)

HostFunction == [isG |-> TRUE, vararg |-> FALSE]

Frame ==
    [f : Functions \cup {HostFunction}, base : Int, localBase : Nat, returnBase : Nat,
     nargs : Nat, want : Nat \cup {MultRet}, into : Nat, tail : BOOLEAN, live : Nat,
     open : BOOLEAN]

Mark == [sp : Nat, base : Nat]

FrameFits(a) ==
    /\ a.localBase = LocalBaseOf(a.f, a.base + 1, a.nargs)
    /\ a.f.isG => a.live = 0 /\ ~a.open
    /\ a.tail => a.f.isG

\* b was called by a: its window begins above what a has in use, and its results
\* go to where a expects them, or where a's would have gone.
Above(a, b) ==
    /\ b.f \in Functions /\ ~a.open
    /\ a.localBase + a.live <= b.base /\ b.returnBase <= b.base
    /\ IF b.tail THEN ~a.f.isG /\ a.returnBase = b.returnBase /\ a.want = b.want /\ a.into = b.into
       ELSE IF b.into # 0
       THEN ~a.f.isG /\ b.into <= a.live + 1 /\ b.want = 1 /\ a.localBase + a.live <= b.returnBase
       ELSE IF a.f.isG THEN b.returnBase = b.base
       ELSE b.returnBase = a.localBase + a.live

\* Protected calls are made by Go functions, whose callee is at the mark's base.
MarkFits(fs, m) ==
    /\ m.sp \in 1..Len(fs) - 1 /\ fs[m.sp].f.isG
    /\ fs[m.sp].localBase <= m.base /\ m.base = fs[m.sp + 1].base

Framed(fs, ms) ==
    /\ fs \in Seq(Frame) /\ fs # <<>> /\ fs[1] = Host
    /\ \A k \in 1..Len(fs) : FrameFits(fs[k])
    /\ \A k, n \in 1..Len(fs) : n = k + 1 => Above(fs[k], fs[n])
    /\ ms \in Seq(Mark)
    /\ \A i \in 1..Len(ms) : MarkFits(fs, ms[i])
    /\ \A i, j \in 1..Len(ms) : i < j => ms[i].sp < ms[j].sp

LEMMA FrameTypes ==
  ASSUME NEW a \in Frame
  PROVE  /\ a.f \in Functions \cup {HostFunction} /\ a.base \in Int /\ a.localBase \in Nat
         /\ a.returnBase \in Nat /\ a.nargs \in Nat /\ a.want \in Nat \cup {MultRet}
         /\ a.into \in Nat /\ a.tail \in BOOLEAN /\ a.live \in Nat /\ a.open \in BOOLEAN
         /\ a.f.isG \in BOOLEAN /\ a.f.vararg \in BOOLEAN
<1>1. a.f \in Functions \cup {HostFunction}
  BY DEF Frame
<1>2. a.f.isG \in BOOLEAN /\ a.f.vararg \in BOOLEAN
  <2>1. HostFunction.isG = TRUE /\ HostFunction.vararg = FALSE
    BY DEF HostFunction
  <2>2. CASE a.f = HostFunction
    BY <2>1, <2>2
  <2>3. CASE a.f \in Functions
    BY <2>3, FunctionTypes
  <2> QED
    BY <1>1, <2>2, <2>3
<1>3. /\ a.base \in Int /\ a.localBase \in Nat /\ a.returnBase \in Nat /\ a.nargs \in Nat
      /\ a.want \in Nat \cup {MultRet} /\ a.into \in Nat /\ a.tail \in BOOLEAN
      /\ a.live \in Nat /\ a.open \in BOOLEAN
  BY DEF Frame
<1> QED
  BY <1>1, <1>2, <1>3

LEMMA FramedTypes ==
  ASSUME NEW fs, NEW ms, Framed(fs, ms)
  PROVE  /\ Len(fs) \in Nat \ {0} /\ Len(ms) \in Nat
         /\ \A k \in 1..Len(fs) : fs[k] \in Frame
         /\ \A i \in 1..Len(ms) : ms[i] \in Mark /\ ms[i].sp \in Nat \ {0} /\ ms[i].base \in Nat
<1>1. fs \in Seq(Frame) /\ fs # <<>> /\ ms \in Seq(Mark)
  BY DEF Framed
<1>2. Len(fs) \in Nat \ {0} /\ Len(ms) \in Nat
  BY <1>1, EmptySeq, LenProperties
<1>3. \A i \in 1..Len(ms) : ms[i] \in Mark /\ ms[i].sp \in 1..Len(fs) - 1
  BY <1>1, ElementOfSeq DEF Framed, MarkFits
<1>4. \A i \in 1..Len(ms) : ms[i] \in Mark /\ ms[i].sp \in Nat \ {0} /\ ms[i].base \in Nat
  BY <1>2, <1>3 DEF Mark
<1> QED
  BY <1>1, <1>2, <1>4, ElementOfSeq

\* The first c frames, the last of them changed, and the marks below it.
LEMMA CutFramed ==
  ASSUME NEW fs, NEW ms, Framed(fs, ms), NEW c \in 1..Len(fs), NEW a \in Frame, FrameFits(a),
         c = 1 => a = Host, c # 1 => Above(fs[c - 1], a), a.base = fs[c].base,
         NEW g \in Seq(Frame), Len(g) = c, g[c] = a, \A k \in 1..c - 1 : g[k] = fs[k],
         NEW ns \in Seq(Mark), Len(ns) <= Len(ms), \A i \in 1..Len(ns) : ns[i] = ms[i] /\ ns[i].sp < c
  PROVE  Framed(g, ns)
<1>1. /\ Len(fs) \in Nat \ {0} /\ Len(ms) \in Nat /\ Len(ns) \in Nat /\ c \in Nat \ {0} /\ c <= Len(fs)
      /\ \A i \in 1..Len(ns) : i \in 1..Len(ms)
  BY FramedTypes, LenProperties
<1>2. g # <<>>
  BY <1>1, EmptySeq
<1>3. g[1] = Host
  BY <1>1 DEF Framed
<1>4. \A k \in 1..Len(g) : FrameFits(g[k])
  BY <1>1 DEF Framed
<1>5. ASSUME NEW k \in 1..Len(g), NEW n \in 1..Len(g), n = k + 1
      PROVE  Above(g[k], g[n])
  <2>1. k \in 1..c - 1 /\ g[k] = fs[k] /\ k \in 1..Len(fs) /\ n \in 1..Len(fs) /\ n # 1 /\ n - 1 = k
    BY <1>1, <1>5
  <2>2. CASE n = c
    BY <1>5, <2>1, <2>2
  <2>3. CASE n # c
    BY <1>5, <2>1, <2>3 DEF Framed
  <2> QED
    BY <2>2, <2>3
<1>6. ASSUME NEW i \in 1..Len(ns)
      PROVE  MarkFits(g, ns[i])
  <2>1. MarkFits(fs, ns[i]) /\ ns[i].sp < c /\ ns[i].sp \in Nat \ {0}
    BY <1>1, FramedTypes DEF Framed
  <2> DEFINE p == ns[i].sp
  <2>2. p \in 1..Len(g) - 1 /\ p \in 1..c - 1 /\ g[p] = fs[p] /\ p + 1 \in 1..c
    BY <1>1, <2>1
  <2>3. g[p + 1].base = fs[p + 1].base
    <3>1. CASE p + 1 = c
      BY <3>1
    <3>2. CASE p + 1 # c
      BY <1>1, <2>2, <3>2
    <3> QED
      BY <3>1, <3>2
  <2> HIDE DEF p
  <2> QED
    BY <2>1, <2>2, <2>3 DEF MarkFits, p
<1>7. \A i, j \in 1..Len(ns) : i < j => ns[i].sp < ns[j].sp
  BY <1>1 DEF Framed
<1> QED
  BY <1>2, <1>3, <1>4, <1>5, <1>6, <1>7 DEF Framed

\* A call, which may be protected.
LEMMA PushFramed ==
  ASSUME NEW fs, NEW ms, Framed(fs, ms), NEW a \in Frame, FrameFits(a), Above(fs[Len(fs)], a)
  PROVE  Framed(Append(fs, a), ms)
<1> DEFINE g == Append(fs, a)
           c == Len(fs)
<1>1. fs \in Seq(Frame) /\ c \in Nat \ {0} /\ Len(ms) \in Nat
  BY FramedTypes DEF Framed
<1>2. g \in Seq(Frame) /\ Len(g) = c + 1 /\ g[c + 1] = a /\ \A k \in 1..c : g[k] = fs[k]
  BY <1>1, AppendProperties
<1> HIDE DEF g
<1>3. g # <<>>
  BY <1>1, <1>2, EmptySeq
<1>4. g[1] = Host /\ \A k \in 1..Len(g) : FrameFits(g[k])
  BY <1>1, <1>2 DEF Framed
<1>5. ASSUME NEW k \in 1..Len(g), NEW n \in 1..Len(g), n = k + 1
      PROVE  Above(g[k], g[n])
  <2>1. CASE n = c + 1
    BY <1>1, <1>2, <1>5, <2>1
  <2>2. CASE n # c + 1
    BY <1>1, <1>2, <1>5, <2>2 DEF Framed
  <2> QED
    BY <2>1, <2>2
<1>6. ASSUME NEW i \in 1..Len(ms)
      PROVE  MarkFits(g, ms[i])
  <2> DEFINE p == ms[i].sp
  <2>1. MarkFits(fs, ms[i]) /\ p \in 1..c - 1
    BY DEF Framed, MarkFits
  <2> HIDE DEF p
  <2>2. p \in 1..Len(g) - 1 /\ p \in 1..c /\ p + 1 \in 1..c
    BY <1>1, <1>2, <2>1
  <2>3. g[p] = fs[p] /\ g[p + 1] = fs[p + 1]
    BY <1>2, <2>2
  <2> QED
    BY <2>1, <2>2, <2>3 DEF MarkFits, p
<1>7. /\ \A i, j \in 1..Len(ms) : i < j => ms[i].sp < ms[j].sp
      /\ ms \in Seq(Mark)
  BY DEF Framed
<1>8. Framed(g, ms)
  BY <1>2, <1>3, <1>4, <1>5, <1>6, <1>7 DEF Framed
<1> QED
  BY <1>8 DEF g

LEMMA MarkFramed ==
  ASSUME NEW fs, NEW ms, Framed(fs, ms), NEW m \in Mark, m.sp = Len(fs) - 1, MarkFits(fs, m),
         \A i \in 1..Len(ms) : ms[i].sp < m.sp
  PROVE  Framed(fs, Append(ms, m))
<1> DEFINE ns == Append(ms, m)
           c == Len(ms)
<1>1. ms \in Seq(Mark) /\ c \in Nat
  BY FramedTypes DEF Framed
<1>2. ns \in Seq(Mark) /\ Len(ns) = c + 1 /\ ns[c + 1] = m /\ \A i \in 1..c : ns[i] = ms[i]
  BY <1>1, AppendProperties
<1> HIDE DEF ns
<1>3. \A i \in 1..Len(ns) : i = c + 1 \/ i \in 1..c
  BY <1>1, <1>2
<1>4. \A i \in 1..Len(ns) : MarkFits(fs, ns[i])
  BY <1>2, <1>3 DEF Framed
<1>5. \A i, j \in 1..Len(ns) : i < j => ns[i].sp < ns[j].sp
  <2> SUFFICES ASSUME NEW i \in 1..Len(ns), NEW j \in 1..Len(ns), i < j
               PROVE  ns[i].sp < ns[j].sp
    OBVIOUS
  <2>1. i \in 1..c /\ ns[i] = ms[i]
    BY <1>1, <1>2
  <2>2. CASE j = c + 1
    BY <1>2, <2>1, <2>2
  <2>3. CASE j \in 1..c
    BY <1>2, <2>1, <2>3 DEF Framed
  <2> QED
    BY <1>3, <2>2, <2>3
<1>6. Framed(fs, ns)
  BY <1>2, <1>4, <1>5 DEF Framed
<1> QED
  BY <1>6 DEF ns

-----------------------------------------------------------------------------
(* The invariant: the window of the current frame, and with it those of    *)
(* all frames, lies below top.                                             *)

Covered(fs, top) == fs[Len(fs)].localBase + fs[Len(fs)].live <= top

IInv == Sound(rg) /\ ~rg.overflow /\ Framed(frames, marks) /\ Covered(frames, rg.top)

LEMMA RaisedProperties ==
  ASSUME NEW r, Sound(r)
  PROVE  LET s == Raised(r)
         IN  /\ Sound(s) /\ ~s.overflow /\ r.size <= s.size /\ s.top = r.top + 1
             /\ \A i \in 0..r.top - 1 : s.array[i] = r.array[i]
<1> DEFINE q == IF IsFull(r) THEN forceResize(r, r.top + 1) ELSE r
           p == [q EXCEPT !.overflow = FALSE]
           s == Raised(r)
<1>1. r.top \in Nat /\ r.size \in Nat /\ r.top <= r.size /\ r.top + 1 \in Nat
  BY SoundTypes
<1>2. s = Push(p, LNil)
  BY DEF Raised
<1>3. /\ Sound(q) /\ r.size <= q.size /\ q.top = r.top /\ r.top + 1 <= q.size
      /\ \A i \in 0..r.top - 1 : q.array[i] = r.array[i]
  <2>1. CASE IsFull(r)
    <3>1. r.top = r.size
      BY <1>1, <2>1 DEF IsFull
    <3>2. /\ Sound(forceResize(r, r.top + 1)) /\ forceResize(r, r.top + 1).size = r.top + 1
          /\ forceResize(r, r.top + 1).top = r.top
          /\ \A i \in 0..r.top - 1 : forceResize(r, r.top + 1).array[i] = r.array[i]
      BY <1>1, ForceResizeProperties
    <3> QED
      BY <1>1, <2>1, <3>1, <3>2
  <2>2. CASE ~IsFull(r)
    BY <1>1, <2>2 DEF IsFull
  <2> QED
    BY <2>1, <2>2
<1> HIDE DEF q
<1>4. p.size = q.size /\ p.top = q.top /\ p.array = q.array /\ p.overflow = FALSE /\ p \in Registries
  BY <1>3 DEF Sound, Registries
<1> HIDE DEF p, s
<1>5. Sound(p)
  BY <1>3, <1>4 DEF Sound
<1>6. LNil \in LuaValues
  BY LuaValuesStored
<1>7. /\ Grows(p, s) /\ s.overflow = p.overflow /\ s.top = p.top + 1
      /\ \A j \in 0..s.top - 1 : s.array[j] = IF j = p.top THEN LNil ELSE p.array[j]
  <2>1. p.top + 1 <= p.size
    BY <1>3, <1>4
  <2> QED
    BY <1>2, <1>4, <1>5, <1>6, <2>1, PushProperties
<1>8. /\ Sound(s) /\ ~s.overflow /\ r.size <= s.size /\ s.top = r.top + 1
  BY <1>1, <1>3, <1>4, <1>7, SoundTypes DEF Grows
<1>9. ASSUME NEW i \in 0..r.top - 1
      PROVE  s.array[i] = r.array[i]
  <2>1. s.top - 1 = r.top /\ p.top = r.top /\ i # r.top /\ i \in 0..r.top
    BY <1>1, <1>3, <1>4, <1>8
  <2>2. s.array[i] = p.array[i]
    BY <1>7, <2>1
  <2> QED
    BY <1>3, <1>4, <2>2
<1> QED
  BY <1>8, <1>9 DEF s

\* A window lies above the function it belongs to.
LEMMA WindowAboveBase ==
  ASSUME NEW a \in Frame, FrameFits(a)
  PROVE  a.base + 1 <= a.localBase
<1>1. a.base \in Int /\ a.nargs \in Nat /\ a.f \in Functions \cup {HostFunction}
  BY FrameTypes
<1>2. a.localBase = LocalBaseOf(a.f, a.base + 1, a.nargs)
  BY DEF FrameFits
<1>3. CASE ~a.f.vararg
  BY <1>1, <1>2, <1>3 DEF LocalBaseOf
<1>4. CASE a.f.vararg
  <2>1. a.f.np \in Nat
    BY <1>1, <1>4, FunctionTypes DEF HostFunction
  <2>2. LargerOf(a.nargs, a.f.np) \in Nat
    BY <1>1, <2>1, LargerProperties
  <2>3. a.localBase = a.base + 1 + LargerOf(a.nargs, a.f.np)
    BY <1>2, <1>4 DEF LocalBaseOf
  <2> QED
    BY <1>1, <2>2, <2>3
<1> QED
  BY <1>3, <1>4

\* What holds of the last window holds of those below it.
LEMMA AllCovered ==
  ASSUME NEW fs, NEW ms, Framed(fs, ms), NEW top \in Nat, Covered(fs, top)
  PROVE  \A k \in 1..Len(fs) :
           fs[k].base + 1 <= fs[k].localBase /\ fs[k].localBase + fs[k].live <= top
<1> DEFINE c == Len(fs)
           Good(k) == fs[k].localBase + fs[k].live <= top
           T == {d \in 0..c - 1 : ~Good(c - d)}
<1>1. c \in Nat \ {0} /\ \A k \in 1..c : fs[k] \in Frame /\ FrameFits(fs[k])
  BY FramedTypes DEF Framed
<1>2. \A k \in 1..c : fs[k].base + 1 <= fs[k].localBase
  BY <1>1, WindowAboveBase
<1>3. \A k \in 1..c : fs[k].base \in Int /\ fs[k].localBase \in Nat /\ fs[k].live \in Nat
  BY <1>1, FrameTypes
<1>4. Good(c)
  BY DEF Covered
<1>5. ASSUME NEW k \in 1..c, k # c, Good(k + 1)
      PROVE  Good(k)
  <2>1. k + 1 \in 1..c /\ Above(fs[k], fs[k + 1])
    BY <1>1, <1>5 DEF Framed
  <2>2. fs[k].localBase + fs[k].live <= fs[k + 1].base
    BY <2>1 DEF Above
  <2>3. /\ fs[k + 1].base + 1 <= fs[k + 1].localBase
        /\ fs[k + 1].localBase + fs[k + 1].live <= top
    BY <1>2, <1>5, <2>1
  <2>4. /\ fs[k].localBase \in Nat /\ fs[k].live \in Nat
        /\ fs[k + 1].localBase \in Nat /\ fs[k + 1].live \in Nat /\ fs[k + 1].base \in Int
    BY <1>3, <2>1
  <2> DEFINE l == fs[k].localBase
             n == fs[k].live
             b == fs[k + 1].base
             l2 == fs[k + 1].localBase
             n2 == fs[k + 1].live
  <2>5. /\ l \in Nat /\ n \in Nat /\ l2 \in Nat /\ n2 \in Nat /\ b \in Int /\ l + n <= b
        /\ b + 1 <= l2 /\ l2 + n2 <= top
    BY <2>2, <2>3, <2>4
  <2> HIDE DEF l, n, b, l2, n2
  <2>6. l + n <= top
    BY <2>5
  <2> QED
    BY <2>6 DEF l, n
<1> HIDE DEF Good
<1>6. T = {}
  <2> SUFFICES ASSUME T # {}
               PROVE  FALSE
    OBVIOUS
  <2>1. T \subseteq Nat
    BY <1>1
  <2>2. PICK d \in T : \A y \in T : d <= y
    BY <2>1, SmallestExists, Zenon
  <2>3. d \in 0..c - 1 /\ ~Good(c - d)
    BY <2>2
  <2>4. d # 0
    BY <1>1, <1>4, <2>3
  <2> DEFINE k == c - d
  <2>5. k \in 1..c /\ k # c /\ c - (d - 1) = k + 1 /\ d - 1 \in 0..c - 1
    BY <1>1, <2>3, <2>4
  <2>6. Good(k + 1)
    <3>1. d - 1 \notin T
      BY <2>2, <2>3, <2>4
    <3> QED
      BY <2>5, <3>1
  <2> QED
    BY <1>5, <2>3, <2>5, <2>6
<1>7. ASSUME NEW k \in 1..c
      PROVE  Good(k)
  <2>1. c - k \in 0..c - 1 /\ c - (c - k) = k
    BY <1>1
  <2> QED
    BY <1>6, <2>1
<1> QED
  BY <1>2, <1>7 DEF Good

\* The frame of a Go function that catches an error is the current one again.
LEMMA RecoversInv ==
  ASSUME IInv, NEW r, Sound(r), ~r.overflow, rg.size <= r.size, Recovers(r)
  PROVE  IInv'
<1> DEFINE c == Len(marks)
           m == marks[c]
           ns == Front(marks)
           g == SubSeq(frames, 1, m.sp)
           s == SetTop(r, m.base)
<1>1. marks # <<>> /\ Framed(frames, marks) /\ marks \in Seq(Mark) /\ frames \in Seq(Frame)
  BY DEF IInv, Recovers, Framed
<1>2. /\ rg' = s /\ frames' = g /\ marks' = ns
  BY DEF Recovers, Last
<1>3. /\ Len(frames) \in Nat \ {0} /\ c \in Nat \ {0} /\ c \in 1..c
      /\ m.sp \in Nat \ {0} /\ m.base \in Nat /\ MarkFits(frames, m)
  <2>1. c \in Nat \ {0} /\ c \in 1..c
    BY <1>1, EmptySeq, LenProperties
  <2> QED
    BY <1>1, <2>1, FramedTypes DEF Framed
<1>4. ns \in Seq(Mark) /\ Len(ns) = c - 1 /\ \A i \in 1..c - 1 : ns[i] = marks[i]
  <2>1. c - 1 \in 0..Len(marks) /\ ns = SubSeq(marks, 1, c - 1)
    BY <1>3 DEF Front
  <2> QED
    BY <1>1, <2>1, PrefixProperties
<1>5. m.sp \in 1..Len(frames) /\ m.sp + 1 \in 1..Len(frames) /\ m.sp + 1 # 1 /\ m.sp + 1 - 1 = m.sp
  BY <1>3 DEF MarkFits
<1>6. g \in Seq(Frame) /\ Len(g) = m.sp /\ \A i \in 1..m.sp : g[i] = frames[i]
  <2>1. m.sp \in 0..Len(frames)
    BY <1>3, <1>5
  <2> QED
    BY <1>1, <2>1, PrefixProperties
<1>7. \A i \in 1..Len(ns) : ns[i] = marks[i] /\ ns[i].sp < m.sp
  BY <1>1, <1>3, <1>4 DEF Framed
<1> DEFINE a == frames[m.sp]
<1>8. a \in Frame /\ FrameFits(a) /\ (m.sp = 1 => a = Host) /\ (m.sp # 1 => Above(frames[m.sp - 1], a))
  <2>1. m.sp # 1 => m.sp - 1 \in 1..Len(frames) /\ m.sp = m.sp - 1 + 1
    BY <1>3, <1>5
  <2> QED
    BY <1>1, <1>5, <2>1, FramedTypes DEF Framed
<1>9. m.sp \in 1..m.sp /\ \A k \in 1..m.sp - 1 : k \in 1..m.sp
  BY <1>3
<1>10. Framed(g, ns)
  <2> HIDE DEF g, ns, m
  <2>1. g[m.sp] = a /\ \A k \in 1..m.sp - 1 : g[k] = frames[k]
    BY <1>6, <1>9
  <2>2. Len(ns) <= Len(marks)
    BY <1>3, <1>4
  <2> HIDE DEF c, a
  <2>3. a.base = frames[m.sp].base
    BY DEF a
  <2> QED
    BY <1>1, <1>4, <1>5, <1>6, <1>7, <1>8, <2>1, <2>2, <2>3, CutFramed
<1>11. m.base <= rg.top
  <2>1. rg.top \in Nat /\ Covered(frames, rg.top)
    BY SoundTypes DEF IInv
  <2> DEFINE k == m.sp + 1
  <2>2. k \in 1..Len(frames) /\ m.base = frames[k].base
    BY <1>3, <1>5 DEF MarkFits
  <2>3. frames[k].base \in Int /\ frames[k].localBase \in Nat /\ frames[k].live \in Nat
    BY <1>1, <2>2, FramedTypes, FrameTypes
  <2>4. frames[k].base + 1 <= frames[k].localBase /\ frames[k].localBase + frames[k].live <= rg.top
    BY <1>1, <2>1, <2>2, AllCovered
  <2> HIDE DEF k, m
  <2> QED
    BY <2>1, <2>2, <2>3, <2>4
<1>12. Sound(s) /\ ~s.overflow /\ s.top = m.base
  <2>1. m.base <= r.size
    BY <1>3, <1>11, SoundTypes DEF IInv
  <2>2. m.base \in Nat
    BY <1>3
  <2> HIDE DEF m
  <2> DEFINE n == m.base
             t == SetTop(r, n)
  <2> HIDE DEF n
  <2>3. Grows(r, t) /\ (n <= r.size => t.overflow = r.overflow) /\ (~t.overflow => t.top = n)
    BY <2>2, SetTopProperties DEF n
  <2>4. Sound(t) /\ ~t.overflow /\ t.top = n
    BY <2>1, <2>3 DEF Grows, n
  <2> QED
    BY <2>4 DEF n
<1>13. Covered(g, s.top)
  <2>1. a.live = 0 /\ a.localBase <= m.base /\ a.localBase \in Nat
    BY <1>3, <1>8, FrameTypes DEF MarkFits, FrameFits
  <2> QED
    BY <1>3, <1>6, <1>9, <1>12, <2>1 DEF Covered
<1> QED
  BY <1>2, <1>10, <1>12, <1>13 DEF IInv

-----------------------------------------------------------------------------
(* How a step ends, and what is known of the current frame before it.      *)

LEMMA EndsInv ==
  ASSUME IInv, NEW r, Grows(rg, r), NEW fs, NEW ms,
         ~r.overflow => Framed(fs, ms) /\ Covered(fs, r.top),
         Ends(r, fs, ms)
  PROVE  IInv'
<1>1. Sound(r) /\ rg.size <= r.size /\ rg.size \in Nat
  BY SoundTypes DEF Grows, IInv
<1>2. CASE r.overflow
  <2>1. Recovers(Raised(r))
    BY <1>2 DEF Ends
  <2>2. Sound(Raised(r)) /\ ~Raised(r).overflow /\ r.size <= Raised(r).size
    BY <1>1, RaisedProperties
  <2>3. rg.size <= Raised(r).size
    <3>1. r.size \in Nat /\ Raised(r).size \in Nat
      BY <1>1, <2>2, SoundTypes
    <3> HIDE DEF IInv
    <3> QED
      BY <1>1, <2>2, <3>1
  <2> QED
    BY <2>1, <2>2, <2>3, RecoversInv
<1>3. CASE ~r.overflow
  <2>1. rg' = r /\ frames' = fs /\ marks' = ms
    BY <1>3 DEF Ends
  <2> QED
    BY <1>1, <1>3, <2>1 DEF IInv
<1> QED
  BY <1>2, <1>3

LEMMA HostProperties ==
  /\ Host.f = HostFunction /\ Host.base = -1 /\ Host.localBase = 0 /\ Host.returnBase = 0
  /\ Host.nargs = 0 /\ Host.want = 0 /\ Host.into = 0 /\ Host.tail = FALSE
  /\ Host.live = 0 /\ Host.open = FALSE /\ Host.f.isG = TRUE /\ Host.f.vararg = FALSE
BY DEF Host, callFrame, HostFunction, LocalBaseOf

LEMMA Current ==
  ASSUME IInv
  PROVE  /\ Sound(rg) /\ Framed(frames, marks) /\ rg.top \in Nat
         /\ Len(frames) \in Nat \ {0} /\ Len(marks) \in Nat
         /\ cf = frames[Len(frames)] /\ cf \in Frame /\ FrameFits(cf)
         /\ cf.base \in Int /\ cf.localBase \in Nat /\ cf.live \in Nat /\ cf.returnBase \in Nat
         /\ cf.base + 1 <= cf.localBase /\ cf.localBase + cf.live <= rg.top
         /\ cf.f.isG \in BOOLEAN /\ cf.open \in BOOLEAN /\ cf.f.vararg \in BOOLEAN
         /\ Live \in Nat /\ cf.localBase + Live <= rg.top
         /\ cf.f.isG \/ cf.open => cf.localBase + Live = rg.top
         /\ ~cf.f.isG /\ ~cf.open => Live = cf.live
         /\ cf.f.isG => cf.live = 0 /\ ~cf.open
<1>1. /\ Sound(rg) /\ Framed(frames, marks) /\ rg.top \in Nat
      /\ Len(frames) \in Nat \ {0} /\ Len(marks) \in Nat
  BY SoundTypes, FramedTypes DEF IInv
<1>2. Len(frames) \in 1..Len(frames) /\ cf = frames[Len(frames)]
  BY <1>1 DEF cf
<1>3. cf \in Frame /\ FrameFits(cf)
  BY <1>1, <1>2, FramedTypes DEF Framed
<1>4. /\ cf.base \in Int /\ cf.localBase \in Nat /\ cf.live \in Nat /\ cf.returnBase \in Nat
      /\ cf.f.isG \in BOOLEAN /\ cf.open \in BOOLEAN /\ cf.f.vararg \in BOOLEAN
  BY <1>3, FrameTypes
<1>5. cf.base + 1 <= cf.localBase /\ cf.localBase + cf.live <= rg.top
  BY <1>2, <1>3, WindowAboveBase DEF IInv, Covered
<1>6. cf.f.isG => cf.live = 0 /\ ~cf.open
  BY <1>3 DEF FrameFits
<1>7. /\ Live \in Nat /\ cf.localBase + Live <= rg.top
      /\ cf.f.isG \/ cf.open => cf.localBase + Live = rg.top
      /\ ~cf.f.isG /\ ~cf.open => Live = cf.live
  <2> DEFINE l == cf.localBase
             n == cf.live
             t == rg.top
  <2>1. l \in Nat /\ n \in Nat /\ t \in Nat /\ l + n <= t
    BY <1>1, <1>4, <1>5
  <2>2. Live = IF cf.f.isG \/ cf.open THEN t - l ELSE n
    BY DEF Live
  <2> HIDE DEF l, n, t
  <2>3. Live \in Nat /\ l + Live <= t /\ (cf.f.isG \/ cf.open => l + Live = t)
    BY <2>1, <2>2
  <2> QED
    BY <2>2, <2>3 DEF l, t, n
<1> QED
  BY <1>1, <1>2, <1>3, <1>4, <1>5, <1>6, <1>7

\* A Lua function was called by another function, and is the callee of no tail call.
LEMMA LuaCurrent ==
  ASSUME IInv, ~cf.f.isG
  PROVE  /\ Len(frames) # 1 /\ Len(frames) - 1 \in 1..Len(frames) - 1
         /\ Above(frames[Len(frames) - 1], cf)
         /\ cf.f \in Functions /\ cf.base \in Nat /\ cf.returnBase <= cf.base /\ cf.tail = FALSE
         /\ cf.nargs \in Nat /\ cf.want \in Nat \cup {MultRet} /\ cf.into \in Nat
<1>1. /\ Framed(frames, marks) /\ Len(frames) \in Nat \ {0} /\ cf = frames[Len(frames)]
      /\ cf \in Frame /\ FrameFits(cf)
  BY Current
<1>2. Len(frames) # 1
  <2>1. frames[1] = Host
    BY <1>1 DEF Framed
  <2>2. Host.f.isG = TRUE
    BY HostProperties
  <2>3. Len(frames) = 1 => cf = Host
    BY <1>1, <2>1
  <2> QED
    BY <2>2, <2>3
<1>3. Len(frames) - 1 \in 1..Len(frames) - 1 /\ Len(frames) - 1 \in 1..Len(frames)
  <2> DEFINE n == Len(frames)
  <2>1. n \in Nat \ {0} /\ n # 1
    BY <1>1, <1>2
  <2> HIDE DEF n
  <2>2. n - 1 \in 1..n - 1 /\ n - 1 \in 1..n
    BY <2>1
  <2> QED
    BY <2>2 DEF n
<1> DEFINE a == frames[Len(frames) - 1]
<1>4. Above(a, cf) /\ a \in Frame
  BY <1>1, <1>3, FramedTypes DEF Framed
<1>5. a.localBase \in Nat /\ a.live \in Nat /\ cf.base \in Int /\ cf.tail \in BOOLEAN
  BY <1>1, <1>4, FrameTypes
<1>6. a.localBase + a.live <= cf.base /\ cf.returnBase <= cf.base /\ cf.f \in Functions
  BY <1>4 DEF Above
<1>7. cf.base \in Nat
  <2> HIDE DEF a
  <2>1. a.localBase + a.live \in Nat
    BY <1>5
  <2> QED
    BY <1>5, <1>6, <2>1
<1>8. cf.tail = FALSE
  BY <1>1, <1>5 DEF FrameFits
<1>9. cf.nargs \in Nat /\ cf.want \in Nat \cup {MultRet} /\ cf.into \in Nat
  BY <1>1, FrameTypes
<1> QED
  BY <1>2, <1>3, <1>4, <1>6, <1>7, <1>8, <1>9

LEMMA WithLiveProperties ==
  ASSUME IInv, NEW n \in Nat, NEW open \in BOOLEAN
  PROVE  LET fs == WithLive(n, open)
             a == fs[Len(fs)]
         IN  /\ Framed(fs, marks) /\ Len(fs) = Len(frames)
             /\ \A k \in 1..Len(frames) - 1 : fs[k] = frames[k]
             /\ a.f = cf.f /\ a.localBase = cf.localBase /\ a.returnBase = cf.returnBase
             /\ a.want = cf.want /\ a.into = cf.into
             /\ a \in Frame /\ a.base = cf.base /\ a.nargs = cf.nargs /\ a.tail = cf.tail
             /\ a.live = (IF cf.f.isG THEN 0 ELSE n) /\ (a.open <=> ~cf.f.isG /\ open)
<1> DEFINE c == Len(frames)
           fs == WithLive(n, open)
           a == IF cf.f.isG THEN cf ELSE [cf EXCEPT !.live = n, !.open = open]
<1>1. /\ Framed(frames, marks) /\ c \in Nat \ {0} /\ Len(marks) \in Nat /\ cf = frames[c] /\ cf \in Frame
      /\ FrameFits(cf) /\ cf.f.isG \in BOOLEAN /\ (cf.f.isG => cf.live = 0 /\ ~cf.open)
      /\ frames \in Seq(Frame) /\ marks \in Seq(Mark)
  BY Current DEF Framed
<1>2. CASE cf.f.isG
  <2>1. fs = frames
    BY <1>2 DEF WithLive
  <2>2. fs[Len(fs)] = cf /\ Len(fs) = Len(frames) /\ Framed(fs, marks)
    BY <1>1, <2>1
  <2>3. \A k \in 1..Len(frames) - 1 : fs[k] = frames[k]
    BY <2>1
  <2> HIDE DEF fs
  <2> QED
    BY <1>1, <1>2, <2>2, <2>3 DEF fs
<1>3. CASE ~cf.f.isG
  <2>1. /\ c # 1 /\ c - 1 \in 1..c - 1 /\ Above(frames[c - 1], cf)
    BY <1>3, LuaCurrent
  <2>2. fs = [frames EXCEPT ![c] = [@ EXCEPT !.live = n, !.open = open]]
    BY <1>1, <1>3 DEF WithLive
  <2>3. /\ fs \in Seq(Frame) /\ Len(fs) = c /\ fs[c] = a /\ \A k \in 1..c - 1 : fs[k] = frames[k]
        /\ a \in Frame
    <3>1. a = [cf EXCEPT !.live = n, !.open = open]
      BY <1>3
    <3>2. a \in Frame
      BY <1>1, <3>1 DEF Frame
    <3>3. fs = [frames EXCEPT ![c] = a]
      BY <1>1, <2>2, <3>1
    <3> HIDE DEF a, fs
    <3>4. c \in 1..c
      BY <1>1
    <3>5. fs \in Seq(Frame) /\ Len(fs) = c /\ DOMAIN frames = 1..c
      BY <1>1, <3>2, <3>3, <3>4, ExceptSeq
    <3>6. fs[c] = a /\ \A k \in 1..c - 1 : fs[k] = frames[k]
      BY <1>1, <3>3, <3>4, <3>5
    <3> QED
      BY <3>2, <3>5, <3>6
  <2>4. /\ a.f = cf.f /\ a.base = cf.base /\ a.localBase = cf.localBase /\ a.nargs = cf.nargs
        /\ a.returnBase = cf.returnBase /\ a.want = cf.want /\ a.into = cf.into /\ a.tail = cf.tail
        /\ a.live = n /\ a.open = open
    BY <1>1, <1>3 DEF Frame
  <2> HIDE DEF fs, a
  <2>5. FrameFits(a)
    BY <1>1, <1>3, <2>4 DEF FrameFits
  <2>6. Above(frames[c - 1], a)
    BY <2>1, <2>4 DEF Above
  <2>7. \A i \in 1..Len(marks) : marks[i] = marks[i] /\ marks[i].sp < c
    <3>1. \A i \in 1..Len(marks) : marks[i].sp \in 1..c - 1
      BY <1>1 DEF Framed, MarkFits
    <3> QED
      BY <1>1, <3>1
  <2>8. c \in 1..Len(frames) /\ a.base = frames[c].base
    BY <1>1, <2>4
  <2>9. Framed(fs, marks)
    <3>1. Len(marks) <= Len(marks)
      BY <1>1
    <3> HIDE DEF c
    <3> QED
      BY <1>1, <2>1, <2>3, <2>5, <2>6, <2>7, <2>8, <3>1, CutFramed
  <2> QED
    BY <1>3, <2>3, <2>4, <2>9 DEF fs
<1> QED
  BY <1>1, <1>2, <1>3

-----------------------------------------------------------------------------
(* Calls.                                                                  *)

IsCallFrame(a, f, base, returnBase, nargs, want, into, tail) ==
    /\ a \in Frame /\ FrameFits(a)
    /\ a.f = f /\ a.base = base /\ a.localBase = LocalBaseOf(f, base + 1, nargs)
    /\ a.returnBase = returnBase /\ a.nargs = (IF f.vararg THEN nargs ELSE 0)
    /\ a.want = want /\ a.into = into /\ a.tail = tail
    /\ a.live = (IF f.isG THEN 0 ELSE f.np) /\ a.open = FALSE
    /\ a.localBase + a.live <= IF f.isG THEN base + 1 + nargs ELSE a.localBase + f.used

LEMMA CallFrameProperties ==
  ASSUME NEW f \in Functions, NEW base \in Nat, NEW returnBase \in Nat, NEW nargs \in Nat,
         NEW want \in Nat \cup {MultRet}, NEW into \in Nat, NEW tail \in BOOLEAN, tail => f.isG
  PROVE  IsCallFrame(callFrame(f, base, returnBase, nargs, want, into, tail),
                     f, base, returnBase, nargs, want, into, tail)
<1> DEFINE a == callFrame(f, base, returnBase, nargs, want, into, tail)
<1>1. /\ a.f = f /\ a.base = base /\ a.localBase = LocalBaseOf(f, base + 1, nargs)
      /\ a.returnBase = returnBase /\ a.nargs = (IF f.vararg THEN nargs ELSE 0)
      /\ a.want = want /\ a.into = into /\ a.tail = tail
      /\ a.live = (IF f.isG THEN 0 ELSE f.np) /\ a.open = FALSE
  BY DEF callFrame
<1>2. /\ f.isG \in BOOLEAN /\ f.vararg \in BOOLEAN /\ f.np \in Nat /\ f.used \in Nat
      /\ (f.isG => ~f.vararg) /\ (~f.isG => f.np < f.used)
  BY FunctionTypes
<1> DEFINE l == LocalBaseOf(f, base + 1, nargs)
<1>3. l \in Nat /\ (~f.vararg => l = base + 1)
  <2>1. LargerOf(nargs, f.np) \in Nat
    BY <1>2, LargerProperties
  <2> QED
    BY <1>2, <2>1 DEF LocalBaseOf
<1>4. a \in Frame
  <2> DEFINE n == IF f.vararg THEN nargs ELSE 0
             p == IF f.isG THEN 0 ELSE f.np
  <2>1. a = [f |-> f, base |-> base, localBase |-> l, returnBase |-> returnBase, nargs |-> n,
             want |-> want, into |-> into, tail |-> tail, live |-> p, open |-> FALSE]
    BY DEF callFrame
  <2>2. n \in Nat /\ p \in Nat /\ base \in Int
    BY <1>2
  <2> HIDE DEF a, l, n, p
  <2> QED
    BY <1>3, <2>1, <2>2 DEF Frame
<1> HIDE DEF a
<1>5. FrameFits(a)
  <2>1. LocalBaseOf(a.f, a.base + 1, a.nargs) = l
    <3>1. CASE f.vararg
      BY <1>1, <3>1
    <3>2. CASE ~f.vararg
      BY <1>1, <3>2 DEF LocalBaseOf
    <3> QED
      BY <3>1, <3>2
  <2> HIDE DEF l
  <2> QED
    BY <1>1, <2>1 DEF FrameFits, l
<1>6. a.localBase + a.live <= IF f.isG THEN base + 1 + nargs ELSE a.localBase + f.used
  <2>1. a.localBase = l /\ (f.isG => l = base + 1)
    BY <1>1, <1>2, <1>3
  <2> HIDE DEF l
  <2>2. CASE f.isG
    BY <1>1, <2>1, <2>2
  <2>3. CASE ~f.isG
    BY <1>1, <1>2, <1>3, <2>1, <2>3
  <2> QED
    BY <1>2, <2>2, <2>3
<1> QED
  BY <1>1, <1>4, <1>5, <1>6 DEF a, IsCallFrame

\* Where the arguments of a call of register k are before it.
FirstArgument(k, meta) == IF meta THEN Register(k) ELSE Register(k) + 1

\* A value that is called by way of __call makes room for itself among them.
LEMMA ArgumentsInPlace ==
  ASSUME IInv, NEW k \in Nat, k < Live, NEW meta \in BOOLEAN
  PROVE  LET b == Register(k)
             n == Arguments(NArgs(k), meta)
             r == WithCallee(rg, meta, b)
         IN  /\ b \in Nat /\ b = cf.localBase + k /\ b < rg.top /\ n \in Nat
             /\ FirstArgument(k, meta) + n <= rg.top
             /\ Grows(rg, r)
             /\ ~r.overflow =>
                  /\ b + 1 + n <= r.top
                  /\ \A i \in 0..b : r.array[i] = rg.array[i]
                  /\ \A i \in 0..n - 1 : r.array[b + 1 + i] = rg.array[FirstArgument(k, meta) + i]
<1> DEFINE b == Register(k)
           n == Arguments(NArgs(k), meta)
           p == FirstArgument(k, meta)
           r == WithCallee(rg, meta, b)
<1>1. /\ Sound(rg) /\ rg.top \in Nat /\ ~rg.overflow /\ cf.localBase \in Nat /\ Live \in Nat
      /\ cf.localBase + Live <= rg.top
  BY Current DEF IInv
<1>2. /\ b \in Nat /\ b = cf.localBase + k /\ b < rg.top /\ b + 1 \in 0..rg.top
  <2> DEFINE x == cf.localBase
             y == Live
             t == rg.top
  <2>1. x \in Nat /\ y \in Nat /\ t \in Nat /\ x + y <= t /\ k < y /\ b = x + k
    BY <1>1 DEF Register
  <2> HIDE DEF b, x, y, t
  <2>2. b \in Nat /\ b < t /\ b + 1 \in 0..t
    BY <2>1
  <2> QED
    BY <2>1, <2>2 DEF x, t
<1>3. n \in Nat /\ (IF meta THEN b + n <= rg.top ELSE b + 1 + n <= rg.top)
  <2> DEFINE x == cf.localBase
             y == Live
             t == rg.top
  <2>1. /\ x \in Nat /\ y \in Nat /\ t \in Nat /\ x + y <= t /\ k < y /\ b = x + k
        /\ n = IF meta THEN y - (k + 1) + 1 ELSE y - (k + 1)
    BY <1>1 DEF Register, Arguments, NArgs
  <2> HIDE DEF b, x, y, t, n
  <2>2. CASE meta
    <3>1. n \in Nat /\ b + n <= t
      BY <2>1, <2>2
    <3> QED
      BY <2>2, <3>1 DEF t
  <2>3. CASE ~meta
    <3>1. n \in Nat /\ b + 1 + n <= t
      BY <2>1, <2>3
    <3> QED
      BY <2>3, <3>1 DEF t
  <2> QED
    BY <2>2, <2>3
<1>4. CASE meta
  <2>1. Get(rg, b) \in LuaValues
    BY <1>1, <1>2, SoundTypes DEF Get
  <2> DEFINE v == Get(rg, b)
  <2>2. r = Insert(rg, v, b + 1) /\ v = rg.array[b] /\ p = b
    BY <1>4 DEF WithCallee, Get, FirstArgument
  <2> HIDE DEF r, b, v, p, n
  <2>3. /\ Grows(rg, r)
        /\ ~r.overflow =>
             /\ r.top = rg.top + 1
             /\ \A j \in 0..r.top - 1 :
                  r.array[j] = IF j < b + 1 THEN rg.array[j] ELSE IF j = b + 1 THEN v ELSE rg.array[j - 1]
    BY <1>1, <1>2, <2>1, <2>2, InsertProperties DEF v
  <2>4. ASSUME ~r.overflow
        PROVE  /\ b + 1 + n <= r.top
               /\ \A i \in 0..b : r.array[i] = rg.array[i]
               /\ \A i \in 0..n - 1 : r.array[b + 1 + i] = rg.array[p + i]
    <3>1. r.top = rg.top + 1 /\ b + 1 + n <= r.top /\ b + n <= rg.top
      BY <1>1, <1>2, <1>3, <1>4, <2>3, <2>4
    <3>2. ASSUME NEW i \in 0..n - 1
          PROVE  r.array[b + 1 + i] = rg.array[p + i]
      <4>1. /\ b + 1 + i \in 0..r.top - 1 /\ ~(b + 1 + i < b + 1) /\ b + 1 + i - 1 = b + i
            /\ (b + 1 + i = b + 1 <=> i = 0)
        BY <1>1, <1>2, <1>3, <3>1
      <4> QED
        BY <1>2, <2>2, <2>3, <2>4, <4>1
    <3>3. \A i \in 0..b : i \in 0..r.top - 1 /\ i < b + 1
      BY <1>1, <1>2, <3>1
    <3> QED
      BY <2>3, <2>4, <3>1, <3>2, <3>3
  <2>5. p + n <= rg.top
    BY <1>3, <1>4, <2>2
  <2> QED
    BY <1>2, <1>3, <2>3, <2>4, <2>5 DEF r, b, n, p
<1>5. CASE ~meta
  <2>1. r = rg /\ p = b + 1
    BY <1>5 DEF WithCallee, FirstArgument
  <2>2. Grows(rg, rg)
    BY <1>1, SoundTypes DEF Grows
  <2> QED
    BY <1>2, <1>3, <1>5, <2>1, <2>2
<1> QED
  BY <1>4, <1>5

LEMMA CalledProperties ==
  ASSUME IInv, NEW k \in Nat, k < Live, NEW f \in Functions, NEW meta \in BOOLEAN
  PROVE  LET s == Called(k, f, meta)
             n == Arguments(NArgs(k), meta)
             l == LocalBaseOf(f, Register(k) + 1, n)
         IN  /\ Register(k) \in Nat /\ Register(k) = cf.localBase + k /\ Register(k) < rg.top
             /\ n \in Nat /\ l \in Nat /\ Register(k) + 1 <= l
             /\ Grows(rg, s)
             /\ ~s.overflow =>
                  s.top = IF f.isG THEN Register(k) + 1 + n ELSE l + f.used
<1> DEFINE b == Register(k)
           n == Arguments(NArgs(k), meta)
           l == LocalBaseOf(f, b + 1, n)
           r == WithCallee(rg, meta, b)
           s == Called(k, f, meta)
<1>1. Sound(rg)
  BY Current
<1>2. b \in Nat /\ b = cf.localBase + k /\ b < rg.top
  BY ArgumentsInPlace
<1>3. n \in Nat
  BY ArgumentsInPlace
<1>4. Grows(rg, r) /\ (~r.overflow => b + 1 + n <= r.top)
  BY ArgumentsInPlace
<1> HIDE DEF r, b, n
<1>5. Sound(r)
  BY <1>4 DEF Grows
<1>6. s = initCallFrame(r, f, b + 1, n)
  BY DEF s, Called, r, b, n
<1> HIDE DEF s
<1>7. b + 1 \in Nat
  BY <1>2
<1>8. /\ Grows(r, s) /\ l \in Nat /\ b + 1 <= l
      /\ ~s.overflow => s.top = IF f.isG THEN b + 1 + n ELSE l + f.used
  <2> DEFINE e == b + 1
  <2>1. e \in Nat /\ (~r.overflow => e + n <= r.top) /\ s = initCallFrame(r, f, e, n)
    BY <1>4, <1>6, <1>7
  <2> HIDE DEF e
  <2>2. /\ Grows(r, s) /\ LocalBaseOf(f, e, n) \in Nat /\ e <= LocalBaseOf(f, e, n)
        /\ ~s.overflow => s.top = IF f.isG THEN e + n ELSE LocalBaseOf(f, e, n) + f.used
    <3>1. n \in Nat /\ e \in Nat /\ (~r.overflow => e + n <= r.top)
      BY <1>3, <2>1
    <3> DEFINE t == initCallFrame(r, f, e, n)
               z == LocalBaseOf(f, e, n)
    <3>2. /\ Grows(r, t) /\ z \in Nat /\ e <= z
          /\ ~t.overflow => t.top = IF f.isG THEN e + n ELSE z + f.used
      BY <1>5, <3>1, InitCallFrameProperties DEF IsEntry
    <3> HIDE DEF t, z
    <3>3. s = t
      BY <2>1 DEF t
    <3> QED
      BY <3>2, <3>3 DEF z
  <2> QED
    BY <2>2 DEF e
<1>9. Grows(rg, s)
  BY <1>1, <1>4, <1>8, GrowsTwice
<1> QED
  BY <1>2, <1>3, <1>8, <1>9 DEF s, b, n

-----------------------------------------------------------------------------
(* The steps of a function in its own window.                              *)

LEMMA RegisterProperties ==
  ASSUME IInv, NEW k \in Nat
  PROVE  /\ Register(k) \in Nat /\ Register(k) = cf.localBase + k /\ cf.localBase <= Register(k)
         /\ k <= Live => Register(k) <= rg.top
         /\ k < Live => Register(k) < rg.top /\ Register(k) + 1 <= rg.top
<1> DEFINE x == cf.localBase
           y == Live
           t == rg.top
<1>1. x \in Nat /\ y \in Nat /\ t \in Nat /\ x + y <= t /\ Register(k) = x + k
  BY Current DEF Register
<1> HIDE DEF x, y, t
<1>2. /\ Register(k) \in Nat /\ x <= Register(k)
      /\ k <= y => Register(k) <= t
      /\ k < y => Register(k) < t /\ Register(k) + 1 <= t
  BY <1>1
<1> QED
  BY <1>1, <1>2 DEF x, y, t

LEMMA SetRegisterInv ==
  ASSUME IInv, NEW i \in Nat, NEW v \in LuaValues, SetRegister(i, v)
  PROVE  IInv'
<1> DEFINE b == Register(i)
           r == Set(rg, b, v)
           n == LargerOf(Live, i + 1)
           fs == WithLive(n, FALSE)
<1>1. ~cf.f.isG /\ i <= Live /\ Ends(r, fs, marks)
  BY DEF SetRegister
<1>2. Sound(rg) /\ rg.top \in Nat /\ ~rg.overflow /\ Live \in Nat /\ cf.localBase \in Nat
      /\ cf.localBase + Live <= rg.top /\ i + 1 \in Nat
  BY Current DEF IInv
<1>3. b \in 0..rg.top /\ b = cf.localBase + i
  BY <1>1, <1>2, RegisterProperties
<1>4. n \in Nat /\ n \in {Live, i + 1}
  BY <1>2, LargerProperties
<1>5. LET a == fs[Len(fs)]
      IN  Framed(fs, marks) /\ a.localBase = cf.localBase /\ a.live = n
  BY <1>1, <1>4, WithLiveProperties
<1> HIDE DEF b, fs, n, r
<1>6. Grows(rg, r) /\ (~r.overflow => r.top = LargerOf(rg.top, b + 1))
  BY <1>2, <1>3, SetProperties DEF r
<1>7. ASSUME ~r.overflow
      PROVE  Covered(fs, r.top)
  <2> DEFINE x == cf.localBase
             y == Live
             t == rg.top
  <2>1. /\ x \in Nat /\ y \in Nat /\ t \in Nat /\ x + y <= t /\ b = x + i /\ n \in {y, i + 1}
        /\ r.top = LargerOf(t, b + 1)
    BY <1>2, <1>3, <1>4, <1>6, <1>7
  <2> HIDE DEF x, y, t
  <2>2. x + n <= LargerOf(t, b + 1)
    BY <2>1 DEF LargerOf
  <2> QED
    BY <1>5, <2>1, <2>2 DEF Covered, x
<1> QED
  BY <1>1, <1>5, <1>6, <1>7, EndsInv

\* The API of Go functions moves top, and leaves the frames as they are.
LEMMA APIEndsInv ==
  ASSUME IInv, cf.f.isG, NEW r, Grows(rg, r), ~r.overflow => cf.localBase <= r.top,
         Ends(r, frames, marks)
  PROVE  IInv'
<1>1. Framed(frames, marks) /\ cf.localBase \in Nat /\ cf.live = 0 /\ cf = frames[Len(frames)]
  BY Current
<1>2. ~r.overflow => Covered(frames, r.top)
  BY <1>1 DEF Covered
<1> QED
  BY <1>1, <1>2, EndsInv

LEMMA APIPushInv ==
  ASSUME IInv, NEW v \in LuaValues, APIPush(v)
  PROVE  IInv'
<1> DEFINE r == Push(rg, v)
<1>1. cf.f.isG /\ Ends(r, frames, marks)
  BY DEF APIPush
<1>2. Sound(rg) /\ rg.top \in Nat /\ cf.localBase \in Nat /\ cf.localBase <= rg.top
  <2>1. 0 <= Live /\ Live \in Nat /\ cf.localBase + Live <= rg.top
    BY Current
  <2> QED
    BY <2>1, Current
<1>3. Grows(rg, r) /\ (~r.overflow => r.top = rg.top + 1)
  BY <1>2, PushProperties
<1>4. ~r.overflow => cf.localBase <= r.top
  BY <1>2, <1>3
<1> HIDE DEF r
<1> QED
  BY <1>1, <1>3, <1>4, APIEndsInv

LEMMA APISetTopInv ==
  ASSUME IInv, NEW n \in Nat, APISetTop(n)
  PROVE  IInv'
<1> DEFINE b == Register(n)
           r == SetTop(rg, b)
<1>1. cf.f.isG /\ Ends(r, frames, marks)
  BY DEF APISetTop
<1>2. b \in Nat /\ cf.localBase <= b /\ Sound(rg)
  BY Current, RegisterProperties
<1> HIDE DEF b
<1>3. Grows(rg, r) /\ (~r.overflow => r.top = b)
  BY <1>2, SetTopProperties
<1> HIDE DEF r
<1> QED
  BY <1>1, <1>2, <1>3, APIEndsInv

LEMMA APIReplaceInv ==
  ASSUME IInv, NEW i \in Nat, NEW v \in LuaValues, APIReplace(i, v)
  PROVE  IInv'
<1> DEFINE b == Register(i)
           r == Set(rg, b, v)
<1>1. cf.f.isG /\ i < Live /\ Ends(r, frames, marks)
  BY DEF APIReplace, Serves
<1>2. b \in Nat /\ cf.localBase \in Nat /\ cf.localBase <= b /\ b < rg.top /\ Sound(rg) /\ rg.top \in Nat
  BY <1>1, Current, RegisterProperties
<1> HIDE DEF b
<1>3. b \in 0..rg.top
  BY <1>2
<1>4. Grows(rg, r) /\ (~r.overflow => r.top = LargerOf(rg.top, b + 1))
  BY <1>2, <1>3, SetProperties
<1> HIDE DEF r
<1>5. cf.localBase <= LargerOf(rg.top, b + 1)
  BY <1>2 DEF LargerOf
<1> QED
  BY <1>1, <1>4, <1>5, APIEndsInv

LEMMA APIInsertInv ==
  ASSUME IInv, NEW i \in Nat, NEW v \in LuaValues, APIInsert(i, v)
  PROVE  IInv'
<1> DEFINE b == Register(i)
           r == Insert(rg, v, b)
<1>1. cf.f.isG /\ i <= Live /\ Ends(r, frames, marks)
  BY DEF APIInsert, Serves
<1>2. b \in Nat /\ cf.localBase \in Nat /\ cf.localBase <= b /\ b <= rg.top /\ Sound(rg) /\ rg.top \in Nat
  BY <1>1, Current, RegisterProperties
<1> HIDE DEF b
<1>3. b \in 0..rg.top
  BY <1>2
<1>4. Grows(rg, r) /\ (~r.overflow => r.top = rg.top + 1)
  BY <1>2, <1>3, InsertProperties
<1> HIDE DEF r
<1>5. cf.localBase <= rg.top + 1
  BY <1>2
<1> QED
  BY <1>1, <1>4, <1>5, APIEndsInv

LEMMA APIRemoveInv ==
  ASSUME IInv, NEW i \in Nat, APIRemove(i)
  PROVE  IInv'
<1> DEFINE b == Register(i)
           t == rg.top
<1>1. cf.f.isG /\ i < Live
  BY DEF APIRemove, Serves
<1>2. /\ b \in Nat /\ cf.localBase \in Nat /\ cf.localBase <= b /\ b < t /\ Sound(rg) /\ t \in Nat
      /\ ~rg.overflow
  BY <1>1, Current, RegisterProperties DEF IInv
<1> DEFINE n == t - 1
<1>3. t # 0 /\ n \in Nat /\ cf.localBase <= n
  BY <1>2
<1>4. CASE b = n
  <2> DEFINE r == Pop(rg)
  <2>1. Ends(r, frames, marks)
    BY <1>4 DEF APIRemove
  <2>2. Grows(rg, r) /\ (~r.overflow => r.top = n)
    BY <1>2, <1>3, PopProperties
  <2> HIDE DEF r
  <2> QED
    BY <1>1, <1>3, <2>1, <2>2, APIEndsInv
<1>5. CASE b # n
  <2> DEFINE c == [j \in b..t - 2 |-> rg.array[j + 1]]
             q == Stored(rg, c, t)
             r == SetTop(q, n)
  <2>1. Ends(r, frames, marks)
    BY <1>5 DEF APIRemove
  <2>2. /\ t <= rg.size
        /\ \A j \in DOMAIN c : j \in 0..rg.size - 1 /\ c[j] \in Stores
        /\ \A j \in 0..t - 1 : IF j \in DOMAIN c THEN c[j] # Empty ELSE j < t
    <3>1. /\ rg.size \in Nat /\ t <= rg.size
          /\ \A j \in 0..t - 1 : rg.array[j] \in LuaValues
      BY <1>2, SoundTypes
    <3>2. ASSUME NEW j \in b..t - 2
          PROVE  /\ j \in 0..rg.size - 1 /\ c[j] = rg.array[j + 1] /\ j + 1 \in 0..t - 1
      <4> HIDE DEF b, t
      <4> QED
        BY <1>2, <3>1
    <3>3. ASSUME NEW j \in b..t - 2
          PROVE  c[j] \in Stores /\ c[j] # Empty
      BY <3>1, <3>2, LuaValuesStored
    <3>4. DOMAIN c = b..t - 2
      OBVIOUS
    <3> HIDE DEF c, b, t
    <3> QED
      BY <1>2, <3>1, <3>2, <3>3, <3>4
  <2> HIDE DEF b, c
  <2>3. Grows(rg, q)
    BY <1>2, <2>2, StoredProperties
  <2> HIDE DEF q, n
  <2>4. Sound(q)
    BY <2>3 DEF Grows
  <2>5. Grows(q, r) /\ (~r.overflow => r.top = n)
    BY <1>3, <2>4, SetTopProperties
  <2> HIDE DEF r
  <2>6. Grows(rg, r)
    BY <1>2, <2>3, <2>5, GrowsTwice
  <2> QED
    BY <1>1, <1>3, <2>1, <2>5, <2>6, APIEndsInv
<1> QED
  BY <1>4, <1>5

-----------------------------------------------------------------------------
(* The steps that enter a function.                                        *)

LEMMA EnteredFramed ==
  ASSUME NEW fs, NEW ms, Framed(fs, ms), NEW a \in Frame, FrameFits(a), Above(fs[Len(fs)], a),
         NEW top, a.localBase + a.live <= top
  PROVE  Framed(Append(fs, a), ms) /\ Covered(Append(fs, a), top)
<1>1. fs \in Seq(Frame) /\ Len(fs) \in Nat
  BY FramedTypes DEF Framed
<1>2. Len(Append(fs, a)) = Len(fs) + 1 /\ Append(fs, a)[Len(fs) + 1] = a
  BY <1>1, AppendProperties
<1> QED
  BY <1>2, PushFramed DEF Covered

\* The frame of a callee that lies above the registers its caller goes on with.
LEMMA PushedFramed ==
  ASSUME IInv, NEW k \in Nat, k < Live, NEW f \in Functions, NEW meta \in BOOLEAN,
         NEW want \in Nat \cup {MultRet}, ~Called(k, f, meta).overflow
  PROVE  LET fs == Pushed(k, f, meta, want)
         IN  /\ Framed(fs, marks) /\ Covered(fs, Called(k, f, meta).top)
             /\ Len(fs) = Len(frames) + 1 /\ fs[Len(frames) + 1].base = Register(k)
             /\ fs[Len(frames)].f = cf.f /\ fs[Len(frames)].localBase = cf.localBase
<1> DEFINE b == Register(k)
           n == Arguments(NArgs(k), meta)
           g == WithLive(k, FALSE)
           a == callFrame(f, b, b, n, want, 0, FALSE)
           top == Called(k, f, meta).top
           l == LocalBaseOf(f, b + 1, n)
<1>1. b \in Nat /\ n \in Nat /\ top = IF f.isG THEN b + 1 + n ELSE l + f.used
  BY CalledProperties
<1>2. b = cf.localBase + k /\ cf.localBase \in Nat /\ cf.localBase <= b
  BY Current, RegisterProperties
<1>3. /\ Framed(g, marks) /\ Len(g) = Len(frames) /\ Len(frames) \in Nat
      /\ g[Len(g)].f = cf.f /\ g[Len(g)].localBase = cf.localBase
      /\ g[Len(g)].live = (IF cf.f.isG THEN 0 ELSE k) /\ ~g[Len(g)].open
  BY Current, WithLiveProperties
<1> HIDE DEF b, n, g, top
<1>4. /\ a \in Frame /\ FrameFits(a) /\ a.f = f /\ a.base = b /\ a.localBase = l
      /\ a.returnBase = b /\ a.into = 0 /\ a.tail = FALSE
      /\ a.localBase + a.live <= IF f.isG THEN b + 1 + n ELSE a.localBase + f.used
  <2>1. 0 \in Nat /\ FALSE \in BOOLEAN /\ b \in Nat /\ n \in Nat
    BY <1>1
  <2>2. IsCallFrame(a, f, b, b, n, want, 0, FALSE)
    BY <2>1, CallFrameProperties
  <2> HIDE DEF a
  <2> QED
    BY <2>2 DEF IsCallFrame
<1> HIDE DEF a, l
<1>5. a.localBase + a.live <= top
  BY <1>1, <1>4
<1>6. Above(g[Len(g)], a)
  <2> DEFINE x == g[Len(g)]
  <2>1. /\ x.f = cf.f /\ x.localBase = cf.localBase /\ x.live = (IF cf.f.isG THEN 0 ELSE k) /\ ~x.open
    BY <1>3
  <2> HIDE DEF x
  <2>2. x.localBase + x.live <= b
    <3>1. CASE cf.f.isG
      BY <1>2, <2>1, <3>1
    <3>2. CASE ~cf.f.isG
      BY <1>1, <1>2, <2>1, <3>2
    <3> QED
      BY <3>1, <3>2
  <2>3. b <= b
    BY <1>1
  <2>4. Above(x, a)
    BY <1>2, <1>4, <2>1, <2>2, <2>3 DEF Above
  <2> QED
    BY <2>4 DEF x
<1>7. Framed(Append(g, a), marks) /\ Covered(Append(g, a), top)
  BY <1>3, <1>4, <1>5, <1>6, EnteredFramed
<1>8. g \in Seq(Frame)
  BY <1>3 DEF Framed
<1>9. /\ Len(Append(g, a)) = Len(g) + 1 /\ Append(g, a)[Len(g) + 1] = a
      /\ \A i \in 1..Len(g) : Append(g, a)[i] = g[i]
  BY <1>8, AppendProperties
<1>10. Len(g) \in 1..Len(g)
  BY <1>3, <1>7, FramedTypes
<1>11. Pushed(k, f, meta, want) = Append(g, a)
  BY DEF Pushed, g, a, b, n
<1> DEFINE fs == Pushed(k, f, meta, want)
<1>12. Framed(fs, marks) /\ Covered(fs, top)
  BY <1>7, <1>11
<1>13. Len(fs) = Len(frames) + 1 /\ fs[Len(frames) + 1] = a
  BY <1>3, <1>9, <1>11
<1>14. fs[Len(frames)] = g[Len(g)]
  BY <1>3, <1>9, <1>10, <1>11
<1> HIDE DEF fs
<1>15. /\ fs[Len(frames) + 1].base = b
       /\ fs[Len(frames)].f = cf.f /\ fs[Len(frames)].localBase = cf.localBase
  BY <1>3, <1>4, <1>13, <1>14
<1> QED
  BY <1>12, <1>13, <1>15 DEF fs, top, b

LEMMA CallInv ==
  ASSUME IInv, NEW k \in Nat, NEW f \in Functions, NEW meta \in BOOLEAN,
         NEW want \in Nat \cup {MultRet}, Call(k, f, meta, want)
  PROVE  IInv'
<1>1. k < Live /\ Ends(Called(k, f, meta), Pushed(k, f, meta, want), marks)
  BY DEF Call, CanCall, Callable
<1>2. Grows(rg, Called(k, f, meta))
  BY <1>1, CalledProperties
<1>3. ~Called(k, f, meta).overflow =>
        /\ Framed(Pushed(k, f, meta, want), marks)
        /\ Covered(Pushed(k, f, meta, want), Called(k, f, meta).top)
  BY <1>1, PushedFramed
<1> DEFINE r == Called(k, f, meta)
           fs == Pushed(k, f, meta, want)
<1> HIDE DEF r, fs
<1>4. Grows(rg, r) /\ (~r.overflow => Framed(fs, marks) /\ Covered(fs, r.top)) /\ Ends(r, fs, marks)
  BY <1>1, <1>2, <1>3 DEF r, fs
<1> QED
  BY <1>4, EndsInv

LEMMA PCallInv ==
  ASSUME IInv, NEW k \in Nat, NEW f \in Functions, NEW meta \in BOOLEAN,
         NEW want \in Nat \cup {MultRet}, PCall(k, f, meta, want)
  PROVE  IInv'
<1> DEFINE r == Called(k, f, meta)
           b == Register(k)
           m == [sp |-> Len(frames), base |-> b]
           fs == Pushed(k, f, meta, want)
<1>1. k < Live /\ cf.f.isG
  BY DEF PCall, CanCall, Callable
<1>2. Grows(rg, r) /\ b \in Nat /\ b < rg.top
  BY <1>1, CalledProperties
<1>3. /\ Framed(frames, marks) /\ Sound(rg) /\ rg.top \in Nat /\ Len(frames) \in Nat \ {0}
      /\ cf = frames[Len(frames)] /\ cf.localBase \in Nat /\ cf.live = 0 /\ cf.localBase <= b
  BY <1>1, Current, RegisterProperties
<1>4. CASE r.overflow
  <2> DEFINE q == Raised(r)
             s == SetTop(q, b)
  <2>1. rg' = s /\ frames' = frames /\ marks' = marks
    BY <1>1, <1>4 DEF PCall, WithLive
  <2>2. Sound(r) /\ rg.size <= r.size
    BY <1>2 DEF Grows
  <2> HIDE DEF r, b
  <2>3. Sound(q) /\ ~q.overflow /\ r.size <= q.size
    BY <2>2, RaisedProperties
  <2>4. b <= q.size
    BY <1>2, <1>3, <2>2, <2>3, SoundTypes
  <2> HIDE DEF q
  <2>5. Grows(q, s) /\ s.overflow = q.overflow /\ (~s.overflow => s.top = b)
    BY <1>2, <2>3, <2>4, SetTopProperties
  <2> HIDE DEF s
  <2>6. Sound(s) /\ ~s.overflow /\ s.top = b
    BY <2>3, <2>5 DEF Grows
  <2>7. Covered(frames, s.top)
    BY <1>3, <2>6 DEF Covered
  <2> QED
    BY <1>3, <2>1, <2>6, <2>7 DEF IInv
<1>5. CASE ~r.overflow
  <2>1. Ends(r, fs, Append(marks, m))
    BY <1>5 DEF PCall
  <2>2. /\ Framed(fs, marks) /\ Covered(fs, r.top) /\ Len(fs) = Len(frames) + 1
        /\ fs[Len(frames) + 1].base = b
        /\ fs[Len(frames)].f = cf.f /\ fs[Len(frames)].localBase = cf.localBase
    BY <1>1, <1>5, PushedFramed
  <2> HIDE DEF fs, r, b
  <2>3. m \in Mark /\ m.sp = Len(frames) /\ m.base = b
    BY <1>2, <1>3 DEF Mark
  <2> HIDE DEF m
  <2>4. m.sp = Len(fs) - 1 /\ m.sp \in 1..Len(fs) - 1
    BY <1>3, <2>2, <2>3
  <2>5. MarkFits(fs, m)
    BY <1>1, <1>3, <2>2, <2>3, <2>4 DEF MarkFits
  <2>6. ASSUME NEW i \in 1..Len(marks)
        PROVE  marks[i].sp < m.sp
    <3>1. marks[i].sp \in 1..Len(frames) - 1
      BY <1>3 DEF Framed, MarkFits
    <3> QED
      BY <1>3, <2>3, <3>1
  <2>7. Framed(fs, Append(marks, m))
    BY <2>2, <2>3, <2>4, <2>5, <2>6, MarkFramed
  <2> QED
    BY <1>2, <2>1, <2>2, <2>7, EndsInv
<1> QED
  BY <1>4, <1>5

LEMMA MetamethodInv ==
  ASSUME IInv, NEW f \in Functions, NEW x \in Values, NEW into \in Nat, Metamethod(f, x, into)
  PROVE  IInv'
<1> DEFINE b == rg.top
           p1 == Push(rg, LNil)
           p2 == Push(p1, x)
           p3 == Push(p2, LNil)
           r == IF p3.overflow THEN p3 ELSE initCallFrame(p3, f, b + 1, 2)
           a == callFrame(f, b, b, 2, 1, into + 1, FALSE)
           l == LocalBaseOf(f, b + 1, 2)
<1>1. ~cf.f.isG /\ ~cf.open /\ into <= Live /\ Ends(r, Append(frames, a), marks)
  BY DEF Metamethod
<1>2. /\ Sound(rg) /\ b \in Nat /\ Framed(frames, marks) /\ cf = frames[Len(frames)] /\ Live = cf.live
      /\ cf.localBase + cf.live <= b /\ cf.localBase \in Nat /\ cf.live \in Nat
  BY <1>1, Current
<1>3. x \in LuaValues /\ LNil \in LuaValues
  BY LuaValuesStored DEF LuaValues
<1>4. Grows(rg, p1) /\ (~p1.overflow => p1.top = b + 1)
  BY <1>2, <1>3, PushProperties
<1> HIDE DEF b, p1
<1>5. Grows(p1, p2) /\ (~p2.overflow => p2.top = p1.top + 1)
  BY <1>3, <1>4, PushProperties DEF Grows
<1> HIDE DEF p2
<1>6. Grows(p2, p3) /\ (~p3.overflow => p3.top = p2.top + 1)
  BY <1>3, <1>5, PushProperties DEF Grows
<1> HIDE DEF p3
<1>7. Grows(rg, p3)
  BY <1>2, <1>4, <1>5, <1>6, GrowsTwice DEF Grows
<1>8. Sound(p3) /\ (~p3.overflow => p3.top = b + 3)
  BY <1>2, <1>4, <1>5, <1>6 DEF Grows
<1>9. /\ Grows(p3, r)
      /\ ~r.overflow => r.top = IF f.isG THEN b + 1 + 2 ELSE l + f.used
  <2>1. CASE p3.overflow
    <3>1. Grows(p3, p3)
      BY <1>8, SoundTypes DEF Grows
    <3> QED
      BY <2>1, <3>1
  <2>2. CASE ~p3.overflow
    <3> DEFINE e == b + 1
               n == 2
               t == initCallFrame(p3, f, e, n)
               z == LocalBaseOf(f, e, n)
    <3>1. e \in Nat /\ n \in Nat /\ (~p3.overflow => e + n <= p3.top)
      BY <1>2, <1>8
    <3>2. Sound(p3)
      BY <1>8
    <3> HIDE DEF e, n
    <3>3. /\ Grows(p3, t) /\ z \in Nat /\ e <= z
          /\ ~t.overflow => t.top = IF f.isG THEN e + n ELSE z + f.used
      BY <3>1, <3>2, InitCallFrameProperties DEF IsEntry
    <3> QED
      BY <2>2, <3>3 DEF e, n
  <2> QED
    BY <2>1, <2>2
<1> HIDE DEF r
<1>10. Grows(rg, r)
  BY <1>2, <1>7, <1>9, GrowsTwice
<1>11. /\ a \in Frame /\ FrameFits(a) /\ a.f = f /\ a.base = b /\ a.localBase = l
       /\ a.returnBase = b /\ a.want = 1 /\ a.into = into + 1 /\ a.tail = FALSE
       /\ a.localBase + a.live <= IF f.isG THEN b + 1 + 2 ELSE a.localBase + f.used
  <2> DEFINE w == into + 1
             two == 2
             one == 1
  <2>1. w \in Nat /\ FALSE \in BOOLEAN /\ b \in Nat /\ two \in Nat /\ one \in Nat \cup {MultRet}
    BY <1>2
  <2> HIDE DEF w, two, one
  <2>2. IsCallFrame(callFrame(f, b, b, two, one, w, FALSE), f, b, b, two, one, w, FALSE)
    BY <2>1, CallFrameProperties
  <2>3. IsCallFrame(a, f, b, b, 2, 1, into + 1, FALSE)
    BY <2>2 DEF w, two, one
  <2> HIDE DEF a
  <2> QED
    BY <2>3 DEF IsCallFrame
<1> HIDE DEF a, l
<1>12. ~r.overflow => a.localBase + a.live <= r.top
  BY <1>9, <1>11
<1>13. Above(frames[Len(frames)], a)
  <2>1. b <= b /\ into + 1 # 0 /\ into + 1 <= cf.live + 1
    BY <1>1, <1>2
  <2> QED
    BY <1>1, <1>2, <1>11, <2>1 DEF Above
<1>14. ~r.overflow => Framed(Append(frames, a), marks) /\ Covered(Append(frames, a), r.top)
  BY <1>2, <1>11, <1>12, <1>13, EnteredFramed
<1> QED
  BY <1>1, <1>10, <1>14, EndsInv

LEMMA TailCallGoInv ==
  ASSUME IInv, NEW k \in Nat, NEW f \in Functions, NEW meta \in BOOLEAN, TailCallGo(k, f, meta)
  PROVE  IInv'
<1> DEFINE r == Called(k, f, meta)
           b == Register(k)
           n == Arguments(NArgs(k), meta)
           g == WithLive(0, FALSE)
           a == callFrame(f, b, cf.returnBase, n, cf.want, cf.into, TRUE)
           l == LocalBaseOf(f, b + 1, n)
<1>1. ~cf.f.isG /\ f.isG /\ k < Live /\ Ends(r, Append(g, a), marks)
  BY DEF TailCallGo, CanCall, Callable
<1>2. /\ Grows(rg, r) /\ b \in Nat /\ n \in Nat
      /\ ~r.overflow => r.top = IF f.isG THEN b + 1 + n ELSE l + f.used
  BY <1>1, CalledProperties
<1>3. /\ cf.base \in Nat /\ cf.returnBase <= cf.base /\ cf.want \in Nat \cup {MultRet} /\ cf.into \in Nat
      /\ cf.returnBase \in Nat /\ cf.localBase \in Nat /\ cf.base + 1 <= cf.localBase /\ cf.localBase <= b
  BY <1>1, Current, LuaCurrent, RegisterProperties
<1>4. /\ Framed(g, marks) /\ g[Len(g)].f = cf.f /\ g[Len(g)].localBase = cf.localBase
      /\ g[Len(g)].returnBase = cf.returnBase /\ g[Len(g)].want = cf.want /\ g[Len(g)].into = cf.into
      /\ g[Len(g)].live = 0 /\ ~g[Len(g)].open
  BY <1>1, WithLiveProperties
<1> HIDE DEF r, b, n, g
<1>5. /\ a \in Frame /\ FrameFits(a) /\ a.f = f /\ a.base = b /\ a.localBase = l
      /\ a.returnBase = cf.returnBase /\ a.want = cf.want /\ a.into = cf.into /\ a.tail = TRUE
      /\ a.localBase + a.live <= IF f.isG THEN b + 1 + n ELSE a.localBase + f.used
  <2> DEFINE x == cf.returnBase
             y == cf.want
             z == cf.into
  <2>1. x \in Nat /\ y \in Nat \cup {MultRet} /\ z \in Nat /\ TRUE \in BOOLEAN /\ f.isG
    BY <1>1, <1>3
  <2> HIDE DEF x, y, z
  <2>2. IsCallFrame(callFrame(f, b, x, n, y, z, TRUE), f, b, x, n, y, z, TRUE)
    BY <1>2, <2>1, CallFrameProperties
  <2>3. IsCallFrame(a, f, b, cf.returnBase, n, cf.want, cf.into, TRUE)
    BY <2>2 DEF x, y, z
  <2> HIDE DEF a
  <2> QED
    BY <2>3 DEF IsCallFrame
<1> HIDE DEF a, l
<1>6. ~r.overflow => a.localBase + a.live <= r.top
  BY <1>2, <1>5
<1>7. Above(g[Len(g)], a)
  <2>1. cf.localBase + 0 <= b /\ cf.returnBase <= b
    BY <1>2, <1>3
  <2> DEFINE q == g[Len(g)]
  <2>2. /\ q.localBase + q.live <= a.base /\ a.returnBase <= a.base /\ a.f \in Functions /\ ~q.open
        /\ a.tail = TRUE /\ q.f = cf.f
        /\ q.returnBase = a.returnBase /\ q.want = a.want /\ q.into = a.into
    BY <1>4, <1>5, <2>1
  <2>3. ~cf.f.isG
    BY <1>1
  <2> HIDE DEF q
  <2>4. Above(q, a)
    BY <2>2, <2>3 DEF Above
  <2> QED
    BY <2>4 DEF q
<1>8. ~r.overflow => Framed(Append(g, a), marks) /\ Covered(Append(g, a), r.top)
  BY <1>4, <1>5, <1>6, <1>7, EnteredFramed
<1> QED
  BY <1>1, <1>2, <1>8, EndsInv

\* The frame that takes over the current one, at its base.
TakenOver(k, f, meta) ==
    LET new == callFrame(f, Register(k), cf.returnBase, Arguments(NArgs(k), meta), cf.want, cf.into, cf.tail)
    IN  [new EXCEPT !.base = cf.base,
                    !.localBase = cf.base + (new.localBase - (Register(k) + 1) + 1)]

IsTakenOver(a, fs, f, n, b, w) ==
    /\ w = LocalBaseOf(f, cf.base + 1, n) /\ w \in Nat /\ w + b = cf.base + LocalBaseOf(f, b + 1, n)
    /\ a \in Frame /\ a.f = f /\ a.base = cf.base /\ a.localBase = w /\ FrameFits(a)
    /\ a.nargs = (IF f.vararg THEN n ELSE 0)
    /\ a.returnBase = cf.returnBase /\ a.want = cf.want /\ a.into = cf.into
    /\ a.tail = FALSE /\ a.live = f.np /\ a.open = FALSE
    /\ fs \in Seq(Frame) /\ Len(fs) = Len(frames) /\ fs[Len(frames)] = a
    /\ \A i \in 1..Len(frames) - 1 : fs[i] = frames[i]

LEMMA TakenOverProperties ==
  ASSUME IInv, ~cf.f.isG, NEW k \in Nat, k < Live, NEW f \in Functions, ~f.isG, NEW meta \in BOOLEAN
  PROVE  LET a == TakenOver(k, f, meta)
             n == Arguments(NArgs(k), meta)
         IN  IsTakenOver(a, [frames EXCEPT ![Len(frames)] = a], f, n, Register(k),
                         LocalBaseOf(f, cf.base + 1, n))
<1> DEFINE b == Register(k)
           n == Arguments(NArgs(k), meta)
           new == callFrame(f, b, cf.returnBase, n, cf.want, cf.into, cf.tail)
           a == TakenOver(k, f, meta)
           c == Len(frames)
           fs == [frames EXCEPT ![c] = a]
           l == LocalBaseOf(f, b + 1, n)
           w == LocalBaseOf(f, cf.base + 1, n)
<1>1. b \in Nat /\ n \in Nat /\ l \in Nat /\ b + 1 <= l
  BY CalledProperties
<1>2. /\ cf.base \in Nat /\ cf.want \in Nat \cup {MultRet} /\ cf.into \in Nat /\ cf.returnBase \in Nat
      /\ cf.tail = FALSE /\ Framed(frames, marks) /\ c \in Nat \ {0}
  BY Current, LuaCurrent
<1>3. f.isG \in BOOLEAN /\ f.vararg \in BOOLEAN /\ f.np \in Nat
  BY FunctionTypes
<1>4. a = [new EXCEPT !.base = cf.base, !.localBase = cf.base + (new.localBase - (b + 1) + 1)]
  BY DEF TakenOver
<1> HIDE DEF b, n, c, a
<1>5. /\ new \in Frame /\ new.f = f /\ new.localBase = l /\ new.nargs = (IF f.vararg THEN n ELSE 0)
      /\ new.returnBase = cf.returnBase /\ new.want = cf.want /\ new.into = cf.into
      /\ new.tail = FALSE /\ new.live = f.np /\ new.open = FALSE
  <2> DEFINE x == cf.returnBase
             y == cf.want
             z == cf.into
             t == cf.tail
  <2>1. x \in Nat /\ y \in Nat \cup {MultRet} /\ z \in Nat /\ t \in BOOLEAN /\ (t => f.isG)
    BY <1>2
  <2> HIDE DEF x, y, z, t
  <2>2. IsCallFrame(callFrame(f, b, x, n, y, z, t), f, b, x, n, y, z, t)
    BY <1>1, <2>1, CallFrameProperties
  <2>3. IsCallFrame(new, f, b, cf.returnBase, n, cf.want, cf.into, cf.tail)
    BY <2>2 DEF x, y, z, t
  <2> HIDE DEF new
  <2> QED
    BY <1>2, <2>3 DEF IsCallFrame
<1> HIDE DEF new
<1>6. w \in Nat /\ w + b = cf.base + l /\ w = cf.base + (l - (b + 1) + 1)
  <2> DEFINE x == cf.base
  <2>1. x \in Nat
    BY <1>2
  <2>2. w = LocalBaseOf(f, x + 1, n)
    OBVIOUS
  <2> HIDE DEF x, l, w
  <2>3. w = x + (l - (b + 1) + 1)
    <3>1. CASE f.vararg
      <4> DEFINE g == LargerOf(n, f.np)
      <4>1. g \in Nat
        BY <1>1, <1>3, LargerProperties
      <4>2. l = b + 1 + g /\ w = x + 1 + g
        BY <2>2, <3>1 DEF l, LocalBaseOf
      <4> HIDE DEF g
      <4> QED
        BY <1>1, <2>1, <4>1, <4>2
    <3>2. CASE ~f.vararg
      <4>1. l = b + 1 /\ w = x + 1
        BY <2>2, <3>2 DEF l, LocalBaseOf
      <4> QED
        BY <1>1, <2>1, <4>1
    <3> QED
      BY <3>1, <3>2
  <2>4. w \in Nat /\ w + b = x + l
    BY <1>1, <2>1, <2>3
  <2> QED
    BY <2>3, <2>4 DEF x
<1>7. /\ a \in Frame /\ a.f = f /\ a.base = cf.base /\ a.localBase = w /\ a.nargs = new.nargs
      /\ a.returnBase = cf.returnBase /\ a.want = cf.want /\ a.into = cf.into
      /\ a.tail = FALSE /\ a.live = f.np /\ a.open = FALSE
  <2>1. a = [new EXCEPT !.base = cf.base, !.localBase = w]
    BY <1>4, <1>5, <1>6
  <2> HIDE DEF w
  <2>2. cf.base \in Int
    BY <1>2
  <2> QED
    BY <1>5, <1>6, <2>1, <2>2 DEF Frame
<1>8. FrameFits(a)
  <2>1. LocalBaseOf(f, cf.base + 1, new.nargs) = w
    <3>1. CASE f.vararg
      BY <1>5, <3>1
    <3>2. CASE ~f.vararg
      BY <3>2 DEF LocalBaseOf
    <3> QED
      BY <3>1, <3>2
  <2> HIDE DEF w
  <2> QED
    BY <1>7, <2>1 DEF FrameFits
<1> HIDE DEF w
<1>9. fs \in Seq(Frame) /\ Len(fs) = c /\ fs[c] = a /\ \A i \in 1..c - 1 : fs[i] = frames[i]
  <2>1. frames \in Seq(Frame)
    BY <1>2 DEF Framed
  <2>2. c \in 1..Len(frames) /\ DOMAIN frames = 1..c
    BY <1>2, <2>1, LenProperties DEF c
  <2>3. fs \in Seq(Frame) /\ Len(fs) = c
    BY <1>7, <2>1, <2>2, ExceptSeq DEF c
  <2>4. fs[c] = a /\ \A i \in 1..c - 1 : fs[i] = frames[i]
    BY <1>2, <2>2
  <2> QED
    BY <2>3, <2>4
<1> HIDE DEF fs
<1> QED
  BY <1>5, <1>6, <1>7, <1>8, <1>9 DEF fs, w, a, n, c, b, l, IsTakenOver

\* The window of the callee is moved down to the base of the frame it takes over.
IsMovedDown(q, b, s, x) == \A i \in 0..q.top - b - 2 : s.array[x + i] = q.array[b + i]

LEMMA MovedDownProperties ==
  ASSUME NEW q, Sound(q), ~q.overflow, NEW b \in Nat, NEW x \in Nat, x + 1 <= b, b + 1 <= q.top
  PROVE  LET r == MovedDown(q, b, x)
         IN  /\ Grows(q, r)
             /\ ~r.overflow => r.top = x + (q.top - b - 1) /\ IsMovedDown(q, b, r, x)
<1> DEFINE m == q.top - b - 1
           s == CopyRange(q, x, b, NoLimit, m)
<1>1. m \in Nat /\ x <= b /\ x <= q.top /\ q.top \in Nat /\ m = q.top - b - 1
  BY SoundTypes
<1>2. MovedDown(q, b, x) = s
  BY DEF MovedDown
<1> HIDE DEF m
<1>3. Apart(x, b, NoLimit) /\ NoLimit \in Int /\ CopyEnd(q, NoLimit) = q.top
  BY <1>1 DEF Apart, CopyEnd, NoLimit
<1>4. /\ Grows(q, s)
      /\ ~s.overflow =>
           /\ s.top = x + m
           /\ \A j \in 0..s.top - 1 :
                s.array[j] = IF j < x THEN q.array[j]
                             ELSE IF b + (j - x) < CopyEnd(q, NoLimit) THEN q.array[b + (j - x)] ELSE LNil
  BY <1>1, <1>3, CopyRangeProperties
<1> HIDE DEF s
<1>5. ASSUME ~s.overflow, NEW i \in 0..q.top - b - 2
      PROVE  s.array[x + i] = q.array[b + i]
  <2> DEFINE j == x + i
  <2>1. j \in 0..s.top - 1 /\ ~(j < x) /\ b + (j - x) = b + i /\ b + i < q.top
    BY <1>1, <1>4, <1>5
  <2> HIDE DEF j
  <2>2. s.array[j] = q.array[b + i]
    BY <1>3, <1>4, <1>5, <2>1
  <2> QED
    BY <2>2 DEF j
<1> QED
  BY <1>1, <1>2, <1>4, <1>5 DEF IsMovedDown

LEMMA TailCallLuaInv ==
  ASSUME IInv, NEW k \in Nat, NEW f \in Functions, NEW meta \in BOOLEAN, TailCallLua(k, f, meta)
  PROVE  IInv'
<1> DEFINE q == Called(k, f, meta)
           b == Register(k)
           n == Arguments(NArgs(k), meta)
           a == TakenOver(k, f, meta)
           r == IF q.overflow THEN q ELSE MovedDown(q, b, cf.base)
           c == Len(frames)
           fs == [frames EXCEPT ![c] = a]
           l == LocalBaseOf(f, b + 1, n)
           w == LocalBaseOf(f, cf.base + 1, n)
<1>1. ~cf.f.isG /\ ~f.isG /\ k < Live /\ Ends(r, fs, marks)
  BY DEF TailCallLua, Callable, TakenOver
<1>2. /\ Grows(rg, q) /\ b \in Nat /\ l \in Nat /\ b + 1 <= l
      /\ ~q.overflow => q.top = l + f.used
  BY <1>1, CalledProperties
<1>3. /\ cf.base \in Nat /\ cf.localBase \in Nat /\ cf.base + 1 <= cf.localBase /\ cf.localBase <= b
      /\ cf.tail = FALSE /\ c # 1 /\ Above(frames[c - 1], cf)
      /\ Framed(frames, marks) /\ c \in Nat \ {0} /\ cf = frames[c] /\ Len(marks) \in Nat /\ Sound(rg)
  BY <1>1, Current, LuaCurrent, RegisterProperties
<1>4. f.np \in Nat /\ f.used \in Nat /\ f.np < f.used
  BY <1>1, FunctionTypes
<1>5. IsTakenOver(a, fs, f, n, b, w)
  BY <1>1, TakenOverProperties
<1> HIDE DEF q, b, n, a, fs, w
<1>6. /\ w \in Nat /\ w + b = cf.base + l
      /\ a \in Frame /\ a.f = f /\ a.base = cf.base /\ a.localBase = w /\ FrameFits(a)
      /\ a.returnBase = cf.returnBase /\ a.want = cf.want /\ a.into = cf.into
      /\ a.tail = FALSE /\ a.live = f.np /\ a.open = FALSE
      /\ fs \in Seq(Frame) /\ Len(fs) = c /\ fs[c] = a /\ \A i \in 1..c - 1 : fs[i] = frames[i]
  BY <1>5 DEF IsTakenOver
<1> HIDE DEF c, l
<1>7. Above(frames[c - 1], a)
  <2> DEFINE d == frames[c - 1]
  <2>1. Above(d, cf)
    BY <1>3
  <2> HIDE DEF d
  <2>2. Above(d, a)
    BY <1>3, <1>6, <2>1 DEF Above
  <2> QED
    BY <2>2 DEF d
<1>8. Framed(fs, marks)
  <2>1. \A i \in 1..Len(marks) : marks[i] = marks[i] /\ marks[i].sp < c
    <3>1. \A i \in 1..Len(marks) : marks[i].sp \in 1..c - 1
      BY <1>3 DEF Framed, MarkFits, c
    <3> QED
      BY <1>3, <3>1
  <2>2. c \in 1..Len(frames) /\ a.base = frames[c].base
    BY <1>3, <1>6 DEF c
  <2>3. Len(marks) <= Len(marks) /\ marks \in Seq(Mark)
    BY <1>3 DEF Framed
  <2> QED
    BY <1>3, <1>6, <1>7, <2>1, <2>2, <2>3, CutFramed
<1>9. Grows(rg, r) /\ (~r.overflow => Covered(fs, r.top))
  <2>1. CASE q.overflow
    BY <1>2, <2>1
  <2>2. CASE ~q.overflow
    <3> DEFINE x == cf.base
               s == MovedDown(q, b, x)
               p == f.np
               u == f.used
    <3>1. /\ x \in Nat /\ x + 1 <= b /\ q.top = l + u /\ Sound(q) /\ r = s /\ p \in Nat /\ u \in Nat
          /\ p < u /\ w + b = x + l
      BY <1>2, <1>3, <1>4, <1>6, <2>2 DEF Grows
    <3> HIDE DEF x, r, p, u
    <3>2. b + 1 <= q.top
      BY <1>2, <3>1
    <3>3. Grows(q, s) /\ (~s.overflow => s.top = x + (q.top - b - 1))
      BY <1>2, <2>2, <3>1, <3>2, MovedDownProperties
    <3> HIDE DEF s
    <3>4. Grows(rg, r)
      BY <1>2, <1>3, <3>1, <3>3, GrowsTwice
    <3>5. w + p <= x + (q.top - b - 1)
      BY <1>2, <1>6, <3>1
    <3>6. fs[Len(fs)].localBase + fs[Len(fs)].live = w + p
      BY <1>6 DEF p
    <3> QED
      BY <3>1, <3>3, <3>4, <3>5, <3>6 DEF Covered
  <2> QED
    BY <2>1, <2>2
<1> QED
  BY <1>1, <1>8, <1>9, EndsInv

LEMMA VarArgInv ==
  ASSUME IInv, NEW k \in Nat, NEW n \in Nat \cup {MultRet}, VarArg(k, n)
  PROVE  IInv'
<1> DEFINE b == Register(k)
           w == IF n = MultRet THEN VarArgs ELSE n
           r == CopyRange(rg, b, FirstExtra, cf.localBase, w)
           fs == WithLive(k + w, n = MultRet)
<1>1. cf.f.vararg /\ k <= Live /\ Ends(r, fs, marks)
  BY DEF VarArg
<1>2. /\ Sound(rg) /\ rg.top \in Nat /\ ~rg.overflow /\ cf.localBase \in Nat /\ cf \in Frame
      /\ cf.f.isG \in BOOLEAN
  BY Current DEF IInv
<1>3. ~cf.f.isG /\ cf.f \in Functions
  <2>1. cf.f \in Functions \cup {HostFunction} /\ HostFunction.vararg = FALSE
    BY <1>2, FrameTypes DEF HostFunction
  <2> QED
    BY <1>1, <2>1, FunctionTypes
<1>4. cf.base \in Nat /\ cf.nargs \in Nat /\ cf.f.np \in Nat
  BY <1>3, LuaCurrent, FunctionTypes
<1>5. w \in Nat
  <2>1. VarArgs \in Nat
    <3> DEFINE x == cf.nargs
               y == cf.f.np
    <3>1. x \in Nat /\ y \in Nat /\ VarArgs = LargerOf(x - y, 0)
      BY <1>4 DEF VarArgs
    <3> HIDE DEF x, y
    <3> QED
      BY <3>1 DEF LargerOf
  <2> QED
    BY <2>1
<1>6. b \in Nat /\ b = cf.localBase + k /\ cf.localBase <= b /\ b <= rg.top
  BY <1>1, RegisterProperties
<1>7. FirstExtra \in Nat
  BY <1>4 DEF FirstExtra
<1> HIDE DEF w, b
<1>8. Apart(b, FirstExtra, cf.localBase) /\ cf.localBase \in Int
  BY <1>2, <1>6 DEF Apart, NoLimit
<1> DEFINE start == FirstExtra
           limit == cf.localBase
<1>9. Grows(rg, r) /\ (~r.overflow => r.top = b + w)
  <2>1. start \in Nat /\ limit \in Int /\ Apart(b, start, limit)
    BY <1>7, <1>8
  <2> DEFINE s == CopyRange(rg, b, start, limit, w)
  <2> HIDE DEF start, limit
  <2>2. Grows(rg, s) /\ (~s.overflow => s.top = b + w)
    BY <1>2, <1>5, <1>6, <2>1, CopyRangeProperties
  <2> QED
    BY <2>2 DEF start, limit
<1> HIDE DEF r
<1>10. /\ Framed(fs, marks) /\ fs[Len(fs)].localBase = cf.localBase /\ fs[Len(fs)].live = k + w
  <2> DEFINE m == k + w
             o == n = MultRet
  <2>1. m \in Nat /\ o \in BOOLEAN
    BY <1>5
  <2> HIDE DEF m, o
  <2>2. LET g == WithLive(m, o)
        IN  /\ Framed(g, marks) /\ g[Len(g)].localBase = cf.localBase /\ g[Len(g)].live = m
    BY <1>3, <2>1, WithLiveProperties
  <2> QED
    BY <2>2 DEF m, o
<1> HIDE DEF fs
<1>11. ~r.overflow => Covered(fs, r.top)
  <2> DEFINE x == cf.localBase
  <2>1. x \in Nat /\ b = x + k
    BY <1>2, <1>6
  <2> HIDE DEF x
  <2>2. x + (k + w) <= b + w
    BY <1>5, <2>1
  <2> QED
    BY <1>9, <1>10, <2>2 DEF Covered, x
<1> QED
  BY <1>1, <1>9, <1>10, <1>11, EndsInv

-----------------------------------------------------------------------------
(* Returns.                                                                *)

\* The frame that goes on is below the frames of the function that returns, and the
\* results go where it expects them.
LEMMA CallerProperties ==
  ASSUME IInv, Len(frames) # 1
  PROVE  /\ CallerIndex \in 1..Len(frames) - 1 /\ caller \in Frame /\ FrameFits(caller) /\ ~caller.open
         /\ cf.want \in Nat \cup {MultRet} /\ cf.into \in Nat /\ cf.returnBase \in Nat
         /\ cf.returnBase <= cf.base
         /\ IF cf.into # 0
            THEN /\ ~caller.f.isG /\ cf.into <= caller.live + 1 /\ cf.want = 1
                 /\ caller.localBase + caller.live <= cf.returnBase
            ELSE IF caller.f.isG THEN caller.localBase <= cf.returnBase
            ELSE cf.returnBase = caller.localBase + caller.live
         /\ \A i \in 1..Len(marks) : marks[i].sp \in 1..CallerIndex
<1> DEFINE c == Len(frames)
           p == frames[c - 1]
<1>1. /\ Framed(frames, marks) /\ c \in Nat \ {0} /\ cf = frames[c] /\ cf \in Frame /\ FrameFits(cf)
      /\ Len(marks) \in Nat
  BY Current
<1>2. c - 1 \in 1..c /\ c - 1 \in 1..c - 1 /\ c - 1 \in Nat \ {0}
  <2> HIDE DEF c
  <2> QED
    BY <1>1 DEF c
<1>3. Above(p, cf) /\ p \in Frame /\ FrameFits(p)
  BY <1>1, <1>2, FramedTypes DEF Framed
<1>4. /\ cf.want \in Nat \cup {MultRet} /\ cf.into \in Nat /\ cf.returnBase \in Nat /\ cf.base \in Int
      /\ cf.tail \in BOOLEAN /\ cf.f.isG \in BOOLEAN
  BY <1>1, FrameTypes
<1>5. cf.returnBase <= cf.base
  BY <1>3 DEF Above
<1>6. \A i \in 1..Len(marks) : marks[i].sp \in 1..c - 1 /\ frames[marks[i].sp].f.isG
  BY <1>1 DEF Framed, MarkFits
<1>7. CASE ~cf.tail
  <2>1. CallerIndex = c - 1 /\ caller = p
    BY <1>7 DEF CallerIndex, caller
  <2>2. p.localBase \in Nat /\ p.live \in Nat /\ (p.f.isG => p.live = 0)
    BY <1>3, FrameTypes DEF FrameFits
  <2>3. p.f.isG /\ cf.into = 0 => cf.returnBase = cf.base /\ p.localBase <= cf.returnBase
    BY <1>3, <1>7, <2>2 DEF Above
  <2> HIDE DEF c, p
  <2> QED
    BY <1>2, <1>3, <1>4, <1>5, <1>6, <1>7, <2>1, <2>3 DEF Above, c
<1>8. CASE cf.tail
  <2>1. ~p.f.isG /\ p.returnBase = cf.returnBase /\ p.want = cf.want /\ p.into = cf.into
    BY <1>3, <1>8 DEF Above
  <2>2. p.tail = FALSE
    BY <1>3, <2>1, FrameTypes DEF FrameFits
  <2>3. c - 1 # 1
    <3>1. frames[1] = Host /\ Host.f.isG = TRUE
      BY <1>1, HostProperties DEF Framed
    <3>2. c - 1 = 1 => p = Host
      BY <3>1
    <3> QED
      BY <2>1, <3>1, <3>2
  <2> DEFINE q == frames[c - 2]
  <2>4. c - 2 \in 1..c /\ c - 2 \in 1..c - 1 /\ c - 1 = c - 2 + 1
    <3> HIDE DEF c
    <3> QED
      BY <1>1, <1>2, <2>3
  <2>5. Above(q, p) /\ q \in Frame /\ FrameFits(q)
    BY <1>1, <1>2, <2>4, FramedTypes DEF Framed
  <2>6. CallerIndex = c - 2 /\ caller = q
    BY <1>8 DEF CallerIndex, caller
  <2>7. q.localBase \in Nat /\ q.live \in Nat /\ (q.f.isG => q.live = 0)
    BY <2>5, FrameTypes DEF FrameFits
  <2>8. q.f.isG /\ p.into = 0 => p.returnBase = p.base /\ q.localBase <= p.returnBase
    BY <2>2, <2>5, <2>7 DEF Above
  <2>9. ASSUME NEW i \in 1..Len(marks)
        PROVE  marks[i].sp \in 1..c - 2
    <3> DEFINE sp == marks[i].sp
    <3>1. sp \in 1..c - 1 /\ sp # c - 1
      BY <1>6, <2>1
    <3> HIDE DEF c, sp
    <3>2. sp \in 1..c - 2
      BY <1>2, <3>1 DEF c
    <3> QED
      BY <3>2 DEF sp
  <2> HIDE DEF c, p, q
  <2> QED
    BY <1>2, <1>4, <1>5, <2>1, <2>2, <2>4, <2>5, <2>6, <2>8, <2>9 DEF Above, c
<1> QED
  BY <1>4, <1>7, <1>8

\* The result of a metamethod is taken off the top and stored by the instruction.
LEMMA AfterCallProperties ==
  ASSUME IInv, Len(frames) # 1, NEW n \in Nat, cf.want # MultRet => n = cf.want,
         NEW r, Sound(r), ~r.overflow, r.top = cf.returnBase + n
  PROVE  LET s == AfterCall(r)
         IN  /\ Grows(r, s)
             /\ ~s.overflow =>
                  s.top = IF cf.into # 0 THEN LargerOf(cf.returnBase, caller.localBase + cf.into)
                          ELSE cf.returnBase + n
<1> DEFINE b == cf.returnBase
           s == AfterCall(r)
           l == caller.localBase
           j == cf.into
<1>1. /\ b \in Nat /\ j \in Nat /\ cf.want \in Nat \cup {MultRet} /\ l \in Nat /\ caller.live \in Nat
      /\ caller.f.isG \in BOOLEAN
  BY CallerProperties, FrameTypes
<1>2. CASE j # 0
  <2> DEFINE t == SetTop(r, b + cf.want)
             p == Pop(t)
             v == Get(t, t.top - 1)
             i == l + j - 1
             live == caller.live
  <2>1. cf.want = 1 /\ n = 1 /\ r.top = b + 1 /\ j <= live + 1 /\ l + live <= b /\ live \in Nat
    <3>1. cf.want = 1 /\ MultRet # 1
      BY <1>2, CallerProperties DEF MultRet
    <3>2. j <= live + 1 /\ l + live <= b
      BY <1>2, CallerProperties
    <3> QED
      BY <1>1, <3>1, <3>2
  <2>2. s = Set(p, i, v)
    BY <1>2 DEF AfterCall
  <2> HIDE DEF b, s, l, j, live
  <2>3. Grows(r, t) /\ ~t.overflow /\ t.top = b + 1
    <3> DEFINE m == b + cf.want
    <3>1. m \in Nat /\ m = r.top
      BY <1>1, <2>1
    <3> HIDE DEF m
    <3>2. m <= r.size
      BY <3>1, SoundTypes
    <3>3. /\ Grows(r, SetTop(r, m)) /\ SetTop(r, m).overflow = r.overflow
          /\ ~SetTop(r, m).overflow => SetTop(r, m).top = m
      BY <3>1, <3>2, SetTopProperties
    <3>4. t = SetTop(r, m)
      BY DEF m
    <3> HIDE DEF t
    <3> QED
      BY <2>1, <3>1, <3>3, <3>4
  <2> HIDE DEF t
  <2>4. Sound(t) /\ t.top # 0 /\ t.top - 1 \in 0..t.top - 1
    BY <1>1, <2>3 DEF Grows
  <2>5. v \in LuaValues
    BY <2>4, SoundTypes DEF Get
  <2>6. Grows(t, p) /\ ~p.overflow /\ p.top = b
    <3>1. Grows(t, p) /\ p.overflow = t.overflow /\ (~p.overflow => p.top = t.top - 1)
      BY <2>4, PopProperties
    <3> HIDE DEF p
    <3> QED
      BY <1>1, <2>3, <3>1
  <2> HIDE DEF p, v
  <2>7. i \in 0..p.top /\ i + 1 = l + j
    BY <1>1, <1>2, <2>1, <2>6
  <2> HIDE DEF i
  <2>8. Grows(p, s) /\ (~s.overflow => s.top = LargerOf(b, l + j))
    <3>1. Sound(p)
      BY <2>6 DEF Grows
    <3>2. Grows(p, Set(p, i, v)) /\ (~Set(p, i, v).overflow => Set(p, i, v).top = LargerOf(p.top, i + 1))
      BY <2>5, <2>7, <3>1, SetProperties
    <3> QED
      BY <2>2, <2>6, <2>7, <3>2
  <2>9. Grows(r, s)
    <3>1. Sound(p)
      BY <2>6 DEF Grows
    <3>2. Grows(r, p)
      BY <2>3, <2>6, GrowsTwice
    <3> QED
      BY <2>8, <3>2, GrowsTwice
  <2> QED
    BY <1>2, <2>8, <2>9 DEF b, s, l, j
<1>3. CASE j = 0 /\ caller.f.isG /\ cf.want # MultRet
  <2> DEFINE m == b + cf.want
  <2>1. s = SetTop(r, m) /\ m = b + n
    BY <1>3 DEF AfterCall
  <2>2. m \in Nat
    BY <1>1, <2>1
  <2> HIDE DEF m
  <2>3. Grows(r, SetTop(r, m)) /\ (~SetTop(r, m).overflow => SetTop(r, m).top = m)
    BY <2>2, SetTopProperties
  <2> HIDE DEF s
  <2> QED
    BY <1>3, <2>1, <2>3 DEF s
<1>4. CASE j = 0 /\ ~(caller.f.isG /\ cf.want # MultRet)
  <2>1. s = r
    BY <1>4 DEF AfterCall
  <2>2. Grows(r, r)
    BY SoundTypes DEF Grows
  <2> HIDE DEF s
  <2> QED
    BY <1>4, <2>1, <2>2 DEF s
<1> QED
  BY <1>2, <1>3, <1>4

LEMMA ResumedProperties ==
  ASSUME IInv, Len(frames) # 1, NEW n \in Nat
  PROVE  LET a == Resumed(n)
             top == IF cf.into # 0 THEN LargerOf(cf.returnBase, caller.localBase + cf.into)
                    ELSE cf.returnBase + n
         IN  /\ a \in Frame /\ FrameFits(a) /\ (caller.f.isG => a = caller)
             /\ a.f = caller.f /\ a.base = caller.base /\ a.localBase = caller.localBase
             /\ a.returnBase = caller.returnBase /\ a.want = caller.want /\ a.into = caller.into
             /\ a.tail = caller.tail /\ a.nargs = caller.nargs
             /\ a.localBase + a.live <= top
<1> DEFINE a == Resumed(n)
           b == cf.returnBase
           l == caller.localBase
           v == caller.live
           j == cf.into
           top == IF j # 0 THEN LargerOf(b, l + j) ELSE b + n
<1>1. /\ caller \in Frame /\ FrameFits(caller) /\ ~caller.open
      /\ b \in Nat /\ j \in Nat /\ l \in Nat /\ v \in Nat /\ caller.f.isG \in BOOLEAN
      /\ cf.want \in Nat \cup {MultRet}
  BY CallerProperties, FrameTypes
<1>2. IF j # 0 THEN ~caller.f.isG /\ j <= v + 1 /\ l + v <= b
      ELSE IF caller.f.isG THEN l <= b ELSE b = l + v
  BY CallerProperties
<1>3. CASE caller.f.isG
  <2>1. a = caller /\ v = 0 /\ j = 0
    BY <1>1, <1>2, <1>3 DEF Resumed, FrameFits
  <2> HIDE DEF a
  <2>2. l + v <= top
    <3> HIDE DEF b, l, v, j
    <3> QED
      BY <1>1, <1>2, <1>3, <2>1
  <2> QED
    BY <1>1, <2>1, <2>2 DEF a
<1>4. CASE ~caller.f.isG /\ j # 0
  <2> DEFINE m == LargerOf(v, j)
  <2>1. m \in Nat /\ m \in {v, j}
    BY <1>1, LargerProperties
  <2>2. a = [caller EXCEPT !.live = m]
    BY <1>4 DEF Resumed
  <2> HIDE DEF m, a
  <2>3. /\ a \in Frame /\ a.f = caller.f /\ a.base = caller.base /\ a.localBase = l
        /\ a.returnBase = caller.returnBase /\ a.want = caller.want /\ a.into = caller.into
        /\ a.tail = caller.tail /\ a.nargs = caller.nargs /\ a.live = m
    BY <1>1, <2>1, <2>2 DEF Frame
  <2>4. FrameFits(a)
    BY <1>1, <1>4, <2>3 DEF FrameFits
  <2>5. l + m <= top
    <3> HIDE DEF b, l, v, j
    <3> QED
      BY <1>1, <1>2, <1>4, <2>1 DEF LargerOf
  <2> QED
    BY <1>4, <2>3, <2>4, <2>5 DEF a
<1>5. CASE ~caller.f.isG /\ j = 0
  <2> DEFINE m == b - l + n
             o == cf.want = MultRet
  <2>1. m \in Nat /\ l + m = b + n
    <3> HIDE DEF b, l, v, j
    <3> QED
      BY <1>1, <1>2, <1>5
  <2>2. a = [caller EXCEPT !.live = m, !.open = o]
    BY <1>5 DEF Resumed
  <2>3. o \in BOOLEAN
    OBVIOUS
  <2> HIDE DEF m, a, o
  <2>4. /\ a \in Frame /\ a.f = caller.f /\ a.base = caller.base /\ a.localBase = l
        /\ a.returnBase = caller.returnBase /\ a.want = caller.want /\ a.into = caller.into
        /\ a.tail = caller.tail /\ a.nargs = caller.nargs /\ a.live = m
    BY <1>1, <2>1, <2>2, <2>3 DEF Frame
  <2>5. FrameFits(a)
    BY <1>1, <1>5, <2>4 DEF FrameFits
  <2>6. l + m <= top
    <3> HIDE DEF l
    <3> QED
      BY <1>1, <1>5, <2>1
  <2> QED
    BY <1>5, <2>4, <2>5, <2>6 DEF a
<1> QED
  BY <1>1, <1>3, <1>4, <1>5

LEMMA ReturnsInv ==
  ASSUME IInv, Len(frames) # 1, NEW n \in Nat, cf.want # MultRet => n = cf.want,
         NEW r, Grows(rg, r), ~r.overflow => r.top = cf.returnBase + n, Returns(r, n)
  PROVE  IInv'
<1> DEFINE c == CallerIndex
           a == Resumed(n)
           g == SubSeq(frames, 1, c - 1)
           fs == Append(g, a)
           ms == IF marks # <<>> /\ Last(marks).sp = c THEN Front(marks) ELSE marks
           s == IF r.overflow THEN r ELSE AfterCall(r)
           top == IF cf.into # 0 THEN LargerOf(cf.returnBase, caller.localBase + cf.into)
                  ELSE cf.returnBase + n
<1>1. Ends(s, fs, ms)
  BY DEF Returns
<1>2. /\ Sound(rg) /\ Framed(frames, marks) /\ frames \in Seq(Frame) /\ marks \in Seq(Mark)
      /\ Len(frames) \in Nat \ {0} /\ Len(marks) \in Nat
  BY Current DEF Framed
<1>3. /\ c \in 1..Len(frames) - 1 /\ c \in 1..Len(frames) /\ c \in Nat \ {0} /\ caller = frames[c]
      /\ caller \in Frame /\ FrameFits(caller)
      /\ \A i \in 1..Len(marks) : marks[i].sp \in 1..c
  <2>1. c \in 1..Len(frames) - 1
    BY CallerProperties
  <2>2. c \in 1..Len(frames) /\ c \in Nat \ {0}
    <3> HIDE DEF c
    <3> QED
      BY <1>2, <2>1
  <2> QED
    BY <2>1, <2>2, CallerProperties DEF caller
<1>4. Grows(rg, s) /\ (~s.overflow => s.top = top)
  <2>1. CASE r.overflow
    BY <2>1
  <2>2. CASE ~r.overflow
    <3>1. Sound(r) /\ r.top = cf.returnBase + n
      BY <2>2 DEF Grows
    <3> DEFINE t == AfterCall(r)
    <3>2. Grows(r, t) /\ (~t.overflow => t.top = top)
      BY <2>2, <3>1, AfterCallProperties
    <3>3. s = t
      BY <2>2
    <3> HIDE DEF s, t, top
    <3> QED
      BY <1>2, <3>2, <3>3, GrowsTwice
  <2> QED
    BY <2>1, <2>2
<1>5. /\ a \in Frame /\ FrameFits(a) /\ (caller.f.isG => a = caller)
      /\ a.f = caller.f /\ a.base = caller.base /\ a.localBase = caller.localBase
      /\ a.returnBase = caller.returnBase /\ a.want = caller.want /\ a.into = caller.into
      /\ a.tail = caller.tail
      /\ a.localBase + a.live <= top
  BY ResumedProperties
<1> HIDE DEF c, a, s, top
<1>6. g \in Seq(Frame) /\ Len(g) = c - 1 /\ \A i \in 1..c - 1 : g[i] = frames[i]
  <2>1. c - 1 \in 0..Len(frames)
    BY <1>2, <1>3
  <2> QED
    BY <1>2, <2>1, PrefixProperties
<1> HIDE DEF g
<1>7. fs \in Seq(Frame) /\ Len(fs) = c /\ fs[c] = a /\ \A i \in 1..c - 1 : fs[i] = frames[i]
  <2>1. /\ fs \in Seq(Frame) /\ Len(fs) = Len(g) + 1 /\ fs[Len(g) + 1] = a
        /\ \A i \in 1..Len(g) : fs[i] = g[i]
    BY <1>5, <1>6, AppendProperties
  <2>2. Len(g) + 1 = c
    BY <1>3, <1>6
  <2> HIDE DEF fs
  <2> QED
    BY <1>6, <2>1, <2>2
<1> HIDE DEF fs
<1>8. /\ ms \in Seq(Mark) /\ Len(ms) <= Len(marks)
      /\ \A i \in 1..Len(ms) : ms[i] = marks[i] /\ ms[i].sp < c
  <2> DEFINE m == Len(marks)
  <2>1. \A i, j \in 1..m : i < j => marks[i].sp < marks[j].sp
    BY <1>2 DEF Framed
  <2>2. CASE marks # <<>> /\ Last(marks).sp = c
    <3>1. m # 0 /\ m - 1 \in 0..m /\ m \in 1..m
      BY <1>2, <2>2, EmptySeq
    <3>2. ms = SubSeq(marks, 1, m - 1) /\ marks[m].sp = c
      BY <2>2 DEF Front, Last
    <3>3. ms \in Seq(Mark) /\ Len(ms) = m - 1 /\ \A i \in 1..m - 1 : ms[i] = marks[i]
      <4> DEFINE e == m - 1
                 t == SubSeq(marks, 1, e)
      <4>1. marks \in Seq(Mark) /\ e \in 0..Len(marks)
        BY <1>2, <3>1
      <4> HIDE DEF e
      <4>2. t \in Seq(Mark) /\ Len(t) = e /\ \A i \in 1..e : t[i] = marks[i]
        BY <4>1, PrefixProperties
      <4>3. ms = t
        BY <3>2 DEF e
      <4> HIDE DEF t, ms
      <4> QED
        BY <4>2, <4>3 DEF e
    <3> HIDE DEF ms
    <3>4. ASSUME NEW i \in 1..m - 1
          PROVE  marks[i].sp < c
      <4>1. i \in 1..m /\ i < m
        BY <1>2
      <4> QED
        BY <2>1, <3>1, <3>2, <4>1
    <3> QED
      BY <1>2, <3>3, <3>4
  <2>3. CASE ~(marks # <<>> /\ Last(marks).sp = c)
    <3>1. ms = marks
      BY <2>3
    <3>2. ASSUME NEW i \in 1..m
          PROVE  marks[i].sp < c
      <4>1. marks[i].sp \in 1..c /\ m \in 1..m /\ marks[m].sp \in 1..c
        BY <1>2, <1>3
      <4>2. marks[m].sp # c
        <5>1. marks # <<>>
          BY <1>2, <4>1, EmptySeq
        <5> QED
          BY <2>3, <5>1 DEF Last
      <4>3. CASE i = m
        BY <1>3, <4>1, <4>2, <4>3
      <4>4. CASE i # m
        <5>1. marks[i].sp < marks[m].sp
          BY <1>2, <2>1, <4>1, <4>4
        <5> QED
          BY <1>3, <4>1, <5>1
      <4> QED
        BY <4>3, <4>4
    <3> HIDE DEF ms
    <3> QED
      BY <1>2, <3>1, <3>2
  <2> QED
    BY <2>2, <2>3
<1> HIDE DEF ms
<1>9. c = 1 => a = Host
  <2>1. frames[1] = Host /\ Host.f.isG = TRUE
    BY <1>2, HostProperties DEF Framed
  <2>2. c = 1 => caller = Host
    BY <1>3, <2>1
  <2> QED
    BY <1>5, <2>1, <2>2
<1>10. c # 1 => Above(frames[c - 1], a)
  <2> DEFINE d == frames[c - 1]
  <2>1. c # 1 => Above(d, caller)
    <3>1. c # 1 => c - 1 \in 1..Len(frames) /\ c = c - 1 + 1
      BY <1>2, <1>3
    <3> QED
      BY <1>2, <1>3, <3>1 DEF Framed
  <2> HIDE DEF d
  <2>2. c # 1 => Above(d, a)
    BY <1>5, <2>1 DEF Above
  <2> QED
    BY <2>2 DEF d
<1>11. Framed(fs, ms)
  <2>1. a.base = frames[c].base
    BY <1>3, <1>5
  <2>2. Framed(frames, marks) /\ c \in 1..Len(frames) /\ a \in Frame /\ FrameFits(a)
    BY <1>2, <1>3, <1>5
  <2> QED
    BY <1>7, <1>8, <1>9, <1>10, <2>1, <2>2, CutFramed
<1>12. ~s.overflow => Covered(fs, s.top)
  BY <1>4, <1>5, <1>7 DEF Covered
<1> QED
  BY <1>1, <1>4, <1>11, <1>12, EndsInv

\* What a function returns lies above the place it goes to.
LEMMA WantedProperties ==
  ASSUME IInv, Len(frames) # 1, NEW n \in Nat
  PROVE  Wanted(n) \in Nat /\ (cf.want # MultRet => Wanted(n) = cf.want)
BY CallerProperties DEF Wanted

LEMMA ReturnInv ==
  ASSUME IInv, NEW a \in Nat, NEW b \in Nat, Return(a, b)
  PROVE  IInv'
<1> DEFINE n == Wanted(b - a)
           to == cf.returnBase
           start == Register(a)
           d == IF cf.open THEN 0 ELSE b - a + 1
           r == copyReturnValues(rg, to, start, n, d)
<1>1. ~cf.f.isG /\ a <= b /\ b <= Live /\ Returns(r, n)
  BY DEF Return
<1>2. Len(frames) # 1 /\ cf.returnBase <= cf.base /\ cf.base \in Nat
  BY <1>1, LuaCurrent
<1>3. b - a \in Nat /\ Live \in Nat
  BY <1>1, Current
<1>4. n \in Nat /\ (cf.want # MultRet => n = cf.want)
  BY <1>2, <1>3, WantedProperties
<1>5. /\ Sound(rg) /\ ~rg.overflow /\ rg.top \in Nat /\ to \in Nat /\ cf.localBase \in Nat
      /\ cf.base + 1 <= cf.localBase /\ cf.localBase + Live <= rg.top /\ cf.open \in BOOLEAN
  BY Current DEF IInv
<1>6. start \in Nat /\ start = cf.localBase + a /\ cf.localBase <= start
  BY RegisterProperties
<1>7. to <= start /\ to <= rg.top /\ d \in Nat /\ (d # 0 => start + (d - 1) <= rg.top)
  <2> DEFINE x == cf.base
             l == cf.localBase
             y == Live
             t == rg.top
  <2>1. /\ x \in Nat /\ l \in Nat /\ y \in Nat /\ t \in Nat /\ to \in Nat /\ to <= x /\ x + 1 <= l
        /\ l + y <= t /\ a <= b /\ b <= y /\ start = l + a
    BY <1>1, <1>2, <1>3, <1>5, <1>6
  <2> HIDE DEF x, l, y, t, to, start
  <2>2. to <= start /\ to <= t
    BY <2>1
  <2>3. d \in Nat /\ (d # 0 => d - 1 = b - a)
    BY <1>3, <1>5
  <2>4. start + (b - a) <= t
    BY <2>1
  <2> HIDE DEF d
  <2>5. d # 0 => start + (d - 1) <= t
    BY <2>3, <2>4
  <2> QED
    BY <2>2, <2>3, <2>5 DEF t
<1> HIDE DEF n, d, start
<1>8. Grows(rg, r) /\ (~r.overflow => r.top = to + n)
  <2> HIDE DEF to
  <2> DEFINE t == copyReturnValues(rg, to, start, n, d)
  <2>1. Sound(rg) /\ to \in Nat /\ start \in Nat /\ n \in Nat /\ d \in Nat /\ ~rg.overflow
    BY <1>4, <1>5, <1>6, <1>7
  <2>2. to <= rg.top /\ to <= start /\ (d # 0 => start + (d - 1) <= rg.top)
    BY <1>7
  <2>3. Grows(rg, t)
    BY <2>1, <2>2, CopyReturnProperties
  <2>4. ~t.overflow => t.top = to + n
    BY <2>1, <2>2, CopyReturnProperties
  <2> QED
    BY <2>3, <2>4
<1> HIDE DEF r
<1> QED
  BY <1>1, <1>2, <1>4, <1>8, ReturnsInv

LEMMA ReturnGoInv ==
  ASSUME IInv, NEW n \in Nat, ReturnGo(n)
  PROVE  IInv'
<1> DEFINE w == Wanted(n)
           to == cf.returnBase
           start == rg.top - n
           r == CopyRange(rg, to, start, NoLimit, w)
<1>1. cf.f.isG /\ Len(frames) > 1 /\ n <= Live /\ Returns(r, w)
  BY DEF ReturnGo, Serves
<1>2. /\ Sound(rg) /\ ~rg.overflow /\ rg.top \in Nat /\ to \in Nat /\ cf.localBase \in Nat
      /\ cf.base + 1 <= cf.localBase /\ cf.localBase + Live <= rg.top /\ Live \in Nat
      /\ cf.base \in Int /\ Len(frames) \in Nat
  BY Current DEF IInv
<1>3. Len(frames) # 1
  <2> DEFINE c == Len(frames)
  <2>1. c > 1 /\ c \in Nat
    BY <1>1, <1>2
  <2> HIDE DEF c
  <2>2. c # 1
    BY <2>1
  <2> QED
    BY <2>2 DEF c
<1>4. to <= cf.base /\ w \in Nat /\ (cf.want # MultRet => w = cf.want)
  BY <1>3, CallerProperties, WantedProperties
<1>5. start \in Nat /\ to <= start /\ to <= rg.top
  <2> DEFINE x == cf.base
             l == cf.localBase
             y == Live
             t == rg.top
  <2>1. /\ x \in Int /\ l \in Nat /\ y \in Nat /\ t \in Nat /\ to \in Nat /\ to <= x /\ x + 1 <= l
        /\ l + y <= t /\ n <= y
    BY <1>1, <1>2, <1>4
  <2> HIDE DEF x, l, y, t, to
  <2>2. t - n \in Nat /\ to <= t - n /\ to <= t
    BY <2>1
  <2> QED
    BY <2>2 DEF t
<1> HIDE DEF w, start
<1>6. Apart(to, start, NoLimit) /\ NoLimit \in Int
  BY <1>5 DEF Apart, NoLimit
<1>7. Grows(rg, r) /\ (~r.overflow => r.top = to + w)
  <2> HIDE DEF to
  <2> QED
    BY <1>2, <1>4, <1>5, <1>6, CopyRangeProperties
<1> HIDE DEF r
<1> QED
  BY <1>1, <1>3, <1>4, <1>7, ReturnsInv

-----------------------------------------------------------------------------
(* Errors, and the theorems.                                               *)

LEMMA RaiseErrorInv ==
  ASSUME IInv, RaiseError
  PROVE  IInv'
<1>1. Sound(rg)
  BY DEF IInv
<1>2. Sound(Raised(rg)) /\ ~Raised(rg).overflow /\ rg.size <= Raised(rg).size
  BY <1>1, RaisedProperties
<1>3. Recovers(Raised(rg))
  BY DEF RaiseError
<1> QED
  BY <1>2, <1>3, RecoversInv

LEMMA ErrorInv ==
  ASSUME IInv, NEW v \in LuaValues, Error(v)
  PROVE  IInv'
<1> DEFINE p == Push(rg, v)
           r == Thrown(p)
<1>1. Sound(rg)
  BY DEF IInv
<1>2. Grows(rg, p)
  BY <1>1, PushProperties
<1> HIDE DEF p
<1>3. Sound(p) /\ rg.size <= p.size
  BY <1>2 DEF Grows
<1>4. Sound(r) /\ ~r.overflow /\ rg.size <= r.size
  <2>1. Sound(Raised(p)) /\ ~Raised(p).overflow /\ p.size <= Raised(p).size
    BY <1>3, RaisedProperties
  <2>2. rg.size \in Nat /\ p.size \in Nat /\ Raised(p).size \in Nat
    BY <1>1, <1>3, <2>1, SoundTypes
  <2>3. rg.size <= Raised(p).size
    <3> DEFINE x == rg.size
               y == p.size
               z == Raised(p).size
    <3>1. x \in Nat /\ y \in Nat /\ z \in Nat /\ x <= y /\ y <= z
      BY <1>3, <2>1, <2>2
    <3> HIDE DEF x, y, z
    <3>2. x <= z
      BY <3>1
    <3> QED
      BY <3>2 DEF x, z
  <2>4. r = IF p.overflow THEN Raised(p) ELSE p
    BY DEF Thrown
  <2> HIDE DEF r
  <2> QED
    BY <1>3, <2>1, <2>3, <2>4
<1>5. Recovers(r)
  BY DEF Error, p
<1> HIDE DEF r
<1> QED
  BY <1>4, <1>5, RecoversInv

LEMMA InitInv == Init => IInv
<1> SUFFICES ASSUME Init
             PROVE  IInv
  OBVIOUS
<1> DEFINE a == [i \in 0..InitialSize - 1 |-> Empty]
<1>1. /\ rg = [array |-> a, size |-> InitialSize, top |-> 0, overflow |-> FALSE]
      /\ frames = <<Host>> /\ marks = <<>>
  BY DEF Init
<1>2. a \in [0..InitialSize - 1 -> Stores]
  BY DEF Stores
<1>3. InitialSize \in Nat
  BY SizeAssumption
<1> HIDE DEF a
<1>4. rg \in Registries
  BY <1>1, <1>2, <1>3 DEF Registries
<1>5. Sound(rg) /\ ~rg.overflow /\ rg.top = 0
  <2>1. rg.array = a /\ rg.size = InitialSize /\ rg.top = 0 /\ rg.overflow = FALSE
    BY <1>1
  <2> QED
    BY <1>2, <1>3, <1>4, <2>1 DEF Sound
<1>6. Host \in Frame
  <2> DEFINE x == callFrame(HostFunction, -1, 0, 0, 0, 0, FALSE)
  <2>1. x = [f |-> HostFunction, base |-> -1, localBase |-> 0, returnBase |-> 0, nargs |-> 0,
             want |-> 0, into |-> 0, tail |-> FALSE, live |-> 0, open |-> FALSE]
    BY DEF callFrame, HostFunction, LocalBaseOf
  <2>2. Host = [x EXCEPT !.localBase = 0]
    BY DEF Host, HostFunction
  <2> HIDE DEF x
  <2>3. x \in Frame
    BY <2>1 DEF Frame
  <2> QED
    BY <2>2, <2>3 DEF Frame
<1>7. FrameFits(Host)
  BY HostProperties DEF FrameFits, LocalBaseOf
<1> HIDE DEF Host
<1>8. frames \in Seq(Frame) /\ Len(frames) = 1 /\ frames[1] = Host /\ frames # <<>>
  BY <1>1, <1>6
<1>9. marks \in Seq(Mark) /\ Len(marks) = 0
  BY <1>1
<1>10. Framed(frames, marks)
  <2>1. \A k \in 1..Len(frames) : FrameFits(frames[k])
    BY <1>7, <1>8
  <2>2. \A k, n \in 1..Len(frames) : n = k + 1 => Above(frames[k], frames[n])
    BY <1>8
  <2>3. 1..Len(marks) = {}
    BY <1>9
  <2> QED
    BY <1>8, <1>9, <2>1, <2>2, <2>3 DEF Framed
<1>11. Covered(frames, rg.top)
  BY <1>5, <1>8, HostProperties DEF Covered
<1> QED
  BY <1>5, <1>10, <1>11 DEF IInv

LEMMA NextInv == IInv /\ [Next]_vars => IInv'
<1> SUFFICES ASSUME IInv, [Next]_vars
             PROVE  IInv'
  OBVIOUS
<1>1. 0..MaxLive \subseteq Nat /\ 0..MaxLive + 1 \subseteq Nat /\ Lengths \subseteq Nat \cup {MultRet}
  BY BoundAssumption DEF Lengths
<1>2. Values \subseteq LuaValues /\ Wants \subseteq Nat \cup {MultRet}
  BY WantAssumption DEF LuaValues
<1>3. CASE UNCHANGED vars
  BY <1>3 DEF vars, IInv
<1>4. CASE \E i \in 0..MaxLive, v \in LuaValues :
             SetRegister(i, v) \/ APIReplace(i, v) \/ APIInsert(i, v)
  <2> PICK i \in 0..MaxLive, v \in LuaValues :
             SetRegister(i, v) \/ APIReplace(i, v) \/ APIInsert(i, v)
    BY <1>4
  <2>1. i \in Nat
    BY <1>1
  <2> QED
    BY <2>1, SetRegisterInv, APIReplaceInv, APIInsertInv
<1>5. CASE \E v \in LuaValues : APIPush(v)
  BY <1>5, APIPushInv
<1>6. CASE \E v \in Values : Error(v)
  BY <1>2, <1>6, ErrorInv
<1>7. CASE \E n \in 0..MaxLive : APISetTop(n) \/ APIRemove(n)
  <2> PICK n \in 0..MaxLive : APISetTop(n) \/ APIRemove(n)
    BY <1>7
  <2>1. n \in Nat
    BY <1>1
  <2> QED
    BY <2>1, APISetTopInv, APIRemoveInv
<1>8. CASE \E k \in 0..MaxLive, f \in Functions, meta \in BOOLEAN :
             \/ TailCallGo(k, f, meta) \/ TailCallLua(k, f, meta)
             \/ \E want \in Wants : Call(k, f, meta, want) \/ PCall(k, f, meta, want)
  <2> PICK k \in 0..MaxLive, f \in Functions, meta \in BOOLEAN :
             \/ TailCallGo(k, f, meta) \/ TailCallLua(k, f, meta)
             \/ \E want \in Wants : Call(k, f, meta, want) \/ PCall(k, f, meta, want)
    BY <1>8
  <2>1. k \in Nat
    BY <1>1
  <2>2. CASE TailCallGo(k, f, meta)
    BY <2>1, <2>2, TailCallGoInv
  <2>3. CASE TailCallLua(k, f, meta)
    BY <2>1, <2>3, TailCallLuaInv
  <2>4. CASE \E want \in Wants : Call(k, f, meta, want) \/ PCall(k, f, meta, want)
    <3> PICK want \in Wants : Call(k, f, meta, want) \/ PCall(k, f, meta, want)
      BY <2>4
    <3>1. want \in Nat \cup {MultRet}
      BY <1>2
    <3> QED
      BY <2>1, <3>1, CallInv, PCallInv
  <2> QED
    BY <2>2, <2>3, <2>4
<1>9. CASE \E f \in Functions, x \in Values, into \in 0..MaxLive : Metamethod(f, x, into)
  <2> PICK f \in Functions, x \in Values, into \in 0..MaxLive : Metamethod(f, x, into)
    BY <1>9
  <2>1. into \in Nat
    BY <1>1
  <2> QED
    BY <2>1, MetamethodInv
<1>10. CASE \E k \in 0..MaxLive, n \in Lengths : VarArg(k, n)
  <2> PICK k \in 0..MaxLive, n \in Lengths : VarArg(k, n)
    BY <1>10
  <2>1. k \in Nat /\ n \in Nat \cup {MultRet}
    BY <1>1
  <2> QED
    BY <2>1, VarArgInv
<1>11. CASE \E a, b \in 0..MaxLive + 1 : Return(a, b)
  <2> PICK a \in 0..MaxLive + 1, b \in 0..MaxLive + 1 : Return(a, b)
    BY <1>11
  <2>1. a \in Nat /\ b \in Nat
    BY <1>1
  <2> QED
    BY <2>1, ReturnInv
<1>12. CASE \E n \in 0..MaxLive + 1 : ReturnGo(n)
  <2> PICK n \in 0..MaxLive + 1 : ReturnGo(n)
    BY <1>12
  <2>1. n \in Nat
    BY <1>1
  <2> QED
    BY <2>1, ReturnGoInv
<1>13. CASE RaiseError
  BY <1>13, RaiseErrorInv
<1> QED
  BY <1>3, <1>4, <1>5, <1>6, <1>7, <1>8, <1>9, <1>10, <1>11, <1>12, <1>13 DEF Next

LEMMA Invariant == Spec => []IInv
<1>1. Init => IInv
  BY InitInv
<1>2. IInv /\ [Next]_vars => IInv'
  BY NextInv
<1> QED
  BY <1>1, <1>2, PTL DEF Spec

(* No step of any program stores outside the array of the registry, top is *)
(* never above its size, and the window of every function that has not     *)
(* returned lies below top, after errors, tail calls and resizes as well.  *)
THEOREM TypeCorrect == Spec => []TypeOK
<1>1. IInv => TypeOK
  <2> SUFFICES ASSUME IInv
               PROVE  TypeOK
    OBVIOUS
  <2>1. /\ rg.array \in [0..rg.size - 1 -> Stores] /\ rg.top \in 0..rg.size /\ rg.overflow = FALSE
    BY SoundTypes DEF IInv, Sound
  <2>2. Framed(frames, marks) /\ rg.top \in Nat /\ Covered(frames, rg.top)
    BY SoundTypes DEF IInv
  <2>3. ASSUME NEW k \in 1..Len(frames)
        PROVE  frames[k].localBase \in 0..rg.top /\ frames[k].localBase + frames[k].live <= rg.top
    <3> DEFINE l == frames[k].localBase
               n == frames[k].live
               t == rg.top
    <3>1. l \in Nat /\ n \in Nat /\ t \in Nat /\ l + n <= t
      BY <2>2, AllCovered, FramedTypes, FrameTypes
    <3> HIDE DEF l, n, t
    <3>2. l \in 0..t
      BY <3>1
    <3> QED
      BY <3>1, <3>2 DEF l, n, t
  <2>4. ASSUME NEW i \in 1..Len(marks)
        PROVE  marks[i].sp \in 1..Len(frames) /\ marks[i].base \in 0..rg.top
    <3> DEFINE m == marks[i]
               c == Len(frames)
               t == rg.top
    <3>1. m.sp \in 1..c - 1 /\ m.base = frames[m.sp + 1].base /\ m.base \in Nat /\ c \in Nat
      BY <2>2, FramedTypes DEF Framed, MarkFits
    <3> DEFINE p == m.sp + 1
    <3>2. p \in 1..c /\ m.sp \in 1..c
      <4> HIDE DEF c, m
      <4> QED
        BY <3>1
    <3>3. /\ frames[p].base + 1 <= frames[p].localBase
          /\ frames[p].localBase + frames[p].live <= t
      BY <2>2, <3>2, AllCovered
    <3>4. frames[p].base \in Int /\ frames[p].localBase \in Nat /\ frames[p].live \in Nat
      BY <2>2, <3>2, FramedTypes, FrameTypes
    <3>5. m.base \in 0..t
      <4> DEFINE x == frames[p].base
                 y == frames[p].localBase
                 z == frames[p].live
      <4>1. /\ x \in Nat /\ y \in Nat /\ z \in Nat /\ t \in Nat /\ x + 1 <= y /\ y + z <= t
            /\ m.base = x
        BY <2>2, <3>1, <3>3, <3>4
      <4> HIDE DEF x, y, z, t
      <4>2. x \in 0..t
        BY <4>1
      <4> QED
        BY <4>1, <4>2
    <3> QED
      BY <3>2, <3>5
  <2> QED
    BY <2>1, <2>3, <2>4 DEF TypeOK
<1> QED
  BY <1>1, Invariant, PTL

(* No register below top is ever without a value, however often the array  *)
(* is replaced by a larger one.                                            *)
THEOREM RegistersInitialised == Spec => []Initialised
<1>1. IInv => Initialised
  BY DEF IInv, Sound, Initialised
<1> QED
  BY <1>1, Invariant, PTL

-----------------------------------------------------------------------------
(* What an operation keeps, when it overflows as well.                      *)

\* The first m registers are those of r.
Keeps(r, s, m) == m <= s.top /\ \A i \in 0..m - 1 : s.array[i] = r.array[i]

\* An overflow leaves the array as it was.
Leaves(r, s) == s.overflow => s.array = r.array /\ s.top = r.top

LEMMA KeepsTwice ==
  ASSUME NEW r, NEW s, NEW t, NEW m, Keeps(r, s, m), Keeps(s, t, m)
  PROVE  Keeps(r, t, m)
BY DEF Keeps

LEMMA KeepsLess ==
  ASSUME NEW r, NEW s, Sound(s), NEW m \in Int, NEW n \in Int, Keeps(r, s, m), n <= m
  PROVE  Keeps(r, s, n)
<1>1. s.top \in Nat
  BY SoundTypes
<1> QED
  BY <1>1 DEF Keeps

LEMMA KeepsIf ==
  ASSUME NEW r, Sound(r), NEW s, Leaves(r, s), NEW m \in Int, m <= r.top, ~s.overflow => Keeps(r, s, m)
  PROVE  Keeps(r, s, m)
BY DEF Keeps, Leaves

\* What makes room first and then stores.
LEMMA StoredLeaves ==
  ASSUME NEW r, Sound(r), NEW n, NEW c, NEW top
  PROVE  /\ Leaves(r, Stored(checkSize(r, n), c, top))
         /\ Leaves(r, Stored(r, c, top))
         /\ Leaves(r, Cleared(checkSize(r, n), c, top))
<1>1. r \in Registries /\ r.overflow \in BOOLEAN
  BY SoundTypes DEF Sound
<1>2. \A d, m : Leaves(r, Stored(r, d, m))
  BY <1>1 DEF Leaves, Stored, Registries
<1>3. \A d, m : Leaves(r, Stored(checkSize(r, n), d, m))
  <2>1. CASE checkSize(r, n) = r
    BY <1>2, <2>1
  <2>2. CASE checkSize(r, n) = [r EXCEPT !.overflow = TRUE]
    BY <1>1, <2>2 DEF Leaves, Stored, Registries
  <2>3. CASE ~r.overflow /\ checkSize(r, n) = forceResize(r, PaddedSize(n))
    <3> DEFINE s == forceResize(r, PaddedSize(n))
               p == PaddedSize(n)
    <3>1. s.overflow = r.overflow /\ \A d, m : ~[s EXCEPT !.array = Overlay(d, @), !.top = m].overflow
      BY <1>1, <2>3 DEF forceResize, Registries
    <3> QED
      BY <2>3, <3>1 DEF Leaves, Stored
  <2> QED
    BY <1>1, <2>1, <2>2, <2>3 DEF checkSize, resize
<1> QED
  BY <1>2, <1>3 DEF Cleared

LEMMA OperationsLeave ==
  ASSUME NEW r, Sound(r)
  PROVE  /\ \A n : Leaves(r, SetTop(r, n))
         /\ \A v : Leaves(r, Push(r, v))
         /\ \A i, v : Leaves(r, Set(r, i, v))
         /\ \A i, v : Leaves(r, Insert(r, v, i))
         /\ \A m, n : Leaves(r, FillNil(r, m, n))
         /\ \A to, start, limit, n : Leaves(r, CopyRange(r, to, start, limit, n))
<1>1. \A n, c, top : /\ Leaves(r, Stored(checkSize(r, n), c, top))
                     /\ Leaves(r, Cleared(checkSize(r, n), c, top))
  BY StoredLeaves
<1>2. \A i, v : Leaves(r, Set(r, i, v))
  BY <1>1 DEF Set
<1>3. \A i, v : Leaves(r, Insert(r, v, i))
  BY <1>1, <1>2 DEF Insert
<1>4. \A n : Leaves(r, SetTop(r, n))
  BY <1>1 DEF SetTop
<1>5. \A v : Leaves(r, Push(r, v))
  BY <1>1 DEF Push
<1>6. \A m, n : Leaves(r, FillNil(r, m, n))
  BY <1>1 DEF FillNil
<1>7. \A to, start, limit, n : Leaves(r, CopyRange(r, to, start, limit, n))
  BY <1>1 DEF CopyRange
<1> QED
  BY <1>2, <1>3, <1>4, <1>5, <1>6, <1>7

LEMMA SetTopKeeps ==
  ASSUME NEW r, Sound(r), NEW n \in Nat, NEW m \in Int, m <= n, m <= r.top
  PROVE  Keeps(r, SetTop(r, n), m)
<1> DEFINE s == SetTop(r, n)
<1>1. Leaves(r, s) /\ r.top \in Nat
  BY OperationsLeave, SoundTypes
<1>2. ~s.overflow => s.top = n /\ \A i \in 0..n - 1 : s.array[i] = IF i < r.top THEN r.array[i] ELSE LNil
  BY SetTopProperties
<1> HIDE DEF s
<1>3. ~s.overflow => Keeps(r, s, m)
  BY <1>1, <1>2 DEF Keeps
<1> QED
  BY <1>1, <1>3, KeepsIf DEF s

LEMMA SetKeeps ==
  ASSUME NEW r, Sound(r), NEW i \in 0..r.top, NEW v \in LuaValues, NEW m \in Int, m <= i
  PROVE  Keeps(r, Set(r, i, v), m)
<1> DEFINE s == Set(r, i, v)
<1>1. Leaves(r, s) /\ r.top \in Nat
  BY OperationsLeave, SoundTypes
<1>2. ~s.overflow => /\ s.top = LargerOf(r.top, i + 1)
                     /\ \A j \in 0..s.top - 1 : s.array[j] = IF j = i THEN v ELSE r.array[j]
  BY SetProperties
<1> HIDE DEF s
<1>3. ~s.overflow => Keeps(r, s, m)
  BY <1>1, <1>2 DEF Keeps, LargerOf
<1>4. m <= r.top
  BY <1>1
<1> QED
  BY <1>1, <1>3, <1>4, KeepsIf DEF s

LEMMA PushKeeps ==
  ASSUME NEW r, Sound(r), NEW v \in LuaValues, NEW m \in Int, m <= r.top
  PROVE  Keeps(r, Push(r, v), m)
<1> DEFINE s == Push(r, v)
<1>1. Leaves(r, s) /\ r.top \in Nat
  BY OperationsLeave, SoundTypes
<1>2. ~s.overflow => /\ s.top = r.top + 1
                     /\ \A j \in 0..s.top - 1 : s.array[j] = IF j = r.top THEN v ELSE r.array[j]
  BY PushProperties
<1> HIDE DEF s
<1>3. ~s.overflow => Keeps(r, s, m)
  BY <1>1, <1>2 DEF Keeps
<1> QED
  BY <1>1, <1>3, KeepsIf DEF s

LEMMA InsertKeeps ==
  ASSUME NEW r, Sound(r), NEW i \in 0..r.top, NEW v \in LuaValues, NEW m \in Int, m <= i
  PROVE  Keeps(r, Insert(r, v, i), m)
<1> DEFINE s == Insert(r, v, i)
<1>1. Leaves(r, s) /\ r.top \in Nat
  BY OperationsLeave, SoundTypes
<1>2. ~s.overflow =>
        /\ s.top = r.top + 1
        /\ \A j \in 0..s.top - 1 :
             s.array[j] = IF j < i THEN r.array[j] ELSE IF j = i THEN v ELSE r.array[j - 1]
  BY InsertProperties
<1> HIDE DEF s
<1>3. ~s.overflow => Keeps(r, s, m)
  BY <1>1, <1>2 DEF Keeps
<1>4. m <= r.top
  BY <1>1
<1> QED
  BY <1>1, <1>3, <1>4, KeepsIf DEF s

LEMMA CopyRangeKeeps ==
  ASSUME NEW r, Sound(r), NEW to \in Nat, NEW start \in Nat, NEW limit \in Int, NEW n \in Nat,
         to <= r.top, Apart(to, start, limit), NEW m \in Int, m <= to
  PROVE  Keeps(r, CopyRange(r, to, start, limit, n), m)
<1> DEFINE s == CopyRange(r, to, start, limit, n)
<1>1. Leaves(r, s) /\ r.top \in Nat
  BY OperationsLeave, SoundTypes
<1>2. ~s.overflow => /\ s.top = to + n
                     /\ \A j \in 0..s.top - 1 :
                          s.array[j] = IF j < to THEN r.array[j]
                                       ELSE IF start + (j - to) < CopyEnd(r, limit)
                                       THEN r.array[start + (j - to)] ELSE LNil
  BY CopyRangeProperties
<1> HIDE DEF s
<1>3. ~s.overflow => Keeps(r, s, m)
  BY <1>1, <1>2 DEF Keeps
<1>4. m <= r.top
  BY <1>1
<1> QED
  BY <1>1, <1>3, <1>4, KeepsIf DEF s

LEMMA CopyReturnKeeps ==
  ASSUME NEW r, Sound(r), NEW to \in Nat, NEW start \in Nat, NEW n \in Nat, NEW b \in Nat,
         to <= r.top, to <= start
  PROVE  Keeps(r, copyReturnValues(r, to, start, n, b), to)
<1> DEFINE copied == CopyRange(r, to, start, NoLimit, n)
           s == copyReturnValues(r, to, start, n, b)
           m == to + (b - 1)
           k == n - (b - 1)
<1>1. r.top \in Nat /\ NoLimit \in Int /\ Apart(to, start, NoLimit)
  BY SoundTypes DEF Apart, NoLimit
<1>2. Grows(r, copied) /\ Keeps(r, copied, to) /\ (~copied.overflow => copied.top = to + n)
  <2>1. Grows(r, copied)
    BY <1>1, CopyRangeProperties
  <2>2. ~copied.overflow => copied.top = to + n
    BY <1>1, CopyRangeProperties
  <2>3. to \in Int /\ to <= to
    OBVIOUS
  <2>4. Keeps(r, copied, to)
    BY <1>1, <2>3, CopyRangeKeeps
  <2> QED
    BY <2>1, <2>2, <2>4
<1> HIDE DEF copied
<1>3. ASSUME NEW t, Sound(t), NEW x \in Nat, NEW y \in Nat, to <= x, to <= t.top, ~t.overflow => x <= t.top
      PROVE  Keeps(t, FillNil(t, x, y), to)
  <2> DEFINE u == FillNil(t, x, y)
  <2>1. Leaves(t, u) /\ t.top \in Nat
    BY <1>3, OperationsLeave, SoundTypes
  <2>2. ~u.overflow => /\ u.top = x + y
                       /\ \A j \in 0..u.top - 1 : u.array[j] = IF j < x THEN t.array[j] ELSE LNil
    BY <1>3, FillNilProperties
  <2> HIDE DEF u
  <2>3. ~u.overflow => Keeps(t, u, to)
    BY <1>3, <2>1, <2>2 DEF Keeps
  <2> QED
    BY <1>3, <2>1, <2>3, KeepsIf DEF u
<1>4. CASE b = 1
  BY <1>3, <1>4 DEF copyReturnValues
<1>5. CASE b # 1 /\ b > 1 /\ n > b - 1
  <2>1. s = FillNil(copied, m, k)
    BY <1>5 DEF copyReturnValues, copied
  <2>2. m \in Nat /\ k \in Nat /\ m <= to + n /\ to <= m
    BY <1>5
  <2> HIDE DEF s, m, k
  <2>3. Sound(copied) /\ to <= copied.top
    BY <1>2 DEF Grows, Keeps
  <2>4. Keeps(copied, s, to)
    BY <1>2, <1>3, <2>1, <2>2, <2>3
  <2> QED
    BY <1>2, <2>4, KeepsTwice DEF s
<1>6. CASE b # 1 /\ ~(b > 1 /\ n > b - 1)
  <2>1. s = copied
    BY <1>6 DEF copyReturnValues, copied
  <2> QED
    BY <1>2, <2>1
<1> QED
  BY <1>4, <1>5, <1>6

LEMMA MissingKeeps ==
  ASSUME NEW r, Sound(r), NEW f \in Functions, NEW lbase \in Nat, NEW nargs \in Nat,
         ~r.overflow => lbase + nargs <= r.top, NEW m \in Int, m <= lbase, m <= r.top
  PROVE  Keeps(r, Missing(r, f, lbase, nargs), m)
<1> DEFINE s == Missing(r, f, lbase, nargs)
           given == LargerOf(nargs, f.np)
<1>1. f.np \in Nat /\ given \in Nat /\ nargs <= given
  BY FunctionTypes, LargerProperties
<1>2. /\ Grows(r, s)
      /\ ~s.overflow =>
           /\ lbase + given <= s.top
           /\ \A i \in 0..lbase + given - 1 : s.array[i] = IF i < lbase + nargs THEN r.array[i] ELSE LNil
  BY MissingProperties
<1>3. Leaves(r, s)
  BY StoredLeaves DEF Missing, Leaves
<1> HIDE DEF s, given
<1>4. ASSUME ~s.overflow
      PROVE  Keeps(r, s, m)
  <2>1. s.top \in Nat
    BY <1>2, SoundTypes DEF Grows
  <2>2. m <= s.top
    BY <1>1, <1>2, <1>4, <2>1
  <2>3. \A i \in 0..m - 1 : i \in 0..lbase + given - 1 /\ i < lbase + nargs
    BY <1>1
  <2> QED
    BY <1>2, <1>4, <2>2, <2>3 DEF Keeps
<1> QED
  BY <1>3, <1>4, KeepsIf DEF s

LEMMA FixedWindowKeeps ==
  ASSUME NEW r, Sound(r), NEW f \in Functions, ~f.isG, NEW lbase \in Nat, NEW given \in Nat,
         f.np <= given, ~r.overflow => lbase + given <= r.top, NEW m \in Int, m <= lbase, m <= r.top
  PROVE  Keeps(r, FixedWindow(r, f, lbase, given), m)
<1> DEFINE s == FixedWindow(r, f, lbase, given)
<1>1. f.np \in Nat /\ f.used \in Nat
  BY FunctionTypes
<1>2. /\ Grows(r, s)
      /\ ~s.overflow =>
           /\ s.top = lbase + f.used
           /\ \A i \in 0..s.top - 1 : s.array[i] = IF i < lbase + f.np THEN r.array[i] ELSE LNil
  BY FixedWindowProperties
<1>3. Leaves(r, s)
  BY StoredLeaves DEF FixedWindow
<1> HIDE DEF s
<1>4. ~s.overflow => Keeps(r, s, m)
  <2>1. lbase + f.used \in Nat /\ m <= lbase + f.used
    BY <1>1
  <2>2. \A i \in 0..m - 1 : i \in 0..lbase + f.used - 1 /\ i < lbase + f.np
    BY <1>1
  <2> QED
    BY <1>2, <2>1, <2>2 DEF Keeps
<1> QED
  BY <1>3, <1>4, KeepsIf DEF s

LEMMA VarArgWindowKeeps ==
  ASSUME NEW r, Sound(r), NEW f \in Functions, ~f.isG, NEW lbase \in Nat, NEW given \in Nat,
         f.np <= given, ~r.overflow => lbase + given <= r.top, NEW m \in Int, m <= lbase, m <= r.top
  PROVE  Keeps(r, VarArgWindow(r, f, lbase, given), m)
<1> DEFINE w == lbase + given
           n == w + f.np
           s1 == SetTop(r, n)
           s2 == Swapped(s1, f, lbase, given)
           s3 == SetTop(s2, n + 1)
           c == Single(n, LNil)
           s4 == Stored(s3, c, s3.top)
           s5 == SetTop(s4, w + f.used)
<1>1. VarArgWindow(r, f, lbase, given) = s5
  BY DEF VarArgWindow, ArgSlot
<1>2. /\ w \in Nat /\ n \in Nat /\ n + 1 \in Nat /\ w + f.used \in Nat /\ m <= n /\ m <= n + 1
      /\ m <= w + f.used /\ f.np \in Nat /\ lbase <= n /\ m <= w
  BY FunctionTypes
<1>3. c = Single(n, LNil) /\ DOMAIN c = {n} /\ c[n] = LNil
  BY SingleProperties
<1>4. Grows(r, s1) /\ Sound(s1) /\ (~s1.overflow => s1.top = n) /\ Keeps(r, s1, m)
  BY <1>2, SetTopProperties, SetTopKeeps DEF Grows
<1> HIDE DEF s1
<1>5. Sound(s2) /\ s2.overflow = s1.overflow /\ (~s2.overflow => s2.top = n) /\ Keeps(s1, s2, m)
  <2>1. /\ Grows(s1, s2) /\ s2.overflow = s1.overflow
        /\ ~s2.overflow =>
             /\ s2.top = s1.top
             /\ \A i \in 0..s2.top - 1 :
                  s2.array[i] = IF i \in lbase..lbase + f.np - 1 THEN LNil
                                ELSE IF i < lbase + given THEN s1.array[i] ELSE s1.array[i - given]
    BY <1>2, <1>4, SwappedProperties
  <2>2. Leaves(s1, s2)
    BY <1>4, StoredLeaves DEF Swapped
  <2> HIDE DEF s2
  <2>3. ASSUME ~s2.overflow
        PROVE  Keeps(s1, s2, m)
    <3>1. s2.top = n /\ m <= n
      BY <1>2, <1>4, <2>1, <2>3
    <3>2. ASSUME NEW i \in 0..m - 1
          PROVE  s2.array[i] = s1.array[i]
      <4> HIDE DEF n
      <4>1. i \in 0..s2.top - 1 /\ i \notin lbase..lbase + f.np - 1 /\ i < lbase + given
        BY <1>2, <3>1
      <4> QED
        BY <2>1, <2>3, <4>1
    <3> QED
      BY <3>1, <3>2 DEF Keeps
  <2>4. m <= s1.top
    BY <1>4 DEF Keeps
  <2>5. Keeps(s1, s2, m)
    BY <1>4, <2>2, <2>3, <2>4, KeepsIf
  <2> QED
    BY <1>4, <2>1, <2>5 DEF Grows
<1> HIDE DEF s2
<1>6. Grows(s2, s3) /\ Sound(s3) /\ (~s3.overflow => s3.top = n + 1) /\ Keeps(s2, s3, m)
  <2>1. m <= s2.top
    BY <1>5 DEF Keeps
  <2> QED
    BY <1>2, <1>5, <2>1, SetTopProperties, SetTopKeeps DEF Grows
<1> HIDE DEF s3
<1>7. Sound(s4) /\ Keeps(s3, s4, m)
  <2> HIDE DEF c, n
  <2>1. s3.top \in Nat /\ s3.size \in Nat /\ s3.top <= s3.size
    BY <1>6, SoundTypes
  <2>2. ~s3.overflow =>
            /\ s3.top <= s3.size
            /\ \A j \in DOMAIN c : j \in 0..s3.size - 1 /\ c[j] \in Stores
            /\ \A j \in 0..s3.top - 1 : IF j \in DOMAIN c THEN c[j] # Empty ELSE j < s3.top
    BY <1>2, <1>3, <1>6, <2>1, LuaValuesStored
  <2>3. /\ Grows(s3, s4) /\ s4.overflow = s3.overflow
        /\ ~s4.overflow =>
             /\ s4.top = s3.top
             /\ \A j \in 0..s3.top - 1 : s4.array[j] = IF j \in DOMAIN c THEN c[j] ELSE s3.array[j]
    BY <1>6, <2>1, <2>2, StoredProperties
  <2>4. Leaves(s3, s4)
    BY <1>6, StoredLeaves
  <2>5. m <= s3.top
    BY <1>6 DEF Keeps
  <2> HIDE DEF s4
  <2>6. ~s4.overflow => Keeps(s3, s4, m)
    BY <1>2, <1>3, <2>1, <2>3, <2>5 DEF Keeps
  <2> QED
    BY <1>6, <2>3, <2>4, <2>5, <2>6, KeepsIf DEF Grows
<1> HIDE DEF s4
<1>8. Keeps(s4, s5, m)
  <2>1. m <= s4.top
    BY <1>7 DEF Keeps
  <2> QED
    BY <1>2, <1>7, <2>1, SetTopKeeps
<1> HIDE DEF s5
<1> QED
  BY <1>1, <1>4, <1>5, <1>6, <1>7, <1>8, KeepsTwice

LEMMA InitCallFrameKeeps ==
  ASSUME NEW r, Sound(r), NEW f \in Functions, NEW lbase \in Nat, NEW nargs \in Nat,
         ~r.overflow => lbase + nargs <= r.top, NEW m \in Int, m <= lbase, m <= r.top
  PROVE  Keeps(r, initCallFrame(r, f, lbase, nargs), m)
<1> DEFINE given == LargerOf(nargs, f.np)
           s == Missing(r, f, lbase, nargs)
<1>1. f.isG \in BOOLEAN /\ f.vararg \in BOOLEAN /\ f.np \in Nat /\ given \in Nat /\ f.np <= given
  BY FunctionTypes, LargerProperties
<1>2. Sound(s) /\ (~s.overflow => lbase + given <= s.top) /\ Keeps(r, s, m)
  BY MissingProperties, MissingKeeps DEF Grows
<1>3. m <= s.top
  BY <1>2 DEF Keeps
<1> HIDE DEF s, given
<1>4. CASE f.isG
  BY <1>4, SetTopKeeps DEF initCallFrame
<1>5. CASE ~f.isG /\ f.vararg
  <2> DEFINE t == VarArgWindow(s, f, lbase, given)
  <2>1. Keeps(s, t, m)
    BY <1>1, <1>2, <1>3, <1>5, VarArgWindowKeeps
  <2>2. initCallFrame(r, f, lbase, nargs) = t
    BY <1>5 DEF initCallFrame, s, given
  <2> QED
    BY <1>2, <2>1, <2>2, KeepsTwice
<1>6. CASE ~f.isG /\ ~f.vararg
  <2> DEFINE t == FixedWindow(s, f, lbase, given)
  <2>1. Keeps(s, t, m)
    BY <1>1, <1>2, <1>3, <1>6, FixedWindowKeeps
  <2>2. initCallFrame(r, f, lbase, nargs) = t
    BY <1>6 DEF initCallFrame, s, given
  <2> QED
    BY <1>2, <2>1, <2>2, KeepsTwice
<1> QED
  BY <1>1, <1>4, <1>5, <1>6

LEMMA RaisedKeeps ==
  ASSUME NEW r, Sound(r), NEW m \in Int, m <= r.top
  PROVE  Keeps(r, Raised(r), m)
<1>1. r.top \in Nat /\ Raised(r).top = r.top + 1 /\ \A i \in 0..r.top - 1 : Raised(r).array[i] = r.array[i]
  BY RaisedProperties, SoundTypes
<1> QED
  BY <1>1 DEF Keeps

-----------------------------------------------------------------------------
(* Sequences of registers, and the arguments of a function in them.        *)

Row(r, from, n) == [i \in 1..n |-> r.array[from + i - 1]]

LEMMA RowProperties ==
  ASSUME NEW r, Sound(r), NEW from \in Nat, NEW n \in Nat, from + n <= r.top
  PROVE  /\ Row(r, from, n) \in Seq(LuaValues) /\ Len(Row(r, from, n)) = n
         /\ \A i \in 1..n : Row(r, from, n)[i] = r.array[from + i - 1]
<1>1. r.top \in Nat /\ \A i \in 0..r.top - 1 : r.array[i] \in LuaValues
  BY SoundTypes
<1>2. \A i \in 1..n : from + i - 1 \in 0..r.top - 1
  BY <1>1
<1>3. Row(r, from, n) \in [1..n -> LuaValues]
  BY <1>1, <1>2 DEF Row
<1>4. Row(r, from, n) \in Seq(LuaValues) /\ Len(Row(r, from, n)) = n
  BY <1>3
<1> QED
  BY <1>4 DEF Row

\* A sequence whose values are those of the registers.
Lists(s, r, from, n) ==
    s \in Seq(LuaValues) /\ Len(s) = n /\ \A i \in 1..n : s[i] = r.array[from + i - 1]

LEMMA IsRow ==
  ASSUME NEW r, NEW from, NEW n, NEW s, Lists(s, r, from, n)
  PROVE  s = Row(r, from, n)
<1>1. s \in Seq(LuaValues) /\ Len(s) = n /\ \A i \in 1..n : s[i] = r.array[from + i - 1]
  BY DEF Lists
<1>2. s = [i \in 1..n |-> s[i]]
  BY <1>1, LenProperties
<1> QED
  BY <1>1, <1>2 DEF Row

LEMMA RowKept ==
  ASSUME NEW r, NEW s, NEW from \in Nat, NEW n \in Nat, NEW m \in Int, from + n <= m, Keeps(r, s, m)
  PROVE  Row(s, from, n) = Row(r, from, n)
<1>1. \A i \in 1..n : from + i - 1 \in 0..m - 1
  OBVIOUS
<1> QED
  BY <1>1 DEF Row, Keeps

\* In s, the function f finds these arguments behind base, where it was called.
Holds(s, f, base, args) ==
    /\ f.isG => s.top = base + 1 + Len(args) /\ \A i \in 1..Len(args) : s.array[base + i] = args[i]
    /\ ~f.isG => \A i \in 1..f.np : s.array[LocalBaseOf(f, base + 1, Len(args)) + i - 1] =
                                      IF i <= Len(args) THEN args[i] ELSE LNil
    /\ f.vararg => \A i \in f.np + 1..Len(args) : s.array[base + i] = args[i]

LEMMA EntryHolds ==
  ASSUME NEW r, Sound(r), NEW f \in Functions, NEW base \in Nat, NEW args \in Seq(LuaValues),
         ~r.overflow => /\ base + 1 + Len(args) <= r.top
                        /\ \A i \in 1..Len(args) : r.array[base + i] = args[i],
         ~initCallFrame(r, f, base + 1, Len(args)).overflow
  PROVE  Holds(initCallFrame(r, f, base + 1, Len(args)), f, base, args)
<1> DEFINE lbase == base + 1
           n == Len(args)
           s == initCallFrame(r, f, lbase, n)
           l == LocalBaseOf(f, lbase, n)
<1>1. n \in Nat /\ lbase \in Nat /\ lbase = base + 1
  BY LenProperties
<1>2. f.isG \in BOOLEAN /\ f.vararg \in BOOLEAN /\ f.np \in Nat /\ (f.isG => ~f.vararg)
  BY FunctionTypes
<1> HIDE DEF lbase, n
<1>3. ~r.overflow => lbase + n <= r.top /\ \A i \in 1..n : r.array[base + i] = args[i]
  BY <1>1 DEF n, lbase
<1>4. /\ Grows(r, s) /\ l \in Nat /\ lbase <= l
      /\ ~s.overflow =>
           /\ s.top = IF f.isG THEN lbase + n ELSE l + f.used
           /\ f.isG => \A i \in 0..n - 1 : s.array[lbase + i] = r.array[lbase + i]
           /\ ~f.isG => \A i \in 0..f.np - 1 : s.array[l + i] = ArgumentAt(r, lbase, n, i)
           /\ f.vararg => \A i \in f.np..n - 1 : s.array[lbase + i] = r.array[lbase + i]
  <2>1. ~r.overflow => lbase + n <= r.top
    BY <1>3
  <2>2. IsEntry(s, r, f, lbase, n)
    BY <1>1, <2>1, InitCallFrameProperties
  <2> HIDE DEF s
  <2> QED
    BY <2>2 DEF IsEntry
<1>5. ~s.overflow
  BY DEF n, lbase
<1> HIDE DEF s, l
<1>6. ~r.overflow
  BY <1>4, <1>5 DEF Grows
<1>7. \A i \in 1..n : i - 1 \in 0..n - 1 /\ lbase + (i - 1) = base + i /\ r.array[lbase + (i - 1)] = args[i]
  BY <1>1, <1>3, <1>6
<1>8. f.isG => \A i \in 1..n : s.array[base + i] = args[i]
  BY <1>4, <1>5, <1>7
<1>9. ASSUME ~f.isG, NEW i \in 1..f.np
      PROVE  s.array[l + i - 1] = IF i <= n THEN args[i] ELSE LNil
  <2>1. i - 1 \in 0..f.np - 1 /\ l + (i - 1) = l + i - 1 /\ (i - 1 < n <=> i <= n) /\ (i <= n => i \in 1..n)
    BY <1>1, <1>2, <1>4
  <2>2. s.array[l + (i - 1)] = ArgumentAt(r, lbase, n, i - 1)
    BY <1>4, <1>5, <1>9, <2>1
  <2> QED
    BY <1>7, <2>1, <2>2 DEF ArgumentAt
<1>10. ASSUME f.vararg, NEW i \in f.np + 1..n
       PROVE  s.array[base + i] = args[i]
  <2>1. i \in 1..n /\ i - 1 \in f.np..n - 1
    BY <1>1, <1>2
  <2> QED
    BY <1>4, <1>5, <1>7, <1>10, <2>1
<1>11. Holds(s, f, base, args)
  <2>1. f.isG => s.top = base + 1 + n
    BY <1>1, <1>4, <1>5
  <2> QED
    BY <1>8, <1>9, <1>10, <2>1 DEF Holds, n, l, lbase
<1> QED
  BY <1>11 DEF s, n, lbase

\* A call hands over its arguments.
LEMMA CalledHolds ==
  ASSUME IInv, NEW k \in Nat, k < Live, NEW f \in Functions, NEW meta \in BOOLEAN
  PROVE  LET args == Row(rg, FirstArgument(k, meta), Arguments(NArgs(k), meta))
         IN  /\ args \in Seq(LuaValues) /\ Len(args) = Arguments(NArgs(k), meta)
             /\ ~Called(k, f, meta).overflow => Holds(Called(k, f, meta), f, Register(k), args)
             /\ Keeps(rg, Called(k, f, meta), Register(k) + 1)
<1> DEFINE b == Register(k)
           n == Arguments(NArgs(k), meta)
           p == FirstArgument(k, meta)
           r == WithCallee(rg, meta, b)
           args == Row(rg, p, n)
<1>1. /\ Sound(rg) /\ b \in Nat /\ b < rg.top /\ n \in Nat /\ p + n <= rg.top /\ p \in Nat
      /\ rg.top \in Nat
  <2>1. b \in Nat /\ b < rg.top /\ n \in Nat /\ p + n <= rg.top
    BY ArgumentsInPlace
  <2>2. Sound(rg) /\ rg.top \in Nat
    BY Current
  <2>3. p \in Nat
    BY <2>1 DEF FirstArgument
  <2> QED
    BY <2>1, <2>2, <2>3
<1>2. /\ Grows(rg, r)
      /\ ~r.overflow =>
           /\ b + 1 + n <= r.top
           /\ \A i \in 0..b : r.array[i] = rg.array[i]
           /\ \A i \in 0..n - 1 : r.array[b + 1 + i] = rg.array[p + i]
  BY ArgumentsInPlace
<1>3. Leaves(rg, r)
  BY <1>1, OperationsLeave DEF WithCallee, Leaves
<1>4. args \in Seq(LuaValues) /\ Len(args) = n /\ \A i \in 1..n : args[i] = rg.array[p + i - 1]
  BY <1>1, RowProperties
<1>5. Called(k, f, meta) = initCallFrame(r, f, b + 1, n)
  BY DEF Called
<1> HIDE DEF b, n, p, r, args
<1>6. Sound(r)
  BY <1>2 DEF Grows
<1>7. Keeps(rg, r, b + 1)
  <2>1. ~r.overflow => Keeps(rg, r, b + 1)
    BY <1>1, <1>2, <1>6, SoundTypes DEF Keeps
  <2>2. b + 1 \in Int /\ b + 1 <= rg.top
    BY <1>1
  <2> QED
    BY <1>1, <1>3, <2>1, <2>2, KeepsIf
<1>8. ~r.overflow => \A i \in 1..n : r.array[b + i] = args[i]
  <2> SUFFICES ASSUME ~r.overflow, NEW i \in 1..n
               PROVE  r.array[b + i] = args[i]
    OBVIOUS
  <2>1. i - 1 \in 0..n - 1 /\ b + 1 + (i - 1) = b + i /\ p + (i - 1) = p + i - 1
    BY <1>1
  <2> QED
    BY <1>2, <1>4, <2>1
<1>9. ~Called(k, f, meta).overflow => Holds(Called(k, f, meta), f, b, args)
  BY <1>1, <1>2, <1>4, <1>5, <1>6, <1>8, EntryHolds
<1>10. Keeps(rg, Called(k, f, meta), b + 1)
  <2> DEFINE e == b + 1
             t == initCallFrame(r, f, e, n)
  <2>1. e \in Nat /\ e <= e /\ e <= r.top /\ (~r.overflow => e + n <= r.top)
    BY <1>1, <1>2, <1>7 DEF Keeps
  <2>2. e \in Int
    BY <2>1
  <2> HIDE DEF e
  <2>3. Keeps(r, t, e)
    BY <1>1, <1>6, <2>1, <2>2, InitCallFrameKeeps
  <2>4. Keeps(rg, r, e) /\ Called(k, f, meta) = t
    BY <1>5, <1>7 DEF e
  <2> QED
    BY <2>3, <2>4, KeepsTwice DEF e
<1> QED
  BY <1>4, <1>9, <1>10 DEF args, n, p, b

-----------------------------------------------------------------------------
(* What LuaCalls knows of the functions, by the registers and the frames.  *)

Used(r, fs, k) ==
    IF ~fs[k].f.isG /\ ~fs[k].open THEN fs[k].live
    ELSE IF k = Len(fs) THEN r.top - fs[k].localBase
    ELSE fs[k + 1].base - fs[k].localBase

ExtraOf(r, a) ==
    IF a.f.vararg THEN Row(r, a.base + a.f.np + 1, LargerOf(a.nargs - a.f.np, 0)) ELSE <<>>

View(r, a, n) ==
    [f |-> a.f, locals |-> Row(r, a.localBase, n), extra |-> ExtraOf(r, a),
     want |-> a.want, into |-> a.into, tail |-> a.tail]

ViewOf(r, fs, k) == View(r, fs[k], Used(r, fs, k))
Running(r, fs) == ViewOf(r, fs, Len(fs))
Callers(r, fs) == [k \in 1..Len(fs) - 1 |-> ViewOf(r, fs, k)]
Sps(ms) == [m \in 1..Len(ms) |-> ms[m].sp]

\* The same call, whatever it has in use.
SameCall(a, b) ==
    /\ b \in Frame /\ b.f = a.f /\ b.base = a.base /\ b.localBase = a.localBase
    /\ b.nargs = a.nargs /\ b.want = a.want /\ b.into = a.into /\ b.tail = a.tail

\* The first n frames, and the first n functions as LuaCalls sees them.
SameFrames(fs, gs, n) == \A k \in 1..n : gs[k] = fs[k]
SameViews(r, fs, s, gs, n) == \A k \in 1..n : ViewOf(s, gs, k) = ViewOf(r, fs, k)

LEMMA BaseIsNat ==
  ASSUME NEW fs, NEW ms, Framed(fs, ms), NEW k \in 1..Len(fs)
  PROVE  fs[k].base + 1 \in Nat /\ (k # 1 => fs[k].base \in Nat)
<1>1. Len(fs) \in Nat /\ fs[k] \in Frame /\ fs[k].base \in Int
  BY FramedTypes, FrameTypes
<1>2. CASE k = 1
  <2>1. fs[k] = Host /\ Host.base = -1
    BY <1>2, HostProperties DEF Framed
  <2>2. fs[k].base + 1 = 0
    BY <2>1
  <2> QED
    BY <1>2, <2>2
<1>3. CASE k # 1
  <2> DEFINE j == k - 1
             a == fs[j]
             b == fs[k].base
  <2>1. j \in 1..Len(fs) /\ k = j + 1
    BY <1>1, <1>3
  <2>2. Above(fs[j], fs[k]) /\ a \in Frame
    BY <2>1, FramedTypes DEF Framed
  <2>3. a.localBase \in Nat /\ a.live \in Nat /\ a.localBase + a.live <= b /\ b \in Int
    BY <1>1, <2>2, FrameTypes DEF Above
  <2> HIDE DEF a, b, j
  <2>4. b \in Nat /\ b + 1 \in Nat
    BY <2>3
  <2> QED
    BY <1>3, <2>4 DEF b
<1> QED
  BY <1>2, <1>3

\* A frame lies above the base of the frames below it.
LEMMA BasesRise ==
  ASSUME NEW fs, NEW ms, Framed(fs, ms), NEW k \in 1..Len(fs), NEW j \in 1..k
  PROVE  fs[j].base <= fs[k].base
<1> DEFINE Good(i) == fs[i].base <= fs[k].base
           T == {d \in 0..k - 1 : ~Good(k - d)}
<1>1. /\ Len(fs) \in Nat /\ k \in Nat \ {0}
      /\ \A i \in 1..Len(fs) : fs[i] \in Frame /\ FrameFits(fs[i]) /\ fs[i].base \in Int
  BY FramedTypes, FrameTypes DEF Framed
<1>2. Good(k)
  BY <1>1
<1>3. ASSUME NEW i \in 1..k, i # k, Good(i + 1)
      PROVE  Good(i)
  <2>1. i + 1 \in 1..Len(fs) /\ i \in 1..Len(fs)
    BY <1>1, <1>3
  <2>2. Above(fs[i], fs[i + 1]) /\ fs[i] \in Frame /\ fs[i].base + 1 <= fs[i].localBase
    BY <1>1, <2>1, WindowAboveBase DEF Framed
  <2> DEFINE x == fs[i].base
             y == fs[i].localBase
             z == fs[i].live
             w == fs[i + 1].base
             b == fs[k].base
  <2>3. /\ x \in Int /\ y \in Nat /\ z \in Nat /\ w \in Int /\ b \in Int /\ x + 1 <= y /\ y + z <= w
        /\ w <= b
    BY <1>1, <1>3, <2>1, <2>2, FrameTypes DEF Above
  <2> HIDE DEF x, y, z, w, b
  <2>4. x <= b
    BY <2>3
  <2> QED
    BY <2>4 DEF x, b
<1> HIDE DEF Good
<1>4. T = {}
  <2> SUFFICES ASSUME T # {}
               PROVE  FALSE
    OBVIOUS
  <2>1. T \subseteq Nat
    BY <1>1
  <2>2. PICK d \in T : \A y \in T : d <= y
    BY <2>1, SmallestExists, Zenon
  <2>3. d \in 0..k - 1 /\ ~Good(k - d)
    BY <2>2
  <2>4. d # 0
    BY <1>1, <1>2, <2>3
  <2> DEFINE i == k - d
  <2>5. i \in 1..k /\ i # k /\ k - (d - 1) = i + 1 /\ d - 1 \in 0..k - 1
    BY <1>1, <2>3, <2>4
  <2>6. Good(i + 1)
    <3>1. d \in Nat /\ ~(d <= d - 1)
      BY <1>1, <2>3
    <3>2. d - 1 \notin T
      BY <2>2, <3>1
    <3> QED
      BY <2>5, <3>2
  <2> QED
    BY <1>3, <2>3, <2>5, <2>6
<1>5. k - j \in 0..k - 1 /\ k - (k - j) = j
  BY <1>1
<1> QED
  BY <1>4, <1>5 DEF Good

\* The registers in use of a function end where the next one begins.
LEMMA UsedProperties ==
  ASSUME NEW fs, NEW ms, Framed(fs, ms), NEW r, r.top \in Nat, Covered(fs, r.top), NEW k \in 1..Len(fs)
  PROVE  /\ Used(r, fs, k) \in Nat
         /\ fs[k].localBase + Used(r, fs, k) <= IF k = Len(fs) THEN r.top ELSE fs[k + 1].base
<1> DEFINE a == fs[k]
           y == a.localBase
           z == a.live
           t == r.top
           u == Used(r, fs, k)
           c == Len(fs)
<1>1. /\ c \in Nat \ {0} /\ a \in Frame /\ FrameFits(a) /\ y \in Nat /\ z \in Nat /\ t \in Nat
      /\ a.f.isG \in BOOLEAN /\ a.open \in BOOLEAN
  BY FramedTypes, FrameTypes DEF Framed
<1>2. CASE k = c
  <2>1. y + z <= t
    BY <1>2 DEF Covered
  <2>2. u = z \/ u = t - y
    BY <1>2 DEF Used
  <2> HIDE DEF y, z, t, u, c
  <2>3. u \in Nat /\ y + u <= t
    BY <1>1, <2>1, <2>2
  <2> QED
    BY <1>2, <2>3 DEF u, y, t, c
<1>3. CASE k # c
  <2> DEFINE w == fs[k + 1].base
  <2>1. k + 1 \in 1..c
    BY <1>1, <1>3
  <2>2. Above(fs[k], fs[k + 1]) /\ w \in Int
    BY <2>1, FramedTypes, FrameTypes DEF Framed
  <2>3. y + z <= w
    BY <2>2 DEF Above
  <2>4. u = z \/ u = w - y
    BY <1>3 DEF Used
  <2> HIDE DEF y, z, w, u, c
  <2>5. u \in Nat /\ y + u <= w
    BY <1>1, <2>2, <2>3, <2>4
  <2> QED
    BY <1>3, <2>5 DEF u, y, w, c
<1> QED
  BY <1>2, <1>3

\* The extra arguments lie below the window.
LEMMA ExtraKept ==
  ASSUME NEW a \in Frame, FrameFits(a), a.base + 1 \in Nat, NEW b, SameCall(a, b),
         NEW r, NEW s, Keeps(r, s, a.localBase)
  PROVE  ExtraOf(s, b) = ExtraOf(r, a)
<1>1. CASE ~a.f.vararg
  BY <1>1 DEF ExtraOf, SameCall
<1>2. CASE a.f.vararg
  <2> DEFINE x == a.base
             np == a.f.np
             na == a.nargs
             l == a.localBase
             from == x + np + 1
             n == LargerOf(na - np, 0)
  <2>1. /\ x \in Int /\ x + 1 \in Nat /\ np \in Nat /\ na \in Nat /\ l \in Nat
        /\ l = x + 1 + LargerOf(na, np)
    <3>1. a.f \in Functions
      BY <1>2, FrameTypes, HostProperties
    <3> QED
      BY <1>2, <3>1, FrameTypes, FunctionTypes DEF FrameFits, LocalBaseOf
  <2>2. ExtraOf(s, b) = Row(s, from, n) /\ ExtraOf(r, a) = Row(r, from, n)
    BY <1>2 DEF ExtraOf, SameCall
  <2>3. Keeps(r, s, l)
    OBVIOUS
  <2> HIDE DEF x, np, na, l
  <2>4. from \in Nat /\ n \in Nat /\ from + n = l
    BY <2>1 DEF LargerOf
  <2> HIDE DEF from, n
  <2>5. l \in Int /\ from + n <= l
    BY <2>1, <2>4
  <2>6. Row(s, from, n) = Row(r, from, n)
    BY <2>3, <2>4, <2>5, RowKept
  <2> QED
    BY <2>2, <2>6
<1> QED
  BY <1>1, <1>2

WithLocals(v, locals) == [v EXCEPT !.locals = locals]

\* A step of a function in its own window changes its own values.
LEMMA ViewLocals ==
  ASSUME NEW a \in Frame, FrameFits(a), a.base + 1 \in Nat, NEW b, SameCall(a, b),
         NEW r, NEW s, Keeps(r, s, a.localBase), NEW m, NEW n
  PROVE  View(s, b, n) = WithLocals(View(r, a, m), Row(s, a.localBase, n))
<1>1. ExtraOf(s, b) = ExtraOf(r, a)
  BY ExtraKept
<1> QED
  BY <1>1 DEF View, SameCall, WithLocals

LEMMA ViewKept ==
  ASSUME NEW a \in Frame, FrameFits(a), a.base + 1 \in Nat, NEW b, SameCall(a, b),
         NEW r, NEW s, Sound(s), NEW n \in Nat, Keeps(r, s, a.localBase + n)
  PROVE  View(s, b, n) = View(r, a, n)
<1> DEFINE l == a.localBase
<1>1. l \in Nat
  BY FrameTypes
<1>3. Keeps(r, s, a.localBase)
  <2>1. l <= l + n /\ l + n \in Int /\ l \in Int /\ Keeps(r, s, l + n)
    BY <1>1
  <2> HIDE DEF l
  <2>2. Keeps(r, s, l)
    BY <2>1, KeepsLess
  <2> QED
    BY <2>2 DEF l
<1>4. View(s, b, n) = WithLocals(View(r, a, n), Row(s, a.localBase, n))
  BY <1>3, ViewLocals
<1>5. Row(s, a.localBase, n) = Row(r, a.localBase, n)
  <2>1. l + n \in Int /\ l + n <= l + n /\ Keeps(r, s, l + n)
    BY <1>1
  <2> HIDE DEF l
  <2>2. Row(s, l, n) = Row(r, l, n)
    BY <1>1, <2>1, RowKept
  <2> QED
    BY <2>2 DEF l
<1> QED
  BY <1>4, <1>5 DEF View, WithLocals

LEMMA SameCallItself ==
  ASSUME NEW a \in Frame
  PROVE  SameCall(a, a)
BY DEF SameCall

\* The functions below frame c, whatever happens above its base.
LEMMA CallersKept ==
  ASSUME NEW fs, NEW ms, Framed(fs, ms), NEW r, Sound(r), Covered(fs, r.top),
         NEW c \in 1..Len(fs), NEW gs, NEW s, Sound(s), c <= Len(gs), Len(gs) \in Nat,
         SameFrames(fs, gs, c - 1), gs[c].base = fs[c].base, Keeps(r, s, fs[c].base)
  PROVE  SameViews(r, fs, s, gs, c - 1)
<1> SUFFICES ASSUME NEW k \in 1..c - 1
             PROVE  ViewOf(s, gs, k) = ViewOf(r, fs, k)
  BY DEF SameViews
<1> DEFINE a == fs[k]
           u == Used(r, fs, k)
           x == fs[c].base
           j == k + 1
<1>1. /\ Len(fs) \in Nat /\ k \in 1..Len(fs) /\ j \in 1..c /\ j \in 1..Len(fs) /\ k # Len(fs) /\ k # Len(gs)
      /\ c \in Nat
  BY FramedTypes
<1>2. gs[k] = fs[k] /\ gs[j].base = fs[j].base
  <2>1. j = c \/ j \in 1..c - 1
    BY <1>1
  <2> QED
    BY <2>1 DEF SameFrames
<1>3. Used(s, gs, k) = u
  BY <1>1, <1>2 DEF Used
<1>4. a \in Frame /\ FrameFits(a) /\ a.base + 1 \in Nat /\ a.localBase \in Nat /\ x \in Int
  BY <1>1, FramedTypes, FrameTypes, BaseIsNat DEF Framed
<1>5. u \in Nat /\ a.localBase + u <= fs[j].base /\ fs[j].base <= x /\ fs[j].base \in Int
  <2>1. r.top \in Nat
    BY SoundTypes
  <2>2. u \in Nat /\ a.localBase + u <= fs[k + 1].base
    BY <1>1, <2>1, UsedProperties
  <2>3. fs[j].base <= x
    BY <1>1, BasesRise
  <2> QED
    BY <1>1, <2>2, <2>3, FramedTypes, FrameTypes
<1> HIDE DEF u, x, j, a
<1>6. Keeps(r, s, a.localBase + u)
  <2>1. a.localBase + u \in Int /\ a.localBase + u <= x
    BY <1>4, <1>5
  <2> QED
    BY <1>4, <2>1, KeepsLess DEF x
<1>7. View(s, a, u) = View(r, a, u)
  BY <1>4, <1>5, <1>6, SameCallItself, ViewKept
<1> QED
  BY <1>2, <1>3, <1>7 DEF ViewOf, a, u

-----------------------------------------------------------------------------
(* The callers and the marks, as sequences.                                *)

LEMMA CallersProperties ==
  ASSUME NEW r, NEW fs, Len(fs) \in Nat \ {0}
  PROVE  \E S : /\ Callers(r, fs) \in Seq(S) /\ Len(Callers(r, fs)) = Len(fs) - 1
                /\ \A k \in 1..Len(fs) - 1 : Callers(r, fs)[k] = ViewOf(r, fs, k)
<1> DEFINE n == Len(fs) - 1
           S == {ViewOf(r, fs, k) : k \in 1..n}
<1>1. n \in Nat
  OBVIOUS
<1>2. Callers(r, fs) \in [1..n -> S]
  BY DEF Callers
<1>3. Callers(r, fs) \in Seq(S) /\ Len(Callers(r, fs)) = n
  BY <1>1, <1>2
<1>4. \A k \in 1..n : Callers(r, fs)[k] = ViewOf(r, fs, k)
  BY DEF Callers
<1> HIDE DEF S
<1> QED
  BY <1>3, <1>4

LEMMA CallersSame ==
  ASSUME NEW r, NEW fs, NEW s, NEW gs, Len(gs) = Len(fs),
         SameViews(r, fs, s, gs, Len(fs) - 1)
  PROVE  Callers(s, gs) = Callers(r, fs)
BY DEF Callers, SameViews

FirstOf(s, n) == SubSeq(s, 1, n)

LEMMA CallersCut ==
  ASSUME NEW r, NEW fs, Len(fs) \in Nat \ {0}, NEW s, NEW gs, Len(gs) \in 1..Len(fs),
         SameViews(r, fs, s, gs, Len(gs) - 1)
  PROVE  Callers(s, gs) = FirstOf(Callers(r, fs), Len(gs) - 1)
<1> DEFINE n == Len(gs) - 1
           old == Callers(r, fs)
           new == Callers(s, gs)
           cut == SubSeq(old, 1, n)
<1>0. n \in 0..Len(fs) - 1 /\ n \in Nat /\ \A k \in 1..n : k \in 1..Len(fs) - 1
  OBVIOUS
<1>4. new = [k \in 1..n |-> ViewOf(s, gs, k)]
  BY DEF Callers
<1>6. \A k \in 1..n : ViewOf(s, gs, k) = ViewOf(r, fs, k)
  BY DEF SameViews
<1> HIDE DEF n
<1>1. PICK S : /\ old \in Seq(S) /\ Len(old) = Len(fs) - 1
               /\ \A k \in 1..Len(fs) - 1 : old[k] = ViewOf(r, fs, k)
  BY CallersProperties
<1> HIDE DEF old
<1>2. cut \in Seq(S) /\ Len(cut) = n /\ \A k \in 1..n : cut[k] = old[k]
  BY <1>0, <1>1, PrefixProperties
<1> HIDE DEF cut
<1>5. cut = [k \in 1..n |-> cut[k]]
  BY <1>2, LenProperties
<1>7. cut = new
  BY <1>0, <1>1, <1>2, <1>4, <1>5, <1>6
<1> QED
  BY <1>7 DEF cut, old, n, FirstOf

LEMMA CallersPushed ==
  ASSUME NEW r, NEW fs, Len(fs) \in Nat \ {0}, NEW s, NEW gs, Len(gs) = Len(fs) + 1,
         SameViews(r, fs, s, gs, Len(fs) - 1)
  PROVE  Callers(s, gs) = Append(Callers(r, fs), ViewOf(s, gs, Len(fs)))
<1> DEFINE old == Callers(r, fs)
           new == Callers(s, gs)
           v == ViewOf(s, gs, Len(fs))
           all == Append(old, v)
           n == Len(fs)
<1>1. PICK S : /\ old \in Seq(S) /\ Len(old) = n - 1
               /\ \A k \in 1..n - 1 : old[k] = ViewOf(r, fs, k)
  BY CallersProperties
<1> HIDE DEF old
<1>2. new = [k \in 1..n |-> ViewOf(s, gs, k)]
  BY DEF Callers
<1> DEFINE T == S \cup {v}
<1>3. old \in Seq(T) /\ v \in T
  <2>1. old \in [1..n - 1 -> S] /\ n - 1 \in Nat
    BY <1>1, LenProperties
  <2>2. old \in [1..n - 1 -> T]
    BY <2>1
  <2> QED
    BY <2>1, <2>2
<1> HIDE DEF T, v
<1>4. /\ all \in Seq(T) /\ Len(all) = n /\ all[n] = v
      /\ \A k \in 1..n - 1 : all[k] = old[k]
  <2>1. /\ all \in Seq(T) /\ Len(all) = Len(old) + 1 /\ all[Len(old) + 1] = v
        /\ \A k \in 1..Len(old) : all[k] = old[k]
    BY <1>3, AppendProperties
  <2>2. Len(old) + 1 = n
    BY <1>1
  <2> QED
    BY <1>1, <2>1, <2>2
<1> HIDE DEF all
<1>5. all = [k \in 1..n |-> all[k]]
  BY <1>4, LenProperties
<1>6. \A k \in 1..n : all[k] = ViewOf(s, gs, k)
  <2>1. \A k \in 1..n : k = n \/ k \in 1..n - 1
    OBVIOUS
  <2> QED
    BY <1>1, <1>4, <2>1 DEF v, SameViews
<1>7. all = new
  BY <1>2, <1>5, <1>6
<1> QED
  BY <1>7 DEF all, old, v

LEMMA SpsProperties ==
  ASSUME NEW ms \in Seq(Mark)
  PROVE  /\ Sps(ms) \in Seq(Nat) /\ Len(Sps(ms)) = Len(ms)
         /\ \A i \in 1..Len(ms) : Sps(ms)[i] = ms[i].sp
         /\ ms # <<>> <=> Sps(ms) # <<>>
         /\ ms # <<>> => Last(Sps(ms)) = Last(ms).sp /\ Sps(Front(ms)) = Front(Sps(ms))
         /\ \A m \in Mark : Sps(Append(ms, m)) = Append(Sps(ms), m.sp)
<1> DEFINE n == Len(ms)
           t == Sps(ms)
<1>1. n \in Nat /\ \A i \in 1..n : ms[i] \in Mark /\ ms[i].sp \in Nat
  <2>1. n \in Nat /\ \A i \in 1..n : ms[i] \in Mark
    BY LenProperties, ElementOfSeq
  <2>2. \A m \in Mark : m.sp \in Nat
    BY DEF Mark
  <2> QED
    BY <2>1, <2>2
<1>2. t \in [1..n -> Nat] /\ \A i \in 1..n : t[i] = ms[i].sp
  BY <1>1 DEF Sps
<1>3. t \in Seq(Nat) /\ Len(t) = n
  BY <1>1, <1>2
<1> HIDE DEF t
<1>4. ms # <<>> <=> t # <<>>
  BY <1>1, <1>3, EmptySeq
<1>5. ASSUME ms # <<>>
      PROVE  Last(t) = Last(ms).sp /\ Sps(Front(ms)) = Front(t)
  <2>1. n \in 1..n /\ n - 1 \in 0..n /\ n - 1 \in Nat
    BY <1>1, <1>5, EmptySeq
  <2>2. Last(t) = Last(ms).sp
    BY <1>2, <1>3, <2>1 DEF Last
  <2> DEFINE a == SubSeq(ms, 1, n - 1)
             b == SubSeq(t, 1, n - 1)
  <2>3. a \in Seq(Mark) /\ Len(a) = n - 1 /\ \A i \in 1..n - 1 : a[i] = ms[i]
    BY <2>1, PrefixProperties
  <2>4. b \in Seq(Nat) /\ Len(b) = n - 1 /\ \A i \in 1..n - 1 : b[i] = t[i]
    BY <1>3, <2>1, PrefixProperties
  <2>5. a = Front(ms) /\ b = Front(t)
    BY <1>3 DEF Front
  <2> HIDE DEF a, b
  <2>6. Sps(a) = [i \in 1..n - 1 |-> a[i].sp]
    BY <2>3 DEF Sps
  <2>7. b = [i \in 1..n - 1 |-> b[i]]
    BY <2>4, LenProperties
  <2>8. \A i \in 1..n - 1 : b[i] = a[i].sp
    BY <1>2, <2>3, <2>4, <2>1
  <2>9. Sps(a) = b
    BY <2>6, <2>7, <2>8
  <2> QED
    BY <2>2, <2>5, <2>9
<1>6. ASSUME NEW m \in Mark
      PROVE  Sps(Append(ms, m)) = Append(t, m.sp)
  <2> DEFINE a == Append(ms, m)
             b == Append(t, m.sp)
  <2>1. a \in Seq(Mark) /\ Len(a) = n + 1 /\ a[n + 1] = m /\ \A i \in 1..n : a[i] = ms[i]
    BY AppendProperties
  <2>2. b \in Seq(Nat) /\ Len(b) = n + 1 /\ b[n + 1] = m.sp /\ \A i \in 1..n : b[i] = t[i]
    <3>1. m.sp \in Nat
      BY DEF Mark
    <3>2. /\ b \in Seq(Nat) /\ Len(b) = Len(t) + 1 /\ b[Len(t) + 1] = m.sp
          /\ \A i \in 1..Len(t) : b[i] = t[i]
      BY <1>3, <3>1, AppendProperties
    <3> QED
      BY <1>3, <3>2
  <2> HIDE DEF a, b
  <2>3. Sps(a) = [i \in 1..n + 1 |-> a[i].sp]
    BY <2>1 DEF Sps
  <2>4. b = [i \in 1..n + 1 |-> b[i]]
    BY <2>2, LenProperties
  <2>5. \A i \in 1..n + 1 : b[i] = a[i].sp
    <3>1. \A i \in 1..n + 1 : i = n + 1 \/ i \in 1..n
      BY <1>1
    <3> QED
      BY <1>2, <2>1, <2>2, <3>1
  <2>6. Sps(a) = b
    BY <2>3, <2>4, <2>5
  <2> QED
    BY <2>6 DEF a, b
<1> QED
  BY <1>2, <1>3, <1>4, <1>5, <1>6 DEF t

-----------------------------------------------------------------------------
(* The state of LuaCalls.                                                  *)

LEMMA AbstractState ==
  /\ CallOf(Len(frames)) = Running(rg, frames)
  /\ [k \in 1..Len(frames) - 1 |-> CallOf(k)] = Callers(rg, frames)
  /\ [m \in 1..Len(marks) |-> marks[m].sp] = Sps(marks)
BY DEF CallOf, Running, Callers, Sps, ViewOf, View, Used, InUse, ExtraOf, Extra, Row, Registers

LEMMA AbstractStateNext ==
  /\ CallOf(Len(frames))' = Running(rg', frames')
  /\ [k \in 1..Len(frames) - 1 |-> CallOf(k)]' = Callers(rg', frames')
  /\ [m \in 1..Len(marks) |-> marks[m].sp]' = Sps(marks')
BY DEF CallOf, Running, Callers, Sps, ViewOf, View, Used, InUse, ExtraOf, Extra, Row, Registers

LEMMA AbstractBecomes ==
  ASSUME NEW locals, Running(rg', frames') = [Running(rg, frames) EXCEPT !.locals = locals],
         Callers(rg', frames') = Callers(rg, frames), Sps(marks') = Sps(marks)
  PROVE  Abstract!Becomes(locals)
BY AbstractState, AbstractStateNext DEF Abstract!Becomes

LEMMA AbstractLocals ==
  ASSUME IInv
  PROVE  /\ Abstract!Locals = Row(rg, cf.localBase, Live) /\ Abstract!Count = Live
         /\ Abstract!Depth = Len(frames) - 1
         /\ Running(rg, frames) = View(rg, cf, Live)
         /\ Used(rg, frames, Len(frames)) = Live
         /\ Abstract!Locals \in Seq(LuaValues)
         /\ \A i \in 1..Live : Abstract!Locals[i] = rg.array[cf.localBase + i - 1]
<1>1. Used(rg, frames, Len(frames)) = Live
  BY DEF Used, Live, cf
<1>2. Running(rg, frames) = View(rg, cf, Live)
  BY <1>1 DEF Running, ViewOf, cf
<1>3. Abstract!Locals = Row(rg, cf.localBase, Live)
  BY <1>2, AbstractState DEF Abstract!Locals, View
<1>4. Sound(rg) /\ cf.localBase \in Nat /\ Live \in Nat /\ cf.localBase + Live <= rg.top /\ Len(frames) \in Nat \ {0}
  BY Current
<1>5. /\ Row(rg, cf.localBase, Live) \in Seq(LuaValues) /\ Len(Row(rg, cf.localBase, Live)) = Live
      /\ \A i \in 1..Live : Row(rg, cf.localBase, Live)[i] = rg.array[cf.localBase + i - 1]
  <2> DEFINE x == cf.localBase
             y == Live
  <2>1. x \in Nat /\ y \in Nat /\ x + y <= rg.top /\ Sound(rg)
    BY <1>4
  <2> HIDE DEF x, y
  <2>2. /\ Row(rg, x, y) \in Seq(LuaValues) /\ Len(Row(rg, x, y)) = y
        /\ \A i \in 1..y : Row(rg, x, y)[i] = rg.array[x + i - 1]
    BY <2>1, RowProperties
  <2> QED
    BY <2>2 DEF x, y
<1>6. Abstract!Count = Live
  BY <1>3, <1>5 DEF Abstract!Count
<1>7. Abstract!Depth = Len(frames) - 1
  <2>1. Len(Callers(rg, frames)) = Len(frames) - 1
    BY <1>4, CallersProperties
  <2> QED
    BY <2>1, AbstractState DEF Abstract!Depth
<1> QED
  BY <1>1, <1>2, <1>3, <1>5, <1>6, <1>7

LEMMA AbstractDepthNext ==
  ASSUME Len(frames') \in Nat \ {0}
  PROVE  Abstract!Depth' = Len(frames') - 1
<1>1. Len(Callers(rg', frames')) = Len(frames') - 1
  BY CallersProperties
<1> QED
  BY <1>1, AbstractStateNext DEF Abstract!Depth

-----------------------------------------------------------------------------
(* Errors are caught by the function that made the innermost protected     *)
(* call, which finds its values.                                           *)

LEMMA AbstractFail ==
  ASSUME Sps(marks) # <<>>, Sps(marks') = Front(Sps(marks)),
         Running(rg', frames') = (Callers(rg, frames) \o <<Running(rg, frames)>>)[Last(Sps(marks))],
         Callers(rg', frames') = SubSeq(Callers(rg, frames), 1, Last(Sps(marks)) - 1)
  PROVE  Abstract!Fail
BY AbstractState, AbstractStateNext DEF Abstract!Fail, Abstract!Last, Abstract!Front, Last, Front

LEMMA LastMark ==
  ASSUME IInv, marks # <<>>
  PROVE  LET m == Last(marks)
         IN  /\ m \in Mark /\ m.sp \in Nat \ {0} /\ m.base \in Nat
             /\ m.sp \in 1..Len(frames) - 1 /\ m.sp \in 1..Len(frames) /\ m.sp + 1 \in 1..Len(frames)
             /\ frames[m.sp].f.isG /\ frames[m.sp].localBase <= m.base
             /\ m.base = frames[m.sp + 1].base /\ frames[m.sp].base <= m.base
             /\ m.base <= cf.base
<1> DEFINE n == Len(marks)
           m == Last(marks)
           c == Len(frames)
<1>1. Framed(frames, marks) /\ marks \in Seq(Mark) /\ n \in Nat /\ c \in Nat \ {0} /\ cf = frames[c]
  BY Current DEF Framed
<1>2. n \in 1..n /\ m = marks[n]
  BY <1>1, EmptySeq DEF Last
<1>3. m \in Mark /\ m.sp \in Nat \ {0} /\ m.base \in Nat /\ MarkFits(frames, m)
  BY <1>1, <1>2, FramedTypes DEF Framed
<1> HIDE DEF m
<1>4. m.sp \in 1..c - 1 /\ frames[m.sp].f.isG /\ frames[m.sp].localBase <= m.base /\ m.base = frames[m.sp + 1].base
  BY <1>3 DEF MarkFits
<1> DEFINE k == m.sp
           j == k + 1
<1>5. k \in 1..c /\ j \in 1..c /\ k \in 1..j /\ j = k + 1 /\ c \in 1..c /\ j \in 1..Len(frames) /\ c \in 1..Len(frames)
  BY <1>1, <1>3, <1>4
<1> HIDE DEF k, j, c
<1>6. frames[k].base <= frames[j].base /\ frames[j].base <= frames[c].base
  BY <1>1, <1>5, BasesRise
<1>7. frames[j].base = m.base /\ frames[k].base = frames[m.sp].base
  BY <1>4, <1>5 DEF k
<1> QED
  BY <1>1, <1>3, <1>4, <1>5, <1>6, <1>7 DEF m, k, c

LEMMA RecoversFails ==
  ASSUME IInv, NEW r, Sound(r), ~r.overflow, rg.size <= r.size, Recovers(r),
         Keeps(rg, r, Last(marks).base)
  PROVE  Abstract!Fail
<1> DEFINE m == Last(marks)
           sp == m.sp
           x == m.base
           g == SubSeq(frames, 1, sp)
           s == SetTop(r, x)
           a == frames[sp]
           old == Callers(rg, frames)
           c == Len(frames)
<1>1. marks # <<>> /\ rg' = s /\ frames' = g /\ marks' = Front(marks)
  BY DEF Recovers
<1>2. /\ sp \in Nat \ {0} /\ x \in Nat /\ sp \in 1..c - 1 /\ sp \in 1..c
      /\ a.f.isG /\ a.localBase <= x /\ x = frames[sp + 1].base /\ a.base <= x
  BY <1>1, LastMark
<1>3. Framed(frames, marks) /\ frames \in Seq(Frame) /\ marks \in Seq(Mark) /\ Sound(rg) /\ Covered(frames, rg.top) /\ c \in Nat \ {0}
  BY Current DEF Framed, IInv
<1> HIDE DEF m, sp, x
<1>4. Keeps(rg, r, x)
  BY DEF x, m
<1>5. Sound(s) /\ s.top = x /\ Keeps(rg, s, x)
  <2>1. x <= r.top /\ x <= x /\ r.top <= r.size /\ r.top \in Nat /\ r.size \in Nat /\ x \in Int
    BY <1>2, <1>4, SoundTypes DEF Keeps
  <2>2. Grows(r, s) /\ (x <= r.size => s.overflow = r.overflow) /\ (~s.overflow => s.top = x)
    BY <1>2, SetTopProperties
  <2>3. Keeps(r, s, x)
    BY <1>2, <2>1, SetTopKeeps
  <2> HIDE DEF s
  <2> QED
    BY <1>4, <2>1, <2>2, <2>3, KeepsTwice DEF Grows
<1> HIDE DEF s
<1>6. g \in Seq(Frame) /\ Len(g) = sp /\ \A i \in 1..sp : g[i] = frames[i]
  <2>1. sp \in 0..Len(frames)
    BY <1>2
  <2> QED
    BY <1>3, <2>1, PrefixProperties
<1> HIDE DEF g
<1>7. g[sp] = a /\ SameFrames(frames, g, sp - 1)
  <2>1. sp \in 1..sp /\ \A k \in 1..sp - 1 : k \in 1..sp
    BY <1>2
  <2> QED
    BY <1>6, <2>1 DEF SameFrames
<1>8. /\ a \in Frame /\ FrameFits(a) /\ a.localBase \in Nat /\ a.base + 1 \in Nat /\ a.base \in Int
      /\ a.f.isG \in BOOLEAN
  BY <1>2, <1>3, FramedTypes, FrameTypes, BaseIsNat DEF Framed
<1>9. SameViews(rg, frames, s, g, sp - 1)
  <2>1. sp <= Len(g) /\ Len(g) \in Nat /\ g[sp].base = frames[sp].base
    BY <1>2, <1>6, <1>7
  <2>2. Keeps(rg, s, frames[sp].base)
    <3>1. Keeps(rg, s, a.base)
      BY <1>2, <1>5, <1>8, KeepsLess
    <3> QED
      BY <3>1
  <2> QED
    BY <1>2, <1>3, <1>5, <1>7, <2>1, <2>2, CallersKept
<1>10. ViewOf(s, g, sp) = ViewOf(rg, frames, sp)
  <2> DEFINE n == x - a.localBase
  <2>1. Used(s, g, sp) = n
    BY <1>2, <1>5, <1>6, <1>7 DEF Used
  <2>2. Used(rg, frames, sp) = n
    <3>1. sp # Len(frames)
      BY <1>2, <1>3
    <3> QED
      BY <1>2, <3>1 DEF Used
  <2>3. n \in Nat /\ a.localBase + n = x
    BY <1>2, <1>8
  <2> HIDE DEF n
  <2>4. View(s, a, n) = View(rg, a, n)
    <3>1. Keeps(rg, s, a.localBase + n)
      BY <1>5, <2>3
    <3> HIDE DEF a
    <3> QED
      BY <1>5, <1>8, <2>3, <3>1, SameCallItself, ViewKept
  <2> QED
    BY <1>7, <2>1, <2>2, <2>4 DEF ViewOf
<1>11. Running(rg', frames') = ViewOf(rg, frames, sp)
  BY <1>1, <1>6, <1>10 DEF Running
<1>12. PICK S : /\ old \in Seq(S) /\ Len(old) = c - 1
                /\ \A k \in 1..c - 1 : old[k] = ViewOf(rg, frames, k)
  BY <1>3, CallersProperties
<1>13. (old \o <<Running(rg, frames)>>)[sp] = ViewOf(rg, frames, sp)
  <2> DEFINE v == Running(rg, frames)
             T == S \cup {v}
             t == <<v>>
  <2> HIDE DEF v, old
  <2>1. old \in [1..c - 1 -> S] /\ c - 1 \in Nat
    BY <1>3, <1>12, LenProperties
  <2>2. old \in [1..c - 1 -> T]
    BY <2>1
  <2>3. old \in Seq(T) /\ t \in Seq(T) /\ Len(t) = 1
    BY <2>1, <2>2
  <2> HIDE DEF T, t
  <2>4. \A i \in 1..Len(old) + Len(t) : (old \o t)[i] = IF i <= Len(old) THEN old[i] ELSE t[i - Len(old)]
    BY <2>3, ConcatProperties
  <2>5. sp \in 1..Len(old) + Len(t) /\ sp <= Len(old) /\ sp \in 1..c - 1
    BY <1>2, <1>3, <1>12, <2>3
  <2>6. (old \o t)[sp] = ViewOf(rg, frames, sp)
    BY <1>12, <2>4, <2>5
  <2> QED
    BY <2>6 DEF t, v
<1>14. Callers(rg', frames') = SubSeq(old, 1, sp - 1)
  <2>1. Len(g) = sp /\ Len(g) \in 1..Len(frames) /\ SameViews(rg, frames, s, g, Len(g) - 1)
    BY <1>2, <1>6, <1>9
  <2>2. Callers(s, g) = FirstOf(old, Len(g) - 1)
    BY <1>3, <2>1, CallersCut
  <2> QED
    BY <1>1, <2>1, <2>2 DEF FirstOf
<1>15. Sps(marks) # <<>> /\ Last(Sps(marks)) = sp /\ Sps(marks') = Front(Sps(marks))
  BY <1>1, <1>3, SpsProperties DEF sp, m
<1> QED
  BY <1>11, <1>13, <1>14, <1>15, AbstractFail

LEMMA EndsFails ==
  ASSUME IInv, NEW r, Grows(rg, r), r.overflow, NEW fs, NEW ms, Ends(r, fs, ms),
         marks # <<>> => Keeps(rg, r, Last(marks).base)
  PROVE  Abstract!Fail
<1>1. Sound(r) /\ rg.size <= r.size /\ rg.size \in Nat
  BY SoundTypes DEF Grows, IInv
<1>2. Recovers(Raised(r)) /\ marks # <<>>
  BY DEF Ends, Recovers
<1>3. Sound(Raised(r)) /\ ~Raised(r).overflow /\ r.size <= Raised(r).size
  BY <1>1, RaisedProperties
<1>4. rg.size <= Raised(r).size
  <2>1. r.size \in Nat /\ Raised(r).size \in Nat
    BY <1>1, <1>3, SoundTypes
  <2> HIDE DEF IInv
  <2> QED
    BY <1>1, <1>3, <2>1
<1> DEFINE x == Last(marks).base
<1>5. x \in Nat
  BY <1>2, LastMark
<1>6. Keeps(rg, r, x)
  BY <1>2
<1> HIDE DEF x
<1>7. Keeps(rg, Raised(r), x)
  <2>1. x <= r.top /\ x \in Int
    BY <1>5, <1>6 DEF Keeps
  <2> QED
    BY <1>1, <1>6, <2>1, RaisedKeeps, KeepsTwice
<1> QED
  BY <1>2, <1>3, <1>4, <1>7, RecoversFails DEF x

\* No operation of the current function changes what lies below its base.
LEMMA EndsFailsAbove ==
  ASSUME IInv, NEW r, Grows(rg, r), r.overflow, NEW fs, NEW ms, Ends(r, fs, ms),
         NEW m \in Int, Keeps(rg, r, m), cf.base <= m
  PROVE  Abstract!Fail
<1>1. Sound(r) /\ cf.base \in Int
  BY Current DEF Grows
<1>2. ASSUME marks # <<>>
      PROVE  Keeps(rg, r, Last(marks).base)
  <2> DEFINE x == Last(marks).base
             b == cf.base
  <2>1. x \in Nat /\ x <= b /\ b \in Int /\ b <= m
    BY <1>1, <1>2, LastMark
  <2> HIDE DEF x, b
  <2>2. x \in Int /\ x <= m
    BY <2>1
  <2>3. Keeps(rg, r, x)
    BY <1>1, <2>2, KeepsLess
  <2> QED
    BY <2>3 DEF x
<1> QED
  BY <1>2, EndsFails

-----------------------------------------------------------------------------
(* What LuaCalls makes of the values of a function.                        *)

Assigned(s, i, v) == IF i = Len(s) + 1 THEN Append(s, v) ELSE Abstract!ReplaceAt(s, i, v)

LEMMA AssignedProperties ==
  ASSUME NEW s \in Seq(LuaValues), NEW i \in 1..Len(s) + 1, NEW v \in LuaValues
  PROVE  LET t == Assigned(s, i, v)
         IN  /\ t \in Seq(LuaValues) /\ Len(t) = LargerOf(Len(s), i)
             /\ \A j \in 1..Len(t) : t[j] = IF j = i THEN v ELSE s[j]
<1> DEFINE n == Len(s)
<1>1. n \in Nat
  BY LenProperties
<1>2. CASE i = n + 1
  <2> DEFINE t == Append(s, v)
  <2>1. /\ t \in Seq(LuaValues) /\ Len(t) = n + 1 /\ t[n + 1] = v /\ \A j \in 1..n : t[j] = s[j]
    BY AppendProperties
  <2> HIDE DEF t
  <2>2. LargerOf(n, i) = n + 1 /\ \A j \in 1..n + 1 : j = i \/ (j # i /\ j \in 1..n)
    BY <1>1, <1>2 DEF LargerOf
  <2>3. \A j \in 1..Len(t) : t[j] = IF j = i THEN v ELSE s[j]
    BY <1>2, <2>1, <2>2
  <2> QED
    BY <1>2, <2>1, <2>2, <2>3 DEF t, Assigned
<1>3. CASE i # n + 1
  <2> DEFINE t == [s EXCEPT ![i] = v]
  <2>1. i \in 1..n /\ LargerOf(n, i) = n
    BY <1>1, <1>3 DEF LargerOf
  <2>2. t \in Seq(LuaValues) /\ Len(t) = n /\ \A j \in 1..n : t[j] = IF j = i THEN v ELSE s[j]
    BY <2>1, ExceptSeq
  <2>3. Abstract!ReplaceAt(s, i, v) = t
    BY DEF Abstract!ReplaceAt
  <2> HIDE DEF t
  <2> QED
    BY <1>3, <2>1, <2>2, <2>3 DEF Assigned
<1> QED
  BY <1>2, <1>3

LEMMA InsertedProperties ==
  ASSUME NEW s \in Seq(LuaValues), NEW i \in 1..Len(s) + 1, NEW v \in LuaValues
  PROVE  LET t == Abstract!InsertAt(s, i, v)
         IN  /\ t \in Seq(LuaValues) /\ Len(t) = Len(s) + 1
             /\ \A j \in 1..Len(t) : t[j] = IF j < i THEN s[j] ELSE IF j = i THEN v ELSE s[j - 1]
<1> DEFINE n == Len(s)
           a == SubSeq(s, 1, i - 1)
           b == <<v>>
           c == SubSeq(s, i, n)
           ab == a \o b
           t == ab \o c
<1>1. n \in Nat /\ i \in Nat /\ i <= n + 1 /\ 1 <= i
  BY LenProperties
<1>2. a \in Seq(LuaValues) /\ Len(a) = i - 1 /\ \A j \in 1..i - 1 : a[j] = s[j]
  <2>1. i - 1 \in 0..n
    BY <1>1
  <2> QED
    BY <2>1, PrefixProperties
<1>3. b \in Seq(LuaValues) /\ Len(b) = 1 /\ b[1] = v
  OBVIOUS
<1>4. c \in Seq(LuaValues) /\ Len(c) = n - i + 1 /\ \A j \in 1..n - i + 1 : c[j] = s[i + j - 1]
  <2>1. \A j \in i..n : s[j] \in LuaValues
    BY <1>1, ElementOfSeq
  <2>2. i \in Int /\ n \in Int
    BY <1>1
  <2>3. /\ c \in Seq(LuaValues) /\ Len(c) = (IF i <= n THEN n - i + 1 ELSE 0)
        /\ \A j \in 1..n - i + 1 : c[j] = s[i + j - 1]
    BY <2>1, <2>2, SubSeqProperties
  <2>4. (IF i <= n THEN n - i + 1 ELSE 0) = n - i + 1
    BY <1>1
  <2> QED
    BY <2>3, <2>4
<1> HIDE DEF n, a, b, c
<1>5. /\ ab \in Seq(LuaValues) /\ Len(ab) = i
      /\ \A j \in 1..i : ab[j] = IF j = i THEN v ELSE s[j]
  <2>1. /\ ab \in Seq(LuaValues) /\ Len(ab) = Len(a) + Len(b)
        /\ \A j \in 1..Len(a) + Len(b) : ab[j] = IF j <= Len(a) THEN a[j] ELSE b[j - Len(a)]
    BY <1>2, <1>3, ConcatProperties
  <2>2. Len(a) + Len(b) = i
    BY <1>1, <1>2, <1>3
  <2> HIDE DEF ab
  <2>3. ASSUME NEW j \in 1..i
        PROVE  ab[j] = IF j = i THEN v ELSE s[j]
    <3>1. CASE j = i
      <4>1. ~(j <= Len(a)) /\ j - Len(a) = 1
        BY <1>1, <1>2, <3>1
      <4> QED
        BY <1>3, <2>1, <2>2, <3>1, <4>1
    <3>2. CASE j # i
      <4>1. j \in 1..i - 1 /\ j <= Len(a)
        BY <1>1, <1>2, <3>2
      <4> QED
        BY <1>2, <2>1, <2>2, <3>2, <4>1
    <3> QED
      BY <3>1, <3>2
  <2> QED
    BY <2>1, <2>2, <2>3
<1> HIDE DEF ab
<1>6. /\ t \in Seq(LuaValues) /\ Len(t) = n + 1
      /\ \A j \in 1..n + 1 : t[j] = IF j < i THEN s[j] ELSE IF j = i THEN v ELSE s[j - 1]
  <2>1. /\ t \in Seq(LuaValues) /\ Len(t) = Len(ab) + Len(c)
        /\ \A j \in 1..Len(ab) + Len(c) : t[j] = IF j <= Len(ab) THEN ab[j] ELSE c[j - Len(ab)]
    BY <1>4, <1>5, ConcatProperties
  <2>2. Len(ab) + Len(c) = n + 1
    BY <1>1, <1>4, <1>5
  <2> HIDE DEF t
  <2>3. ASSUME NEW j \in 1..n + 1
        PROVE  t[j] = IF j < i THEN s[j] ELSE IF j = i THEN v ELSE s[j - 1]
    <3>1. CASE j <= i
      <4>1. j \in 1..i /\ j <= Len(ab) /\ (j < i \/ j = i) /\ ~(j < i /\ j = i)
        BY <1>1, <1>5, <3>1
      <4> QED
        BY <1>5, <2>1, <2>2, <4>1
    <3>2. CASE ~(j <= i)
      <4>1. /\ ~(j <= Len(ab)) /\ ~(j < i) /\ j # i /\ j - Len(ab) \in 1..n - i + 1
            /\ i + (j - Len(ab)) - 1 = j - 1
        BY <1>1, <1>5, <3>2
      <4> QED
        BY <1>4, <2>1, <2>2, <4>1
    <3> QED
      BY <3>1, <3>2
  <2> QED
    BY <2>1, <2>2, <2>3
<1>7. Abstract!InsertAt(s, i, v) = t
  BY DEF Abstract!InsertAt, t, ab, a, b, c, n
<1> HIDE DEF t
<1> QED
  BY <1>6, <1>7 DEF n

LEMMA RemovedProperties ==
  ASSUME NEW s \in Seq(LuaValues), NEW i \in 1..Len(s)
  PROVE  LET t == Abstract!RemoveAt(s, i)
         IN  /\ t \in Seq(LuaValues) /\ Len(t) = Len(s) - 1
             /\ \A j \in 1..Len(t) : t[j] = IF j < i THEN s[j] ELSE s[j + 1]
<1> DEFINE n == Len(s)
           a == SubSeq(s, 1, i - 1)
           p == i + 1
           c == SubSeq(s, p, n)
           t == a \o c
<1>1. n \in Nat /\ i \in Nat /\ i <= n /\ 1 <= i
  BY LenProperties
<1>2. a \in Seq(LuaValues) /\ Len(a) = i - 1 /\ \A j \in 1..i - 1 : a[j] = s[j]
  <2>1. i - 1 \in 0..n
    BY <1>1
  <2> QED
    BY <2>1, PrefixProperties
<1>3. c \in Seq(LuaValues) /\ Len(c) = n - i /\ \A j \in 1..n - i : c[j] = s[i + j]
  <2>1. \A j \in p..n : s[j] \in LuaValues
    BY <1>1, ElementOfSeq
  <2>2. p \in Int /\ n \in Int
    BY <1>1
  <2>3. /\ c \in Seq(LuaValues) /\ Len(c) = (IF p <= n THEN n - p + 1 ELSE 0)
        /\ \A j \in 1..n - p + 1 : c[j] = s[p + j - 1]
    BY <2>1, <2>2, SubSeqProperties
  <2>4. (IF p <= n THEN n - p + 1 ELSE 0) = n - i /\ n - p + 1 = n - i /\ \A j \in 1..n - i : p + j - 1 = i + j
    BY <1>1
  <2> QED
    BY <2>3, <2>4
<1> HIDE DEF n, a, c
<1>4. /\ t \in Seq(LuaValues) /\ Len(t) = n - 1
      /\ \A j \in 1..n - 1 : t[j] = IF j < i THEN s[j] ELSE s[j + 1]
  <2>1. /\ t \in Seq(LuaValues) /\ Len(t) = Len(a) + Len(c)
        /\ \A j \in 1..Len(a) + Len(c) : t[j] = IF j <= Len(a) THEN a[j] ELSE c[j - Len(a)]
    BY <1>2, <1>3, ConcatProperties
  <2>2. Len(a) + Len(c) = n - 1
    BY <1>1, <1>2, <1>3
  <2> HIDE DEF t
  <2>3. ASSUME NEW j \in 1..n - 1
        PROVE  t[j] = IF j < i THEN s[j] ELSE s[j + 1]
    <3>1. CASE j < i
      <4>1. j \in 1..i - 1 /\ j <= Len(a)
        BY <1>1, <1>2, <3>1
      <4> QED
        BY <1>2, <2>1, <2>2, <3>1, <4>1
    <3>2. CASE ~(j < i)
      <4>1. ~(j <= Len(a)) /\ j - Len(a) \in 1..n - i /\ i + (j - Len(a)) = j + 1
        BY <1>1, <1>2, <3>2
      <4> QED
        BY <1>3, <2>1, <2>2, <3>2, <4>1
    <3> QED
      BY <3>1, <3>2
  <2> QED
    BY <2>1, <2>2, <2>3
<1>5. Abstract!RemoveAt(s, i) = t
  BY DEF Abstract!RemoveAt, t, a, c, n
<1> HIDE DEF t
<1> QED
  BY <1>4, <1>5 DEF n

LEMMA AdjustedProperties ==
  ASSUME NEW s \in Seq(LuaValues), NEW n \in Nat \cup {MultRet}
  PROVE  LET t == Abstract!Adjusted(s, n)
             m == IF n = MultRet THEN Len(s) ELSE n
         IN  /\ t \in Seq(LuaValues) /\ Len(t) = m /\ m \in Nat
             /\ \A i \in 1..m : t[i] = IF i <= Len(s) THEN s[i] ELSE LNil
<1> DEFINE t == Abstract!Adjusted(s, n)
<1>1. Len(s) \in Nat /\ \A i \in 1..Len(s) : s[i] \in LuaValues
  BY LenProperties, ElementOfSeq
<1>2. CASE n = MultRet
  <2>1. t = s
    BY <1>2 DEF Abstract!Adjusted, Abstract!MultRet, MultRet
  <2>2. \A i \in 1..Len(s) : i <= Len(s)
    BY <1>1
  <2> HIDE DEF t
  <2> QED
    BY <1>1, <1>2, <2>1, <2>2 DEF t
<1>3. CASE n # MultRet
  <2>1. n \in Nat
    BY <1>3
  <2>2. t = [i \in 1..n |-> IF i <= Len(s) THEN s[i] ELSE LNil]
    BY <1>3 DEF Abstract!Adjusted, Abstract!MultRet, MultRet
  <2> HIDE DEF t
  <2>3. ASSUME NEW i \in 1..n
        PROVE  (IF i <= Len(s) THEN s[i] ELSE LNil) \in LuaValues
    <3>1. i <= Len(s) => i \in 1..Len(s)
      BY <1>1, <2>1
    <3> QED
      BY <1>1, <3>1, LuaValuesStored
  <2>4. t \in [1..n -> LuaValues]
    BY <2>2, <2>3
  <2>5. t \in Seq(LuaValues) /\ Len(t) = n
    BY <2>1, <2>4
  <2> QED
    BY <1>3, <2>1, <2>2, <2>5 DEF t
<1> QED
  BY <1>2, <1>3

-----------------------------------------------------------------------------
(* The steps of a function in its own window, as LuaCalls sees them.       *)

LEMMA WithLiveSame ==
  ASSUME IInv, NEW n \in Nat, NEW open \in BOOLEAN
  PROVE  LET fs == WithLive(n, open)
         IN  /\ Len(fs) = Len(frames) /\ SameFrames(frames, fs, Len(frames) - 1)
             /\ SameCall(cf, fs[Len(frames)])
<1> DEFINE fs == WithLive(n, open)
           a == fs[Len(fs)]
<1>1. /\ Len(fs) = Len(frames) /\ \A k \in 1..Len(frames) - 1 : fs[k] = frames[k]
      /\ a.f = cf.f /\ a.localBase = cf.localBase /\ a.want = cf.want /\ a.into = cf.into
      /\ a \in Frame /\ a.base = cf.base /\ a.nargs = cf.nargs /\ a.tail = cf.tail
  BY WithLiveProperties
<1> HIDE DEF fs
<1> QED
  BY <1>1 DEF fs, SameFrames, SameCall

LEMMA OwnStepEnds ==
  ASSUME IInv, NEW r, Grows(rg, r), Keeps(rg, r, cf.localBase), NEW fs, Len(fs) = Len(frames),
         SameFrames(frames, fs, Len(frames) - 1), SameCall(cf, fs[Len(frames)]), Ends(r, fs, marks),
         NEW locals, ~r.overflow => locals = Row(r, cf.localBase, Used(r, fs, Len(frames)))
  PROVE  Abstract!Fail \/ (Abstract!Becomes(locals) /\ Abstract!Depth' = Abstract!Depth)
<1> DEFINE c == Len(frames)
<1>1. /\ Sound(rg) /\ Framed(frames, marks) /\ c \in Nat \ {0} /\ cf = frames[c] /\ cf \in Frame
      /\ FrameFits(cf) /\ cf.base \in Int /\ cf.localBase \in Nat /\ cf.base + 1 <= cf.localBase
      /\ Covered(frames, rg.top)
  BY Current DEF IInv
<1>2. Sound(r)
  BY DEF Grows
<1>3. Keeps(rg, r, cf.base)
  <2> DEFINE x == cf.base
             y == cf.localBase
  <2>1. x \in Int /\ y \in Int /\ x <= y /\ Keeps(rg, r, y)
    BY <1>1
  <2> HIDE DEF x, y
  <2>2. Keeps(rg, r, x)
    BY <1>2, <2>1, KeepsLess
  <2> QED
    BY <2>2 DEF x
<1>4. CASE r.overflow
  <2>1. cf.base <= cf.base
    BY <1>1
  <2> QED
    BY <1>1, <1>3, <1>4, <2>1, EndsFailsAbove
<1>5. CASE ~r.overflow
  <2>1. rg' = r /\ frames' = fs /\ marks' = marks
    BY <1>5 DEF Ends
  <2> DEFINE b == fs[c]
             n == Used(r, fs, c)
  <2>2. SameViews(rg, frames, r, fs, c - 1)
    <3>1. c \in 1..Len(frames) /\ c <= Len(fs) /\ Len(fs) \in Nat
      BY <1>1
    <3>2. fs[c].base = frames[c].base /\ Keeps(rg, r, frames[c].base)
      BY <1>1, <1>3 DEF SameCall
    <3> QED
      BY <1>1, <1>2, <3>1, <3>2, CallersKept
  <2>3. Callers(r, fs) = Callers(rg, frames)
    BY <2>2, CallersSame
  <2>4. cf.base + 1 \in Nat
    <3>1. c \in 1..Len(frames)
      BY <1>1
    <3> QED
      BY <1>1, <3>1, BaseIsNat
  <2>5. View(r, b, n) = [View(rg, cf, Live) EXCEPT !.locals = Row(r, cf.localBase, n)]
    <3> DEFINE a == cf
               m == Live
    <3>1. /\ a \in Frame /\ FrameFits(a) /\ a.base + 1 \in Nat /\ SameCall(a, b)
          /\ Keeps(rg, r, a.localBase)
      BY <1>1, <2>4
    <3> HIDE DEF a, b, m, n
    <3>2. View(r, b, n) = WithLocals(View(rg, a, m), Row(r, a.localBase, n))
      BY <3>1, ViewLocals
    <3> QED
      BY <3>2 DEF a, m, WithLocals
  <2>6. Running(r, fs) = View(r, b, n)
    BY DEF Running, ViewOf
  <2>7. Running(rg, frames) = View(rg, cf, Live)
    BY AbstractLocals
  <2>8. locals = Row(r, cf.localBase, n)
    BY <1>5
  <2>9. Running(r, fs) = [Running(rg, frames) EXCEPT !.locals = locals]
    BY <2>5, <2>6, <2>7, <2>8
  <2>10. Abstract!Becomes(locals)
    BY <2>1, <2>3, <2>9, AbstractBecomes
  <2>11. Abstract!Depth' = Abstract!Depth
    BY <1>1, <2>1, AbstractLocals, AbstractDepthNext
  <2> QED
    BY <2>10, <2>11
<1> QED
  BY <1>4, <1>5

LEMMA OwnStepNext ==
  ASSUME Abstract!Fail \/ (Abstract!OwnStep /\ Abstract!Depth' = Abstract!Depth)
  PROVE  Abstract!Next
BY DEF Abstract!Next

\* What is in the window of the current function, of n values, after a step.
LEMMA LocalsAre ==
  ASSUME IInv, NEW r, NEW n \in Nat, NEW locals \in Seq(LuaValues), Len(locals) = n,
         \A j \in 1..n : locals[j] = r.array[cf.localBase + j - 1]
  PROVE  locals = Row(r, cf.localBase, n)
<1>1. Lists(locals, r, cf.localBase, n)
  BY DEF Lists
<1> QED
  BY <1>1, IsRow

\* A step ends in the same function, with these values below top.
StaysIn(r, fs) ==
    /\ Grows(rg, r) /\ Keeps(rg, r, cf.localBase)
    /\ Len(fs) = Len(frames) /\ SameFrames(frames, fs, Len(frames) - 1)
    /\ SameCall(cf, fs[Len(frames)])

FinalLocals(r, fs, locals) ==
    /\ locals \in Seq(LuaValues) /\ Used(r, fs, Len(frames)) = Len(locals)
    /\ \A j \in 1..Len(locals) : locals[j] = r.array[cf.localBase + j - 1]

LEMMA StaysInNext ==
  ASSUME IInv, NEW r, NEW fs, StaysIn(r, fs), Ends(r, fs, marks),
         NEW locals, ~r.overflow => FinalLocals(r, fs, locals),
         Abstract!Becomes(locals) => Abstract!OwnStep
  PROVE  Abstract!Next
<1>1. ASSUME ~r.overflow
      PROVE  locals = Row(r, cf.localBase, Used(r, fs, Len(frames)))
  <2> DEFINE n == Len(locals)
  <2>1. /\ locals \in Seq(LuaValues) /\ Used(r, fs, Len(frames)) = n
        /\ \A j \in 1..n : locals[j] = r.array[cf.localBase + j - 1]
    BY <1>1 DEF FinalLocals
  <2>2. n \in Nat
    BY <2>1, LenProperties
  <2> HIDE DEF n
  <2>3. locals = Row(r, cf.localBase, n)
    BY <2>1, <2>2, LocalsAre DEF n
  <2> QED
    BY <2>1, <2>3
<1>2. Abstract!Fail \/ (Abstract!Becomes(locals) /\ Abstract!Depth' = Abstract!Depth)
  BY <1>1, OwnStepEnds DEF StaysIn
<1> QED
  BY <1>2, OwnStepNext

LEMMA StaysInGo ==
  ASSUME IInv, cf.f.isG, NEW r, Grows(rg, r), Keeps(rg, r, cf.localBase)
  PROVE  StaysIn(r, frames) /\ Used(r, frames, Len(frames)) = r.top - cf.localBase
<1>1. cf \in Frame /\ cf = frames[Len(frames)]
  BY Current
<1>2. SameFrames(frames, frames, Len(frames) - 1) /\ SameCall(cf, frames[Len(frames)])
  BY <1>1, SameCallItself DEF SameFrames
<1> QED
  BY <1>1, <1>2 DEF StaysIn, Used

LEMMA StaysInLua ==
  ASSUME IInv, ~cf.f.isG, NEW r, Grows(rg, r), Keeps(rg, r, cf.localBase),
         NEW n \in Nat, NEW open \in BOOLEAN
  PROVE  /\ StaysIn(r, WithLive(n, open))
         /\ Used(r, WithLive(n, open), Len(frames)) = IF open THEN r.top - cf.localBase ELSE n
<1> DEFINE fs == WithLive(n, open)
           a == fs[Len(fs)]
<1>1. /\ Len(fs) = Len(frames) /\ a.f = cf.f /\ a.localBase = cf.localBase /\ a.live = n
      /\ (a.open <=> open)
  BY WithLiveProperties
<1>2. SameFrames(frames, fs, Len(frames) - 1) /\ SameCall(cf, fs[Len(frames)])
  BY WithLiveSame
<1> HIDE DEF fs
<1>3. StaysIn(r, fs)
  BY <1>1, <1>2 DEF StaysIn
<1>4. Used(r, fs, Len(frames)) = IF open THEN r.top - cf.localBase ELSE n
  BY <1>1 DEF Used
<1> QED
  BY <1>3, <1>4 DEF fs

\* What is known of the values of the current function.
LEMMA LocalsProperties ==
  ASSUME IInv
  PROVE  /\ Abstract!Locals \in Seq(LuaValues) /\ Len(Abstract!Locals) = Live /\ Live \in Nat
         /\ Abstract!Count = Live /\ cf.localBase \in Nat /\ rg.top \in Nat
         /\ cf.localBase + Live <= rg.top
         /\ \A i \in 1..Live : Abstract!Locals[i] = rg.array[cf.localBase + i - 1]
<1>1. Abstract!Count = Len(Abstract!Locals)
  BY DEF Abstract!Count
<1> QED
  BY <1>1, AbstractLocals, Current

LEMMA AssignNext ==
  ASSUME IInv, NEW i \in Nat, i <= Live, NEW v \in LuaValues, NEW r, NEW fs, StaysIn(r, fs),
         Ends(r, fs, marks),
         ~r.overflow =>
            /\ Used(r, fs, Len(frames)) = LargerOf(Live, i + 1)
            /\ \A j \in 0..cf.localBase + LargerOf(Live, i + 1) - 1 :
                 r.array[j] = IF j = cf.localBase + i THEN v ELSE rg.array[j]
  PROVE  Abstract!Next
<1> DEFINE L == Abstract!Locals
           p == i + 1
           x == cf.localBase
           n == Live
           locals == Assigned(L, p, v)
<1>1. /\ L \in Seq(LuaValues) /\ Len(L) = n /\ n \in Nat /\ Abstract!Count = n /\ x \in Nat
      /\ \A j \in 1..n : L[j] = rg.array[x + j - 1]
  BY LocalsProperties
<1>2. p \in 1..n + 1
  BY <1>1
<1>3. Abstract!Becomes(locals) => Abstract!OwnStep
  <2>1. v \in Values \cup {LNil}
    BY DEF LuaValues
  <2>2. Abstract!Becomes(locals) => Abstract!Assign(p, v)
    BY DEF Abstract!Assign, Assigned
  <2>3. p \in 1..Abstract!Count + 1
    BY <1>1, <1>2
  <2> HIDE DEF p, locals
  <2> QED
    BY <2>1, <2>2, <2>3 DEF Abstract!OwnStep
<1> HIDE DEF L
<1>4. /\ locals \in Seq(LuaValues) /\ Len(locals) = LargerOf(n, p)
      /\ \A j \in 1..Len(locals) : locals[j] = IF j = p THEN v ELSE L[j]
  <2>1. p \in 1..Len(L) + 1
    BY <1>1, <1>2
  <2>2. L \in Seq(LuaValues) /\ Len(L) = n
    BY <1>1
  <2> HIDE DEF p, n
  <2> QED
    BY <2>1, <2>2, AssignedProperties
<1> HIDE DEF locals
<1>5. ASSUME ~r.overflow
      PROVE  FinalLocals(r, fs, locals)
  <2> DEFINE m == LargerOf(n, p)
  <2>1. /\ Used(r, fs, Len(frames)) = m
        /\ \A j \in 0..x + m - 1 : r.array[j] = IF j = x + i THEN v ELSE rg.array[j]
    BY <1>5
  <2>2. m \in Nat /\ \A j \in 1..m : j = p \/ j \in 1..n
    BY <1>1, <1>2 DEF LargerOf
  <2> HIDE DEF m, x, n
  <2>3. ASSUME NEW j \in 1..m
        PROVE  locals[j] = r.array[x + j - 1]
    <3>1. x + j - 1 \in 0..x + m - 1 /\ (x + j - 1 = x + i <=> j = p)
      BY <1>1, <2>2
    <3> QED
      BY <1>1, <1>4, <2>1, <2>2, <3>1 DEF m
  <2> QED
    BY <1>4, <2>1, <2>3 DEF FinalLocals, m, x
<1> QED
  BY <1>3, <1>5, StaysInNext

LEMMA SetRegisterNext ==
  ASSUME IInv, NEW i \in Nat, NEW v \in LuaValues, SetRegister(i, v)
  PROVE  Abstract!Next
<1> DEFINE b == Register(i)
           r == Set(rg, b, v)
           n == LargerOf(Live, i + 1)
           fs == WithLive(n, FALSE)
           x == cf.localBase
<1>1. ~cf.f.isG /\ i <= Live /\ Ends(r, fs, marks)
  BY DEF SetRegister
<1>2. Sound(rg) /\ rg.top \in Nat /\ Live \in Nat /\ x \in Nat /\ x + Live <= rg.top /\ i + 1 \in Nat
  BY Current
<1>3. b \in 0..rg.top /\ b = x + i /\ x <= b
  BY <1>1, <1>2, RegisterProperties
<1>4. n \in Nat
  BY <1>2, LargerProperties
<1> HIDE DEF b
<1>5. /\ Grows(rg, r)
      /\ ~r.overflow => /\ r.top = LargerOf(rg.top, b + 1)
                        /\ \A j \in 0..r.top - 1 : r.array[j] = IF j = b THEN v ELSE rg.array[j]
  BY <1>2, <1>3, SetProperties
<1>6. Keeps(rg, r, x)
  <2>1. x \in Int
    BY <1>2
  <2> HIDE DEF x
  <2> QED
    BY <1>2, <1>3, <2>1, SetKeeps
<1> HIDE DEF r
<1>7. StaysIn(r, fs) /\ Used(r, fs, Len(frames)) = n
  BY <1>1, <1>4, <1>5, <1>6, StaysInLua
<1>8. ASSUME ~r.overflow
      PROVE  \A j \in 0..x + n - 1 : r.array[j] = IF j = x + i THEN v ELSE rg.array[j]
  <2> DEFINE l == Live
             t == rg.top
  <2>1. x + n <= r.top /\ r.top \in Nat
    <3>1. /\ x \in Nat /\ l \in Nat /\ t \in Nat /\ x + l <= t /\ b = x + i /\ n = LargerOf(l, i + 1)
          /\ r.top = LargerOf(t, b + 1)
      BY <1>2, <1>3, <1>5, <1>8
    <3> HIDE DEF x, l, t, n
    <3> QED
      BY <3>1 DEF LargerOf
  <2> HIDE DEF x, n
  <2> QED
    BY <1>2, <1>3, <1>4, <1>5, <1>8, <2>1
<1> HIDE DEF fs
<1> QED
  BY <1>1, <1>7, <1>8, AssignNext

LEMMA APIPushNext ==
  ASSUME IInv, NEW v \in LuaValues, APIPush(v)
  PROVE  Abstract!Next
<1> DEFINE r == Push(rg, v)
           x == cf.localBase
           i == Live
<1>1. cf.f.isG /\ Ends(r, frames, marks)
  BY DEF APIPush
<1>2. Sound(rg) /\ rg.top \in Nat /\ x \in Nat /\ i \in Nat /\ x + i = rg.top
  BY <1>1, Current
<1>3. /\ Grows(rg, r)
      /\ ~r.overflow => /\ r.top = rg.top + 1
                        /\ \A j \in 0..r.top - 1 : r.array[j] = IF j = rg.top THEN v ELSE rg.array[j]
  BY <1>2, PushProperties
<1>4. Keeps(rg, r, x)
  <2>1. x \in Int /\ x <= rg.top
    <3> HIDE DEF x, i
    <3> QED
      BY <1>2
  <2> HIDE DEF x
  <2> QED
    BY <1>2, <2>1, PushKeeps
<1> HIDE DEF r
<1>5. StaysIn(r, frames) /\ Used(r, frames, Len(frames)) = r.top - x
  BY <1>1, <1>3, <1>4, StaysInGo
<1>6. ~r.overflow =>
         /\ Used(r, frames, Len(frames)) = LargerOf(i, i + 1)
         /\ \A j \in 0..x + LargerOf(i, i + 1) - 1 : r.array[j] = IF j = x + i THEN v ELSE rg.array[j]
  <2> HIDE DEF x, i
  <2>1. LargerOf(i, i + 1) = i + 1 /\ r.top = rg.top + 1 => x + (i + 1) = r.top /\ r.top - x = i + 1
    BY <1>2 DEF LargerOf
  <2>2. LargerOf(i, i + 1) = i + 1
    BY <1>2 DEF LargerOf
  <2> QED
    BY <1>2, <1>3, <1>5, <2>1, <2>2
<1>7. i <= Live /\ Live \in Nat
  BY <1>2
<1> QED
  BY <1>1, <1>5, <1>6, <1>7, AssignNext

LEMMA APIReplaceNext ==
  ASSUME IInv, NEW i \in Nat, NEW v \in LuaValues, APIReplace(i, v)
  PROVE  Abstract!Next
<1> DEFINE b == Register(i)
           r == Set(rg, b, v)
           x == cf.localBase
           n == Live
<1>1. cf.f.isG /\ i < Live /\ Ends(r, frames, marks)
  BY DEF APIReplace, Serves
<1>2. Sound(rg) /\ rg.top \in Nat /\ x \in Nat /\ n \in Nat /\ x + n = rg.top
  BY <1>1, Current
<1>3. b \in 0..rg.top /\ b = x + i /\ x <= b /\ b + 1 <= rg.top
  BY <1>1, <1>2, RegisterProperties
<1> HIDE DEF b
<1>4. /\ Grows(rg, r)
      /\ ~r.overflow => /\ r.top = LargerOf(rg.top, b + 1)
                        /\ \A j \in 0..r.top - 1 : r.array[j] = IF j = b THEN v ELSE rg.array[j]
  BY <1>2, <1>3, SetProperties
<1>5. Keeps(rg, r, x)
  <2>1. x \in Int
    BY <1>2
  <2> HIDE DEF x
  <2> QED
    BY <1>2, <1>3, <2>1, SetKeeps
<1> HIDE DEF r
<1>6. StaysIn(r, frames) /\ Used(r, frames, Len(frames)) = r.top - x
  BY <1>1, <1>4, <1>5, StaysInGo
<1>7. ~r.overflow =>
         /\ Used(r, frames, Len(frames)) = LargerOf(n, i + 1)
         /\ \A j \in 0..x + LargerOf(n, i + 1) - 1 : r.array[j] = IF j = x + i THEN v ELSE rg.array[j]
  <2>1. i < n
    BY <1>1
  <2> HIDE DEF x, n
  <2>2. LargerOf(n, i + 1) = n /\ LargerOf(rg.top, b + 1) = x + n /\ rg.top - x = n
    BY <1>2, <1>3, <2>1 DEF LargerOf
  <2> QED
    BY <1>2, <1>3, <1>4, <1>6, <2>2
<1>8. i <= Live
  BY <1>1, <1>2
<1> QED
  BY <1>1, <1>6, <1>7, <1>8, AssignNext

LEMMA APISetTopNext ==
  ASSUME IInv, NEW n \in Nat, APISetTop(n)
  PROVE  Abstract!Next
<1> DEFINE b == Register(n)
           r == SetTop(rg, b)
           x == cf.localBase
           m == Live
           L == Abstract!Locals
           locals == Abstract!Adjusted(L, n)
<1>1. cf.f.isG /\ n <= Live + 1 /\ Ends(r, frames, marks)
  BY DEF APISetTop
<1>2. Sound(rg) /\ rg.top \in Nat /\ x \in Nat /\ m \in Nat /\ x + m = rg.top
  BY <1>1, Current
<1>3. b \in Nat /\ b = x + n
  BY RegisterProperties
<1> HIDE DEF b
<1>4. /\ Grows(rg, r)
      /\ ~r.overflow =>
           /\ r.top = b
           /\ \A j \in 0..b - 1 : r.array[j] = IF j < rg.top THEN rg.array[j] ELSE LNil
  BY <1>2, <1>3, SetTopProperties
<1>5. Keeps(rg, r, x)
  <2>1. x \in Int /\ x <= b /\ x <= rg.top
    <3> HIDE DEF x, m
    <3> QED
      BY <1>2, <1>3
  <2> HIDE DEF x
  <2> QED
    BY <1>2, <1>3, <2>1, SetTopKeeps
<1> HIDE DEF r
<1>6. StaysIn(r, frames) /\ Used(r, frames, Len(frames)) = r.top - x
  BY <1>1, <1>4, <1>5, StaysInGo
<1>7. /\ L \in Seq(LuaValues) /\ Len(L) = m /\ Abstract!Count = m
      /\ \A j \in 1..m : L[j] = rg.array[x + j - 1]
  BY LocalsProperties
<1>8. Abstract!Becomes(locals) => Abstract!OwnStep
  <2>1. Abstract!Becomes(locals) => Abstract!SetTop(n)
    BY DEF Abstract!SetTop
  <2>2. n \in 0..Abstract!Count + 1
    BY <1>1, <1>2, <1>7
  <2> HIDE DEF locals
  <2> QED
    BY <2>1, <2>2 DEF Abstract!OwnStep
<1>9. /\ locals \in Seq(LuaValues) /\ Len(locals) = n
      /\ \A j \in 1..n : locals[j] = IF j <= m THEN L[j] ELSE LNil
  <2>1. n # MultRet /\ n \in Nat \cup {MultRet}
    BY DEF MultRet
  <2> HIDE DEF L, m
  <2> QED
    BY <1>7, <2>1, AdjustedProperties
<1> HIDE DEF locals, L
<1>10. ASSUME ~r.overflow
       PROVE  FinalLocals(r, frames, locals)
  <2>0. Used(r, frames, Len(frames)) = r.top - x
    BY <1>6
  <2> HIDE DEF x, m
  <2>1. r.top - x = n
    BY <1>2, <1>3, <1>4, <1>10
  <2>2. ASSUME NEW j \in 1..n
        PROVE  locals[j] = r.array[x + j - 1]
    <3>1. /\ x + j - 1 \in 0..b - 1 /\ (x + j - 1 < rg.top <=> j <= m) /\ (j <= m => j \in 1..m)
      BY <1>2, <1>3
    <3> QED
      BY <1>4, <1>7, <1>9, <1>10, <3>1
  <2> QED
    BY <1>9, <2>0, <2>1, <2>2 DEF FinalLocals, x
<1> QED
  BY <1>1, <1>6, <1>8, <1>10, StaysInNext

LEMMA APIInsertNext ==
  ASSUME IInv, NEW i \in Nat, NEW v \in LuaValues, APIInsert(i, v)
  PROVE  Abstract!Next
<1> DEFINE b == Register(i)
           r == Insert(rg, v, b)
           x == cf.localBase
           m == Live
           L == Abstract!Locals
           p == i + 1
           locals == Abstract!InsertAt(L, p, v)
<1>1. cf.f.isG /\ i <= Live /\ Ends(r, frames, marks)
  BY DEF APIInsert, Serves
<1>2. Sound(rg) /\ rg.top \in Nat /\ x \in Nat /\ m \in Nat /\ x + m = rg.top
  BY <1>1, Current
<1>3. b \in 0..rg.top /\ b = x + i /\ x <= b
  BY <1>1, <1>2, RegisterProperties
<1> HIDE DEF b
<1>4. /\ Grows(rg, r)
      /\ ~r.overflow =>
           /\ r.top = rg.top + 1
           /\ \A j \in 0..r.top - 1 :
                r.array[j] = IF j < b THEN rg.array[j] ELSE IF j = b THEN v ELSE rg.array[j - 1]
  BY <1>2, <1>3, InsertProperties
<1>5. Keeps(rg, r, x)
  <2>1. x \in Int
    BY <1>2
  <2> HIDE DEF x
  <2> QED
    BY <1>2, <1>3, <2>1, InsertKeeps
<1> HIDE DEF r
<1>6. StaysIn(r, frames) /\ Used(r, frames, Len(frames)) = r.top - x
  BY <1>1, <1>4, <1>5, StaysInGo
<1>7. /\ L \in Seq(LuaValues) /\ Len(L) = m /\ Abstract!Count = m
      /\ \A j \in 1..m : L[j] = rg.array[x + j - 1]
  BY LocalsProperties
<1>8. p \in 1..m + 1
  BY <1>1, <1>2
<1>9. Abstract!Becomes(locals) => Abstract!OwnStep
  <2>1. Abstract!Becomes(locals) => Abstract!Insert(p, v)
    BY DEF Abstract!Insert
  <2>2. p \in 1..Abstract!Count + 1 /\ v \in Values \cup {LNil}
    BY <1>7, <1>8 DEF LuaValues
  <2> HIDE DEF locals, p
  <2> QED
    BY <2>1, <2>2 DEF Abstract!OwnStep
<1>10. /\ locals \in Seq(LuaValues) /\ Len(locals) = m + 1
       /\ \A j \in 1..m + 1 : locals[j] = IF j < p THEN L[j] ELSE IF j = p THEN v ELSE L[j - 1]
  <2> HIDE DEF L, m, p
  <2> QED
    BY <1>7, <1>8, InsertedProperties
<1> HIDE DEF locals, L
<1>11. ASSUME ~r.overflow
       PROVE  FinalLocals(r, frames, locals)
  <2>0. Used(r, frames, Len(frames)) = r.top - x
    BY <1>6
  <2> HIDE DEF x, m
  <2>1. r.top = x + m + 1 /\ r.top - x = m + 1
    BY <1>2, <1>4, <1>11
  <2>2. ASSUME NEW j \in 1..m + 1
        PROVE  locals[j] = r.array[x + j - 1]
    <3>1. /\ x + j - 1 \in 0..r.top - 1 /\ (x + j - 1 < b <=> j < p) /\ (x + j - 1 = b <=> j = p)
      BY <1>2, <1>3, <2>1
    <3>2. CASE j < p
      <4>1. j \in 1..m
        BY <1>2, <1>8, <3>2
      <4> QED
        BY <1>4, <1>7, <1>10, <1>11, <3>1, <3>2, <4>1
    <3>3. CASE j = p
      BY <1>4, <1>10, <1>11, <3>1, <3>3
    <3>4. CASE ~(j < p) /\ j # p
      <4>1. j - 1 \in 1..m /\ x + (j - 1) - 1 = (x + j - 1) - 1
        BY <1>2, <1>8, <3>4
      <4> QED
        BY <1>4, <1>7, <1>10, <1>11, <3>1, <3>4, <4>1
    <3> QED
      BY <3>2, <3>3, <3>4
  <2> QED
    BY <1>10, <2>0, <2>1, <2>2 DEF FinalLocals, x
<1> QED
  BY <1>1, <1>6, <1>9, <1>11, StaysInNext

\* Values above the one that is removed move down.
LEMMA RemovedRegisters ==
  ASSUME NEW r, Sound(r), ~r.overflow, NEW b \in Nat, b < r.top - 1
  PROVE  LET s == SetTop(Stored(r, [j \in b..r.top - 2 |-> r.array[j + 1]], r.top), r.top - 1)
         IN  /\ Grows(r, s) /\ Keeps(r, s, b)
             /\ ~s.overflow =>
                  /\ s.top = r.top - 1
                  /\ \A j \in 0..s.top - 1 : s.array[j] = IF j < b THEN r.array[j] ELSE r.array[j + 1]
<1> DEFINE t == r.top
           c == [j \in b..t - 2 |-> r.array[j + 1]]
           q == Stored(r, c, t)
           n == t - 1
           s == SetTop(q, n)
<1>1. /\ r.size \in Nat /\ t \in Nat /\ t <= r.size
      /\ \A j \in 0..t - 1 : r.array[j] \in LuaValues
  BY SoundTypes
<1>2. DOMAIN c = b..t - 2 /\ \A j \in b..t - 2 : c[j] = r.array[j + 1]
  OBVIOUS
<1>3. b < t - 1
  OBVIOUS
<1> HIDE DEF c, t
<1>4. /\ t <= r.size
      /\ \A j \in DOMAIN c : j \in 0..r.size - 1 /\ c[j] \in Stores
      /\ \A j \in 0..t - 1 : IF j \in DOMAIN c THEN c[j] # Empty ELSE j < t
  <2>1. ASSUME NEW j \in b..t - 2
        PROVE  j \in 0..r.size - 1 /\ j + 1 \in 0..t - 1
    BY <1>1
  <2>2. ASSUME NEW j \in b..t - 2
        PROVE  c[j] \in Stores /\ c[j] # Empty
    BY <1>1, <1>2, <2>1, LuaValuesStored
  <2>3. \A j \in DOMAIN c : j \in 0..r.size - 1 /\ c[j] \in Stores
    BY <1>2, <2>1, <2>2
  <2>4. \A j \in 0..t - 1 : IF j \in DOMAIN c THEN c[j] # Empty ELSE j < t
    BY <1>1, <1>2, <2>2
  <2> QED
    BY <1>1, <2>3, <2>4
<1>5. /\ Grows(r, q) /\ q.overflow = r.overflow
      /\ ~q.overflow =>
           /\ q.top = t
           /\ \A j \in 0..t - 1 : q.array[j] = IF j \in DOMAIN c THEN c[j] ELSE r.array[j]
  BY <1>1, <1>4, StoredProperties DEF t
<1> HIDE DEF q
<1>6. /\ Sound(q) /\ ~q.overflow /\ q.top = t
      /\ \A j \in 0..t - 2 : q.array[j] = IF j < b THEN r.array[j] ELSE r.array[j + 1]
  <2>1. ASSUME NEW j \in 0..t - 2
        PROVE  q.array[j] = IF j < b THEN r.array[j] ELSE r.array[j + 1]
    <3>1. j \in 0..t - 1 /\ (j \in b..t - 2 <=> ~(j < b))
      BY <1>1
    <3> QED
      BY <1>2, <1>5, <3>1
  <2> QED
    BY <1>5, <2>1 DEF Grows
<1>7. n \in Nat /\ b <= n /\ b <= t
  BY <1>1, <1>3
<1>8. /\ Grows(q, s)
      /\ ~s.overflow =>
           /\ s.top = n
           /\ \A j \in 0..n - 1 : s.array[j] = IF j < q.top THEN q.array[j] ELSE LNil
  <2> HIDE DEF n
  <2> QED
    BY <1>6, <1>7, SetTopProperties
<1>9. Keeps(q, s, b)
  <2>1. b \in Int /\ b <= q.top
    BY <1>6, <1>7
  <2>2. n \in Nat /\ b <= n /\ Sound(q)
    BY <1>6, <1>7
  <2> HIDE DEF n
  <2> QED
    BY <2>1, <2>2, SetTopKeeps
<1>10. Keeps(r, q, b)
  <2>1. \A j \in 0..b - 1 : j \in 0..t - 2 /\ j < b
    BY <1>1, <1>3
  <2> QED
    BY <1>6, <1>7, <2>1 DEF Keeps
<1> HIDE DEF s
<1>11. Grows(r, s) /\ Keeps(r, s, b)
  BY <1>5, <1>8, <1>9, <1>10, GrowsTwice, KeepsTwice
<1>12. ASSUME ~s.overflow
       PROVE  \A j \in 0..s.top - 1 : s.array[j] = IF j < b THEN r.array[j] ELSE r.array[j + 1]
  <2>1. \A j \in 0..n - 1 : j \in 0..t - 2 /\ j < t
    BY <1>1
  <2> QED
    BY <1>6, <1>8, <1>12, <2>1
<1> QED
  BY <1>8, <1>11, <1>12 DEF s, q, c, n, t

LEMMA APIRemoveNext ==
  ASSUME IInv, NEW i \in Nat, APIRemove(i)
  PROVE  Abstract!Next
<1> DEFINE b == Register(i)
           x == cf.localBase
           m == Live
           t == rg.top
           L == Abstract!Locals
           p == i + 1
           locals == Abstract!RemoveAt(L, p)
           moved == SetTop(Stored(rg, [j \in b..t - 2 |-> rg.array[j + 1]], t), t - 1)
           r == IF b = t - 1 THEN Pop(rg) ELSE moved
<1>1. cf.f.isG /\ i < Live /\ Ends(r, frames, marks)
  BY DEF APIRemove, Serves
<1>2. Sound(rg) /\ ~rg.overflow /\ t \in Nat /\ x \in Nat /\ m \in Nat /\ x + m = t
  BY <1>1, Current DEF IInv
<1>3. b \in Nat /\ b = x + i /\ x <= b /\ b < t
  BY <1>1, <1>2, RegisterProperties
<1> HIDE DEF b
<1>4. /\ Grows(rg, r) /\ Keeps(rg, r, x)
      /\ ~r.overflow =>
           /\ r.top = t - 1
           /\ \A j \in 0..t - 2 : r.array[j] = IF j < b THEN rg.array[j] ELSE rg.array[j + 1]
  <2>1. CASE b = t - 1
    <3> DEFINE s == Pop(rg)
    <3>1. r = s /\ t # 0
      BY <1>2, <1>3, <2>1
    <3>2. /\ Grows(rg, s) /\ s.overflow = rg.overflow
          /\ ~s.overflow => s.top = t - 1 /\ \A j \in 0..s.top - 1 : s.array[j] = rg.array[j]
      BY <1>2, <3>1, PopProperties
    <3> HIDE DEF r, s
    <3> HIDE DEF t, x
    <3>3. \A j \in 0..t - 2 : j \in 0..t - 1 - 1 /\ j < b
      BY <1>2, <2>1
    <3>4. Keeps(rg, s, x)
      <4>1. \A j \in 0..x - 1 : j \in 0..t - 1 - 1
        BY <1>2, <1>3, <2>1
      <4>2. x <= t - 1
        BY <1>2, <1>3, <2>1
      <4> QED
        BY <1>2, <3>2, <4>1, <4>2 DEF Keeps
    <3> QED
      BY <1>2, <3>1, <3>2, <3>3, <3>4
  <2>2. CASE b # t - 1
    <3>1. r = moved /\ b < t - 1
      BY <1>2, <1>3, <2>2
    <3>2. /\ Grows(rg, moved) /\ Keeps(rg, moved, b)
          /\ ~moved.overflow =>
               /\ moved.top = t - 1
               /\ \A j \in 0..moved.top - 1 :
                    moved.array[j] = IF j < b THEN rg.array[j] ELSE rg.array[j + 1]
      BY <1>2, <1>3, <3>1, RemovedRegisters
    <3> HIDE DEF r, moved
    <3> HIDE DEF t, x
    <3>3. \A j \in 0..t - 2 : j \in 0..t - 1 - 1
      BY <1>2
    <3>4. Keeps(rg, moved, x)
      <4>1. Sound(moved) /\ x \in Int /\ b \in Int
        BY <1>2, <1>3, <3>2 DEF Grows
      <4> QED
        BY <1>3, <3>2, <4>1, KeepsLess
    <3> QED
      BY <3>1, <3>2, <3>3, <3>4
  <2> QED
    BY <2>1, <2>2
<1> HIDE DEF r
<1>5. StaysIn(r, frames) /\ Used(r, frames, Len(frames)) = r.top - x
  BY <1>1, <1>4, StaysInGo
<1>6. /\ L \in Seq(LuaValues) /\ Len(L) = m /\ Abstract!Count = m
      /\ \A j \in 1..m : L[j] = rg.array[x + j - 1]
  BY LocalsProperties
<1>7. p \in 1..m
  BY <1>1, <1>2
<1>8. Abstract!Becomes(locals) => Abstract!OwnStep
  <2>1. Abstract!Becomes(locals) => Abstract!DropAt(p)
    BY DEF Abstract!DropAt
  <2>2. p \in 1..Abstract!Count
    BY <1>6, <1>7
  <2> HIDE DEF locals, p
  <2> QED
    BY <2>1, <2>2 DEF Abstract!OwnStep
<1>9. /\ locals \in Seq(LuaValues) /\ Len(locals) = m - 1
      /\ \A j \in 1..m - 1 : locals[j] = IF j < p THEN L[j] ELSE L[j + 1]
  <2> HIDE DEF L, m, p
  <2> QED
    BY <1>6, <1>7, RemovedProperties
<1> HIDE DEF locals, L
<1>10. ASSUME ~r.overflow
       PROVE  FinalLocals(r, frames, locals)
  <2>0. Used(r, frames, Len(frames)) = r.top - x /\ r.top = t - 1
    BY <1>4, <1>5, <1>10
  <2> HIDE DEF x, m, t
  <2>1. r.top - x = m - 1
    BY <1>2, <2>0
  <2>2. ASSUME NEW j \in 1..m - 1
        PROVE  locals[j] = r.array[x + j - 1]
    <3>1. /\ x + j - 1 \in 0..t - 2 /\ (x + j - 1 < b <=> j < p) /\ j \in 1..m /\ j + 1 \in 1..m
          /\ x + (j + 1) - 1 = (x + j - 1) + 1
      BY <1>2, <1>3
    <3> QED
      BY <1>4, <1>6, <1>9, <1>10, <3>1
  <2> QED
    BY <1>9, <2>0, <2>1, <2>2 DEF FinalLocals, x
<1> QED
  BY <1>1, <1>5, <1>8, <1>10, StaysInNext

LEMMA VarArgNext ==
  ASSUME IInv, NEW k \in Nat, NEW n \in Lengths, VarArg(k, n)
  PROVE  Abstract!Next
<1> DEFINE b == Register(k)
           e == VarArgs
           w == IF n = MultRet THEN e ELSE n
           start == FirstExtra
           x == cf.localBase
           r == CopyRange(rg, b, start, x, w)
           fs == WithLive(k + w, n = MultRet)
           m == Live
           t == rg.top
           L == Abstract!Locals
           extra == ExtraOf(rg, cf)
           a == SubSeq(L, 1, k)
           d == Abstract!Adjusted(extra, n)
           locals == a \o d
<1>1. cf.f.vararg /\ ~cf.open /\ k <= m /\ Ends(r, fs, marks)
  BY DEF VarArg
<1>2. /\ Sound(rg) /\ t \in Nat /\ x \in Nat /\ m \in Nat /\ x + m <= t /\ cf \in Frame /\ FrameFits(cf)
      /\ cf.f.isG \in BOOLEAN
  BY Current
<1>3. ~cf.f.isG /\ cf.f \in Functions
  <2>1. cf.f \in Functions \cup {HostFunction} /\ HostFunction.vararg = FALSE
    BY <1>2, FrameTypes DEF HostFunction
  <2> QED
    BY <1>1, <2>1, FunctionTypes
<1>4. n \in Nat \cup {MultRet}
  BY BoundAssumption DEF Lengths
<1>5. start \in Nat /\ e \in Nat /\ start + e = x /\ extra = Row(rg, start, e)
  <2> DEFINE na == cf.nargs
             np == cf.f.np
             y == cf.base
  <2>1. /\ na \in Nat /\ np \in Nat /\ y \in Nat /\ x = y + 1 + LargerOf(na, np)
        /\ e = LargerOf(na - np, 0) /\ start = y + np + 1
        /\ extra = Row(rg, y + np + 1, LargerOf(na - np, 0))
    BY <1>1, <1>2, <1>3, LuaCurrent, FunctionTypes DEF VarArgs, FirstExtra, ExtraOf, FrameFits, LocalBaseOf
  <2> HIDE DEF na, np, y, x, e, start, extra
  <2>2. start \in Nat /\ e \in Nat /\ start + e = x
    BY <2>1 DEF LargerOf
  <2> QED
    BY <2>1, <2>2
<1>6. b \in Nat /\ b = x + k /\ x <= b /\ b <= t
  BY <1>1, RegisterProperties
<1> HIDE DEF b, e, start
<1>7. w \in Nat
  BY <1>4, <1>5
<1> HIDE DEF w
<1>8. Apart(b, start, x) /\ x \in Int /\ CopyEnd(rg, x) = x
  <2> HIDE DEF x, m, t
  <2>1. x # NoLimit /\ ~(x > t)
    BY <1>2 DEF NoLimit
  <2> QED
    BY <1>2, <1>6, <2>1 DEF Apart, CopyEnd, t
<1>9. /\ Grows(rg, r) /\ Keeps(rg, r, x)
      /\ ~r.overflow =>
           /\ r.top = b + w
           /\ \A j \in 0..b + w - 1 :
                r.array[j] = IF j < b THEN rg.array[j]
                             ELSE IF start + (j - b) < x THEN rg.array[start + (j - b)] ELSE LNil
  <2>1. x \in Int /\ b <= rg.top /\ CopyEnd(rg, x) = x /\ Apart(b, start, x) /\ x <= b
    BY <1>6, <1>8
  <2> HIDE DEF x
  <2>2. /\ Grows(rg, r)
        /\ ~r.overflow =>
             /\ r.top = b + w
             /\ \A j \in 0..r.top - 1 :
                  r.array[j] = IF j < b THEN rg.array[j]
                               ELSE IF start + (j - b) < CopyEnd(rg, x)
                               THEN rg.array[start + (j - b)] ELSE LNil
    BY <1>2, <1>5, <1>6, <1>7, <2>1, CopyRangeProperties
  <2>3. Keeps(rg, r, x)
    BY <1>2, <1>5, <1>6, <1>7, <2>1, CopyRangeKeeps
  <2> HIDE DEF r
  <2> QED
    BY <1>5, <1>6, <1>7, <2>1, <2>2, <2>3
<1> HIDE DEF r
<1>10. StaysIn(r, fs) /\ Used(r, fs, Len(frames)) = IF n = MultRet THEN r.top - x ELSE k + w
  <2> DEFINE l == k + w
             o == n = MultRet
  <2>1. l \in Nat /\ o \in BOOLEAN
    BY <1>7
  <2> HIDE DEF l, o
  <2>2. StaysIn(r, WithLive(l, o)) /\ Used(r, WithLive(l, o), Len(frames)) = IF o THEN r.top - x ELSE l
    BY <1>3, <1>9, <2>1, StaysInLua
  <2> QED
    BY <2>2 DEF l, o
<1> HIDE DEF fs
<1>11. /\ L \in Seq(LuaValues) /\ Len(L) = m /\ Abstract!Count = m
       /\ \A j \in 1..m : L[j] = rg.array[x + j - 1]
  BY LocalsProperties
<1>12. extra \in Seq(LuaValues) /\ Len(extra) = e /\ \A i \in 1..e : extra[i] = rg.array[start + i - 1]
  <2>1. start + e <= rg.top
    <3> HIDE DEF x, m
    <3> QED
      BY <1>2, <1>5
  <2> HIDE DEF extra
  <2> QED
    BY <1>2, <1>5, <2>1, RowProperties
<1>13. Abstract!Becomes(locals) => Abstract!OwnStep
  <2>1. Running(rg, frames).extra = extra
    BY AbstractLocals DEF View
  <2>2. Abstract!Becomes(locals) => Abstract!VarArg(k, n)
    BY <2>1, AbstractState DEF Abstract!VarArg
  <2>3. k \in 0..Abstract!Count
    BY <1>1, <1>2, <1>11
  <2> HIDE DEF locals
  <2> QED
    BY <2>2, <2>3 DEF Abstract!OwnStep
<1> HIDE DEF L, extra
<1>14. a \in Seq(LuaValues) /\ Len(a) = k /\ \A j \in 1..k : a[j] = L[j]
  <2>1. k \in 0..Len(L)
    BY <1>1, <1>2, <1>11
  <2> QED
    BY <1>11, <2>1, PrefixProperties
<1>15. d \in Seq(LuaValues) /\ Len(d) = w /\ \A i \in 1..w : d[i] = IF i <= e THEN extra[i] ELSE LNil
  <2>1. (IF n = MultRet THEN Len(extra) ELSE n) = w
    BY <1>12 DEF w
  <2> QED
    BY <1>4, <1>12, <2>1, AdjustedProperties
<1> HIDE DEF a, d
<1>16. /\ locals \in Seq(LuaValues) /\ Len(locals) = k + w
       /\ \A j \in 1..k + w : locals[j] = IF j <= k THEN a[j] ELSE d[j - k]
  <2>1. /\ locals \in Seq(LuaValues) /\ Len(locals) = Len(a) + Len(d)
        /\ \A j \in 1..Len(a) + Len(d) : locals[j] = IF j <= Len(a) THEN a[j] ELSE d[j - Len(a)]
    BY <1>14, <1>15, ConcatProperties
  <2> QED
    BY <1>14, <1>15, <2>1
<1> HIDE DEF locals
<1>17. ASSUME ~r.overflow
       PROVE  FinalLocals(r, fs, locals)
  <2>0. Used(r, fs, Len(frames)) = IF n = MultRet THEN r.top - x ELSE k + w
    BY <1>10
  <2> HIDE DEF x, m, t
  <2>1. r.top - x = k + w
    BY <1>2, <1>6, <1>7, <1>9, <1>17
  <2>2. ASSUME NEW j \in 1..k + w
        PROVE  locals[j] = r.array[x + j - 1]
    <3>1. /\ x + j - 1 \in 0..b + w - 1 /\ (x + j - 1 < b <=> j <= k)
      BY <1>2, <1>6, <1>7
    <3>2. CASE j <= k
      <4>1. j \in 1..k /\ j \in 1..m
        BY <1>1, <1>2, <3>2
      <4> QED
        BY <1>9, <1>11, <1>14, <1>16, <1>17, <3>1, <3>2, <4>1
    <3>3. CASE ~(j <= k)
      <4> DEFINE i == j - k
      <4>1. /\ i \in 1..w /\ start + (x + j - 1 - b) = start + i - 1
            /\ (start + i - 1 < x <=> i <= e) /\ (i <= e => i \in 1..e)
        BY <1>2, <1>5, <1>6, <1>7, <3>3
      <4> HIDE DEF i
      <4>2. locals[j] = d[i]
        BY <1>16, <3>3 DEF i
      <4> DEFINE y == x + j - 1
      <4>3. y \in 0..b + w - 1 /\ ~(y < b) /\ start + (y - b) = start + i - 1
        BY <1>2, <1>5, <1>6, <1>7, <3>1, <3>3, <4>1
      <4> HIDE DEF y
      <4>4. r.array[y] = IF start + i - 1 < x THEN rg.array[start + i - 1] ELSE LNil
        BY <1>9, <1>17, <4>3
      <4> QED
        BY <1>12, <1>15, <4>1, <4>2, <4>4 DEF y
    <3> QED
      BY <3>2, <3>3
  <2> QED
    BY <1>16, <2>0, <2>1, <2>2 DEF FinalLocals, x
<1> QED
  BY <1>1, <1>10, <1>13, <1>17, StaysInNext

-----------------------------------------------------------------------------
(* Calls, as LuaCalls sees them.                                           *)

\* The frame of a function that is called behind base.
IsEntered(a, f, base, nargs) ==
    /\ a \in Frame /\ a.f = f /\ a.base = base /\ a.localBase = LocalBaseOf(f, base + 1, nargs)
    /\ a.nargs = (IF f.vararg THEN nargs ELSE 0)
    /\ a.live = (IF f.isG THEN 0 ELSE f.np) /\ a.open = FALSE

LEMMA EnteredView ==
  ASSUME NEW f \in Functions, NEW base \in Nat, NEW s, Sound(s), NEW args \in Seq(LuaValues),
         Holds(s, f, base, args), NEW a, IsEntered(a, f, base, Len(args))
  PROVE  View(s, a, IF f.isG THEN s.top - a.localBase ELSE a.live) =
             Abstract!Entered(f, args, a.want, a.into, a.tail)
<1> DEFINE n == Len(args)
           u == IF f.isG THEN s.top - a.localBase ELSE a.live
           np == f.np
           l == a.localBase
           ad == Abstract!Adjusted(args, np)
           tl == SubSeq(args, np + 1, n)
<1>1. n \in Nat /\ \A i \in 1..n : args[i] \in LuaValues
  BY LenProperties, ElementOfSeq
<1>2. f.isG \in BOOLEAN /\ f.vararg \in BOOLEAN /\ np \in Nat /\ (f.isG => ~f.vararg)
  BY FunctionTypes
<1>3. /\ a \in Frame /\ a.f = f /\ a.base = base /\ l = LocalBaseOf(f, base + 1, n) /\ l \in Nat
      /\ a.nargs = (IF f.vararg THEN n ELSE 0) /\ a.live = (IF f.isG THEN 0 ELSE np)
  BY FrameTypes DEF IsEntered
<1>4. Row(s, l, u) = IF f.isG THEN args ELSE ad
  <2>1. CASE f.isG
    <3>1. l = base + 1 /\ s.top = base + 1 + n /\ \A i \in 1..n : s.array[base + i] = args[i]
      BY <1>2, <1>3, <2>1 DEF Holds, LocalBaseOf
    <3>2. u = s.top - l
      BY <2>1
    <3> HIDE DEF u, l, n
    <3>3. u = n /\ \A i \in 1..n : l + i - 1 = base + i
      BY <1>1, <3>1, <3>2
    <3>4. \A i \in 1..n : args[i] = s.array[l + i - 1]
      BY <3>1, <3>3
    <3>5. Lists(args, s, l, n)
      BY <3>4 DEF Lists, n
    <3>6. args = Row(s, l, n)
      BY <3>5, IsRow
    <3> QED
      BY <2>1, <3>3, <3>6
  <2>2. CASE ~f.isG
    <3>1. u = np
      BY <1>3, <2>2
    <3>2. \A i \in 1..np : s.array[l + i - 1] = IF i <= n THEN args[i] ELSE LNil
      BY <1>3, <2>2 DEF Holds
    <3>3. /\ ad \in Seq(LuaValues) /\ Len(ad) = np
          /\ \A i \in 1..np : ad[i] = IF i <= n THEN args[i] ELSE LNil
      <4>1. np # MultRet /\ np \in Nat \cup {MultRet}
        BY <1>2 DEF MultRet
      <4> HIDE DEF np
      <4> QED
        BY <4>1, AdjustedProperties
    <3> HIDE DEF u, l, n, np, ad
    <3>4. Lists(ad, s, l, np)
      BY <3>2, <3>3 DEF Lists
    <3>5. ad = Row(s, l, np)
      BY <3>4, IsRow
    <3> QED
      BY <2>2, <3>1, <3>5
  <2> QED
    BY <1>2, <2>1, <2>2
<1>5. ExtraOf(s, a) = IF f.vararg THEN tl ELSE <<>>
  <2>1. CASE ~f.vararg
    BY <1>3, <2>1 DEF ExtraOf
  <2>2. CASE f.vararg
    <3> DEFINE m == LargerOf(n - np, 0)
               from == base + np + 1
               q == np + 1
    <3>1. ExtraOf(s, a) = Row(s, from, m)
      BY <1>3, <2>2 DEF ExtraOf
    <3>2. \A i \in np + 1..n : s.array[base + i] = args[i]
      BY <2>2 DEF Holds
    <3> HIDE DEF n, np
    <3>3. /\ tl \in Seq(LuaValues) /\ Len(tl) = (IF q <= n THEN n - q + 1 ELSE 0)
          /\ \A i \in 1..n - q + 1 : tl[i] = args[q + i - 1]
      <4>1. q \in Int /\ n \in Int /\ \A i \in q..n : args[i] \in LuaValues
        BY <1>1, <1>2
      <4> QED
        BY <4>1, SubSeqProperties
    <3>4. /\ m \in Nat /\ (IF q <= n THEN n - q + 1 ELSE 0) = m /\ from \in Nat
          /\ \A i \in 1..m : /\ i \in 1..n - q + 1 /\ q + i - 1 = np + i /\ np + i \in np + 1..n
                             /\ from + i - 1 = base + (np + i)
      BY <1>1, <1>2 DEF LargerOf
    <3> HIDE DEF tl, m, from, q
    <3>5. ASSUME NEW i \in 1..m
          PROVE  tl[i] = s.array[from + i - 1]
      <4>1. /\ i \in 1..n - q + 1 /\ q + i - 1 = np + i /\ np + i \in np + 1..n
            /\ from + i - 1 = base + (np + i)
        BY <3>4
      <4>2. tl[i] = args[np + i]
        BY <3>3, <4>1
      <4> DEFINE k == np + i
      <4> HIDE DEF k
      <4>3. k \in np + 1..n /\ base + k = from + i - 1 /\ tl[i] = args[k]
        BY <4>1, <4>2 DEF k
      <4>4. s.array[base + k] = args[k]
        BY <3>2, <4>3
      <4> QED
        BY <4>3, <4>4
    <3>6. Len(tl) = m
      BY <3>3, <3>4
    <3>7. Lists(tl, s, from, m)
      BY <3>3, <3>5, <3>6 DEF Lists
    <3>8. tl = Row(s, from, m)
      BY <3>7, IsRow
    <3> QED
      BY <2>2, <3>1, <3>8
  <2> QED
    BY <1>2, <2>1, <2>2
<1> HIDE DEF u
<1> QED
  BY <1>3, <1>4, <1>5 DEF View, Abstract!Entered, u

LEMMA FirstLocals ==
  ASSUME IInv, NEW k \in Nat, k <= Live
  PROVE  SubSeq(Abstract!Locals, 1, k) = Row(rg, cf.localBase, k)
<1> DEFINE L == Abstract!Locals
           a == SubSeq(L, 1, k)
           x == cf.localBase
           n == Live
<1>1. L \in Seq(LuaValues) /\ Len(L) = n /\ n \in Nat /\ x \in Nat /\ \A i \in 1..n : L[i] = rg.array[x + i - 1]
  BY LocalsProperties
<1>2. k <= n
  OBVIOUS
<1> HIDE DEF L, n, x
<1>3. a \in Seq(LuaValues) /\ Len(a) = k /\ \A i \in 1..k : a[i] = L[i]
  <2>1. k \in 0..Len(L)
    BY <1>1, <1>2
  <2> QED
    BY <1>1, <2>1, PrefixProperties
<1> HIDE DEF a
<1>4. \A i \in 1..k : a[i] = rg.array[x + i - 1]
  BY <1>1, <1>2, <1>3
<1>5. Lists(a, rg, x, k)
  BY <1>3, <1>4 DEF Lists
<1>6. a = Row(rg, x, k)
  BY <1>5, IsRow
<1> QED
  BY <1>6 DEF a, L, x

LEMMA ArgumentsRow ==
  ASSUME IInv, NEW k \in Nat, k < Live, NEW meta \in BOOLEAN
  PROVE  Abstract!ArgumentsAt(k, meta) = Row(rg, FirstArgument(k, meta), Arguments(NArgs(k), meta))
<1> DEFINE L == Abstract!Locals
           q == IF meta THEN k + 1 ELSE k + 2
           x == cf.localBase
           n == Live
           a == SubSeq(L, q, n)
           from == FirstArgument(k, meta)
           m == Arguments(NArgs(k), meta)
<1>1. /\ L \in Seq(LuaValues) /\ Len(L) = n /\ n \in Nat /\ x \in Nat
      /\ \A i \in 1..n : L[i] = rg.array[x + i - 1] /\ L[i] \in LuaValues
  BY LocalsProperties, ElementOfSeq
<1>2. k < n
  OBVIOUS
<1>3. Abstract!ArgumentsAt(k, meta) = a
  BY <1>1 DEF Abstract!ArgumentsAt
<1>4. from = (IF meta THEN x + k ELSE x + k + 1) /\ m = IF meta THEN n - (k + 1) + 1 ELSE n - (k + 1)
  BY DEF FirstArgument, Arguments, NArgs, Register
<1> HIDE DEF L, n, x, from, m
<1>5. /\ q \in Int /\ n \in Int /\ from \in Nat /\ m \in Nat /\ \A i \in q..n : i \in 1..n
      /\ (IF q <= n THEN n - q + 1 ELSE 0) = m
      /\ \A i \in 1..m : i \in 1..n - q + 1 /\ q + i - 1 \in 1..n /\ x + (q + i - 1) - 1 = from + i - 1
  BY <1>1, <1>2, <1>4
<1>6. a \in Seq(LuaValues) /\ Len(a) = m /\ \A i \in 1..m : a[i] = L[q + i - 1]
  <2>1. \A i \in q..n : L[i] \in LuaValues
    BY <1>1, <1>5
  <2>2. q \in Int /\ n \in Int
    BY <1>5
  <2> HIDE DEF q
  <2>3. /\ a \in Seq(LuaValues) /\ Len(a) = (IF q <= n THEN n - q + 1 ELSE 0)
        /\ \A i \in 1..n - q + 1 : a[i] = L[q + i - 1]
    BY <2>1, <2>2, SubSeqProperties
  <2> HIDE DEF a
  <2> QED
    BY <1>5, <2>3
<1> HIDE DEF a, q
<1>7. \A i \in 1..m : a[i] = rg.array[from + i - 1]
  BY <1>1, <1>5, <1>6
<1>8. Lists(a, rg, from, m)
  BY <1>6, <1>7 DEF Lists
<1>9. a = Row(rg, from, m)
  BY <1>8, IsRow
<1> QED
  BY <1>3, <1>9 DEF from, m

\* A frame on top of the current one: its function is entered, the current one keeps
\* the first n of its values.
IsPushed(r, g, a, n) ==
    /\ Grows(rg, r) /\ Keeps(rg, r, cf.localBase + n)
    /\ g \in Seq(Frame) /\ Len(g) = Len(frames) /\ SameFrames(frames, g, Len(frames) - 1)
    /\ SameCall(cf, g[Len(frames)])
    /\ Used(r, Append(g, a), Len(frames)) = n

LEMMA PushedViews ==
  ASSUME IInv, NEW r, NEW g, NEW a, NEW n \in Nat, IsPushed(r, g, a, n),
         NEW f \in Functions, NEW base \in Nat, NEW args \in Seq(LuaValues),
         Holds(r, f, base, args), IsEntered(a, f, base, Len(args)),
         rg' = r, frames' = Append(g, a)
  PROVE  /\ Running(rg', frames') = Abstract!Entered(f, args, a.want, a.into, a.tail)
         /\ Callers(rg', frames') =
                Append(Callers(rg, frames), [Running(rg, frames) EXCEPT !.locals = Row(rg, cf.localBase, n)])
         /\ Abstract!Depth' = Abstract!Depth + 1
<1> DEFINE c == Len(frames)
           fs == Append(g, a)
           x == cf.localBase
           d == c + 1
<1>1. /\ Sound(rg) /\ Framed(frames, marks) /\ c \in Nat \ {0} /\ cf = frames[c] /\ cf \in Frame
      /\ FrameFits(cf) /\ cf.base \in Int /\ x \in Nat /\ cf.base + 1 <= x
      /\ Covered(frames, rg.top)
  BY Current DEF IInv
<1>2. /\ Sound(r) /\ Keeps(rg, r, x + n) /\ g \in Seq(Frame) /\ Len(g) = c /\ SameFrames(frames, g, c - 1)
      /\ SameCall(cf, g[c]) /\ Used(r, fs, c) = n
  BY DEF IsPushed, Grows
<1>3. a \in Frame /\ a.f = f /\ a.open = FALSE
  BY DEF IsEntered
<1>4. Len(fs) = d /\ fs[d] = a /\ \A k \in 1..c : fs[k] = g[k]
  <2>1. /\ Len(fs) = Len(g) + 1 /\ fs[Len(g) + 1] = a /\ \A k \in 1..Len(g) : fs[k] = g[k]
    BY <1>2, <1>3, AppendProperties
  <2> QED
    BY <1>2, <2>1
<1> HIDE DEF fs
<1>5. Keeps(rg, r, x) /\ Keeps(rg, r, cf.base)
  <2> DEFINE y == cf.base
             z == x + n
  <2>1. x \in Int /\ y \in Int /\ z \in Int /\ x <= z /\ y <= z /\ Keeps(rg, r, z)
    BY <1>1, <1>2
  <2> HIDE DEF x, y, z
  <2>2. Keeps(rg, r, x) /\ Keeps(rg, r, y)
    BY <1>2, <2>1, KeepsLess
  <2> QED
    BY <2>2 DEF y
<1>6. Running(r, fs) = Abstract!Entered(f, args, a.want, a.into, a.tail)
  <2>1. Used(r, fs, d) = IF f.isG THEN r.top - a.localBase ELSE a.live
    BY <1>3, <1>4 DEF Used
  <2>2. Running(r, fs) = View(r, a, Used(r, fs, d))
    BY <1>4 DEF Running, ViewOf
  <2>3. View(r, a, IF f.isG THEN r.top - a.localBase ELSE a.live) =
          Abstract!Entered(f, args, a.want, a.into, a.tail)
    BY <1>2, EnteredView
  <2> QED
    BY <2>1, <2>2, <2>3
<1>7. SameViews(rg, frames, r, fs, c - 1)
  <2>1. c \in 1..Len(frames) /\ c <= Len(fs) /\ Len(fs) \in Nat /\ c \in 1..c
    BY <1>1, <1>4
  <2>2. fs[c].base = frames[c].base /\ Keeps(rg, r, frames[c].base)
    BY <1>1, <1>2, <1>4, <1>5, <2>1 DEF SameCall
  <2>3. SameFrames(frames, fs, c - 1)
    BY <1>1, <1>2, <1>4 DEF SameFrames
  <2> QED
    BY <1>1, <1>2, <2>1, <2>2, <2>3, CallersKept
<1>8. Callers(r, fs) = Append(Callers(rg, frames), ViewOf(r, fs, c))
  BY <1>1, <1>4, <1>7, CallersPushed
<1>9. ViewOf(r, fs, c) = [Running(rg, frames) EXCEPT !.locals = Row(rg, x, n)]
  <2> DEFINE b == g[c]
             m == Live
             o == cf
  <2>1. ViewOf(r, fs, c) = View(r, b, n)
    BY <1>1, <1>2, <1>4 DEF ViewOf
  <2>2. o.base + 1 \in Nat
    <3>1. c \in 1..Len(frames)
      BY <1>1
    <3> QED
      BY <1>1, <3>1, BaseIsNat
  <2>3. /\ o \in Frame /\ FrameFits(o) /\ SameCall(o, b) /\ Keeps(rg, r, o.localBase)
    BY <1>1, <1>2, <1>5
  <2>4. Running(rg, frames) = View(rg, o, m)
    BY AbstractLocals
  <2>5. Row(r, x, n) = Row(rg, x, n)
    <3> DEFINE z == x + n
    <3>1. x \in Nat /\ z \in Int /\ x + n <= z /\ Keeps(rg, r, z)
      BY <1>1, <1>2
    <3> HIDE DEF x, z
    <3> QED
      BY <3>1, RowKept
  <2>6. View(r, b, n) = WithLocals(View(rg, o, m), Row(r, o.localBase, n))
    <3>1. /\ o \in Frame /\ FrameFits(o) /\ o.base + 1 \in Nat /\ SameCall(o, b)
          /\ Keeps(rg, r, o.localBase)
      BY <2>2, <2>3
    <3> HIDE DEF b, m, o
    <3> QED
      BY <3>1, ViewLocals
  <2> QED
    BY <2>1, <2>4, <2>5, <2>6 DEF WithLocals
<1>10. Abstract!Depth' = Abstract!Depth + 1
  <2>1. frames' = fs /\ Len(frames') \in Nat \ {0} /\ Len(frames') - 1 = (c - 1) + 1
    BY <1>1, <1>4 DEF fs
  <2>2. Abstract!Depth' = Len(frames') - 1
    BY <2>1, AbstractDepthNext
  <2>3. Abstract!Depth = c - 1
    BY AbstractLocals
  <2> QED
    BY <2>1, <2>2, <2>3
<1> QED
  BY <1>6, <1>8, <1>9, <1>10 DEF fs

LEMMA UsedPushed ==
  ASSUME NEW g \in Seq(Frame), Len(g) \in Nat \ {0}, NEW a \in Frame, NEW r
  PROVE  Used(r, Append(g, a), Len(g)) =
           IF ~g[Len(g)].f.isG /\ ~g[Len(g)].open THEN g[Len(g)].live ELSE a.base - g[Len(g)].localBase
<1> DEFINE fs == Append(g, a)
           c == Len(g)
<1>1. Len(fs) = c + 1 /\ fs[c + 1] = a /\ fs[c] = g[c]
  <2>1. /\ Len(fs) = Len(g) + 1 /\ fs[Len(g) + 1] = a /\ \A k \in 1..Len(g) : fs[k] = g[k]
    BY AppendProperties
  <2>2. c \in 1..c
    OBVIOUS
  <2> QED
    BY <2>1, <2>2
<1> HIDE DEF fs
<1>2. c # Len(fs)
  BY <1>1
<1> QED
  BY <1>1, <1>2 DEF Used, fs

LEMMA WithLivePushed ==
  ASSUME IInv, NEW k \in Nat, NEW r, Grows(rg, r), Keeps(rg, r, cf.localBase + k),
         NEW a \in Frame, cf.f.isG => a.base = cf.localBase + k
  PROVE  IsPushed(r, WithLive(k, FALSE), a, k)
<1> DEFINE g == WithLive(k, FALSE)
           c == Len(frames)
<1>1. LET b == g[Len(g)]
      IN  /\ Framed(g, marks) /\ Len(g) = c
          /\ b.f = cf.f /\ b.localBase = cf.localBase
          /\ b.live = (IF cf.f.isG THEN 0 ELSE k) /\ b.open = FALSE
  <2>1. FALSE \in BOOLEAN
    OBVIOUS
  <2>2. LET b == g[Len(g)]
        IN  /\ Framed(g, marks) /\ Len(g) = c
            /\ b.f = cf.f /\ b.localBase = cf.localBase
            /\ b \in Frame
            /\ b.live = (IF cf.f.isG THEN 0 ELSE k) /\ (b.open <=> ~cf.f.isG /\ FALSE)
    BY <2>1, WithLiveProperties
  <2> HIDE DEF g
  <2>3. g[Len(g)].open \in BOOLEAN
    BY <2>2, FrameTypes
  <2> QED
    BY <2>2, <2>3
<1>2. SameFrames(frames, g, c - 1) /\ SameCall(cf, g[c])
  BY WithLiveSame
<1>3. g \in Seq(Frame) /\ c \in Nat \ {0} /\ cf.localBase \in Nat /\ cf.f.isG \in BOOLEAN
  BY <1>1, Current DEF Framed
<1> HIDE DEF g
<1>4. Used(r, Append(g, a), c) = k
  <2>1. Used(r, Append(g, a), c) =
          IF ~g[c].f.isG /\ ~g[c].open THEN g[c].live ELSE a.base - g[c].localBase
    BY <1>1, <1>3, UsedPushed
  <2>2. CASE cf.f.isG
    <3> DEFINE x == cf.localBase
    <3>1. a.base = x + k /\ g[c].localBase = x /\ x \in Nat
      BY <1>1, <1>3, <2>2
    <3> HIDE DEF x
    <3>2. a.base - x = k
      BY <3>1
    <3> QED
      BY <1>1, <2>1, <2>2, <3>1, <3>2
  <2>3. CASE ~cf.f.isG
    BY <1>1, <2>1, <2>3
  <2> QED
    BY <1>3, <2>2, <2>3
<1> QED
  BY <1>1, <1>2, <1>3, <1>4 DEF IsPushed, g

LEMMA CallHandsOver ==
  ASSUME IInv, NEW k \in Nat, k < Live, NEW f \in Functions, NEW meta \in BOOLEAN,
         NEW want \in Nat \cup {MultRet}, ~Called(k, f, meta).overflow,
         rg' = Called(k, f, meta), frames' = Pushed(k, f, meta, want)
  PROVE  Abstract!HandOver(k, f, meta, want) /\ Abstract!Depth' = Abstract!Depth + 1
<1> DEFINE b == Register(k)
           n == Arguments(NArgs(k), meta)
           r == Called(k, f, meta)
           g == WithLive(k, FALSE)
           a == callFrame(f, b, b, n, want, 0, FALSE)
           x == cf.localBase
           args == Row(rg, FirstArgument(k, meta), n)
<1>1. b \in Nat /\ b = x + k /\ n \in Nat /\ Grows(rg, r) /\ x \in Nat
  BY CalledProperties, Current
<1>2. args \in Seq(LuaValues) /\ Len(args) = n /\ Holds(r, f, b, args) /\ Keeps(rg, r, b + 1)
  BY CalledHolds
<1>3. frames' = Append(g, a)
  BY DEF Pushed
<1> HIDE DEF n, r, args
<1>4. /\ IsEntered(a, f, b, n) /\ a \in Frame /\ a.base = b
      /\ a.want = want /\ a.into = 0 /\ a.tail = FALSE
  <2>1. 0 \in Nat /\ FALSE \in BOOLEAN
    OBVIOUS
  <2>2. IsCallFrame(a, f, b, b, n, want, 0, FALSE)
    <3> HIDE DEF b
    <3> QED
      BY <1>1, <2>1, CallFrameProperties
  <2> HIDE DEF a
  <2> QED
    BY <2>2 DEF IsCallFrame, IsEntered
<1> HIDE DEF a, b
<1>5. Keeps(rg, r, x + k)
  <2>1. Sound(r) /\ b + 1 \in Int /\ x + k \in Int /\ x + k <= b + 1
    BY <1>1 DEF Grows
  <2> HIDE DEF x
  <2> QED
    BY <1>2, <2>1, KeepsLess
<1>6. IsPushed(r, g, a, k)
  <2>1. a.base = x + k
    BY <1>1, <1>4
  <2> QED
    BY <1>1, <1>4, <1>5, <2>1, WithLivePushed
<1> HIDE DEF g
<1>7. /\ Running(rg', frames') = Abstract!Entered(f, args, a.want, a.into, a.tail)
      /\ Callers(rg', frames') =
             Append(Callers(rg, frames), [Running(rg, frames) EXCEPT !.locals = Row(rg, x, k)])
      /\ Abstract!Depth' = Abstract!Depth + 1
  <2>1. rg' = r
    BY DEF r
  <2>2. IsEntered(a, f, b, Len(args))
    BY <1>2, <1>4
  <2> HIDE DEF x
  <2> QED
    BY <1>1, <1>2, <1>3, <1>6, <2>1, <2>2, PushedViews DEF x
<1>8. Abstract!ArgumentsAt(k, meta) = args
  BY ArgumentsRow DEF args, n
<1>9. SubSeq(Abstract!Locals, 1, k) = Row(rg, x, k)
  <2>1. k <= Live
    BY LocalsProperties
  <2> QED
    BY <2>1, FirstLocals
<1>10. Abstract!HandOver(k, f, meta, want)
  BY <1>4, <1>7, <1>8, <1>9, AbstractState, AbstractStateNext DEF Abstract!HandOver, Abstract!Suspended
<1> QED
  BY <1>7, <1>10

LEMMA CallStepNext ==
  ASSUME Abstract!CallStep, Abstract!Depth' = Abstract!Depth + 1
  PROVE  Abstract!Next
BY DEF Abstract!Next

\* A call that does not fit fails.
LEMMA CallFails ==
  ASSUME IInv, NEW k \in Nat, k < Live, NEW f \in Functions, NEW meta \in BOOLEAN,
         Called(k, f, meta).overflow, NEW fs, NEW ms, Ends(Called(k, f, meta), fs, ms)
  PROVE  Abstract!Fail
<1> DEFINE r == Called(k, f, meta)
           b == Register(k)
           y == cf.base
           x == cf.localBase
<1>1. b \in Nat /\ b = x + k /\ Grows(rg, r) /\ x \in Nat /\ y \in Int /\ y + 1 <= x
  BY CalledProperties, Current
<1>2. Keeps(rg, r, b + 1)
  BY CalledHolds
<1>3. r.overflow /\ Ends(r, fs, ms)
  OBVIOUS
<1> HIDE DEF r, b, x, y
<1>4. b + 1 \in Int /\ y <= b + 1
  BY <1>1
<1> QED
  BY <1>1, <1>2, <1>3, <1>4, EndsFailsAbove DEF y

LEMMA CallNext ==
  ASSUME IInv, NEW k \in Nat, NEW f \in Functions, NEW meta \in BOOLEAN, NEW want \in Wants,
         Call(k, f, meta, want)
  PROVE  Abstract!Next
<1> DEFINE r == Called(k, f, meta)
           fs == Pushed(k, f, meta, want)
<1>1. k < Live /\ Ends(r, fs, marks)
  BY DEF Call, CanCall, Callable
<1>2. CASE r.overflow
  BY <1>1, <1>2, CallFails DEF Abstract!Next
<1>3. CASE ~r.overflow
  <2>1. rg' = r /\ frames' = fs /\ marks' = marks
    BY <1>1, <1>3 DEF Ends
  <2>2. want \in Nat \cup {MultRet}
    BY WantAssumption
  <2>3. Abstract!HandOver(k, f, meta, want) /\ Abstract!Depth' = Abstract!Depth + 1
    BY <1>1, <1>3, <2>1, <2>2, CallHandsOver
  <2>4. Abstract!Call(k, f, meta, want)
    BY <2>1, <2>3, AbstractState, AbstractStateNext DEF Abstract!Call
  <2>5. k \in 0..Abstract!Count - 1
    BY <1>1, LocalsProperties
  <2>6. Abstract!CallStep
    BY <2>4, <2>5 DEF Abstract!CallStep
  <2> QED
    BY <2>3, <2>6, CallStepNext
<1> QED
  BY <1>2, <1>3

LEMMA PCallNext ==
  ASSUME IInv, NEW k \in Nat, NEW f \in Functions, NEW meta \in BOOLEAN, NEW want \in Wants,
         PCall(k, f, meta, want)
  PROVE  Abstract!Next
<1> DEFINE r == Called(k, f, meta)
           b == Register(k)
           x == cf.localBase
           m == [sp |-> Len(frames), base |-> b]
           fs == Pushed(k, f, meta, want)
           L == Abstract!Locals
           n == Live
<1>1. k < n /\ cf.f.isG
  BY DEF PCall, CanCall, Callable
<1>2. Grows(rg, r) /\ b \in Nat /\ b < rg.top /\ b = x + k
  BY <1>1, CalledProperties
<1>3. /\ Sound(rg) /\ ~rg.overflow /\ rg.top \in Nat /\ Len(frames) \in Nat \ {0} /\ x \in Nat
      /\ marks \in Seq(Mark)
  BY Current DEF IInv, Framed
<1>4. Keeps(rg, r, b + 1)
  BY <1>1, CalledHolds
<1>5. n \in Nat /\ Abstract!Count = n /\ L \in Seq(LuaValues) /\ Len(L) = n
      /\ \A i \in 1..n : L[i] = rg.array[x + i - 1]
  BY LocalsProperties
<1>6. CASE r.overflow
  <2> DEFINE q == Raised(r)
             s == SetTop(q, b)
             locals == Abstract!Adjusted(L, k)
  <2>1. rg' = s /\ frames' = frames /\ marks' = marks
    BY <1>1, <1>6 DEF PCall, WithLive
  <2>2. Sound(r) /\ rg.size <= r.size /\ r.size \in Nat /\ rg.size \in Nat /\ b <= r.top
    BY <1>2, <1>3, <1>4, SoundTypes DEF Grows, Keeps
  <2> HIDE DEF b, r, x, L, n
  <2>3. Sound(q) /\ ~q.overflow /\ r.size <= q.size /\ Keeps(r, q, b)
    <3>1. b \in Int
      BY <1>2
    <3> QED
      BY <2>2, <3>1, RaisedProperties, RaisedKeeps
  <2> HIDE DEF q
  <2>4. b <= q.top /\ b <= q.size /\ q.size \in Nat
    BY <1>2, <2>3, SoundTypes DEF Keeps
  <2>5. /\ Grows(q, s) /\ s.overflow = q.overflow /\ (~s.overflow => s.top = b)
        /\ Keeps(q, s, b)
    <3>1. b \in Int /\ b <= b
      BY <1>2
    <3> QED
      BY <1>2, <2>3, <2>4, <3>1, SetTopProperties, SetTopKeeps
  <2> HIDE DEF s
  <2>6. Sound(s) /\ ~s.overflow /\ s.top = b /\ Grows(rg, s) /\ Keeps(rg, s, b)
    <3>1. Sound(s) /\ ~s.overflow /\ s.top = b /\ q.size <= s.size /\ s.size \in Nat
      BY <2>3, <2>5, SoundTypes DEF Grows
    <3>2. rg.size <= s.size
      BY <2>2, <2>3, <2>4, <3>1
    <3>3. Keeps(rg, r, b)
      <4>1. b \in Int /\ b + 1 \in Int /\ b <= b + 1
        BY <1>2
      <4> QED
        BY <1>4, <2>2, <4>1, KeepsLess
    <3>4. Keeps(rg, s, b)
      BY <2>3, <2>5, <3>3, KeepsTwice
    <3> QED
      BY <1>3, <3>1, <3>2, <3>4 DEF Grows
  <2>7. Keeps(rg, s, x)
    <3>1. x \in Int /\ b \in Int /\ x <= b
      BY <1>2, <1>3
    <3> QED
      BY <2>6, <3>1, KeepsLess
  <2>8. StaysIn(s, frames) /\ Used(s, frames, Len(frames)) = s.top - x
    BY <1>1, <2>6, <2>7, StaysInGo DEF x
  <2>9. Ends(s, frames, marks)
    BY <2>1, <2>6 DEF Ends
  <2>10. Abstract!Becomes(locals) => Abstract!OwnStep
    <3>1. Abstract!Becomes(locals) => Abstract!SetTop(k)
      BY DEF Abstract!SetTop, L
    <3>2. k \in 0..Abstract!Count + 1
      BY <1>1, <1>5
    <3> HIDE DEF locals
    <3> QED
      BY <3>1, <3>2 DEF Abstract!OwnStep
  <2>11. /\ locals \in Seq(LuaValues) /\ Len(locals) = k
         /\ \A i \in 1..k : locals[i] = IF i <= n THEN L[i] ELSE LNil
    <3>1. k # MultRet /\ k \in Nat \cup {MultRet}
      BY DEF MultRet
    <3> QED
      BY <1>5, <3>1, AdjustedProperties
  <2> HIDE DEF locals
  <2>12. FinalLocals(s, frames, locals)
    <3>1. s.top - x = k
      BY <1>2, <1>3, <2>6
    <3>2. ASSUME NEW i \in 1..k
          PROVE  locals[i] = s.array[x + i - 1]
      <4>1. i \in 1..n /\ i <= n /\ x + i - 1 \in 0..b - 1
        BY <1>1, <1>2, <1>3, <1>5
      <4>2. s.array[x + i - 1] = rg.array[x + i - 1]
        BY <2>6, <4>1 DEF Keeps
      <4> QED
        BY <1>5, <2>11, <4>1, <4>2
    <3> QED
      BY <2>8, <2>11, <3>1, <3>2 DEF FinalLocals, x
  <2> QED
    BY <2>8, <2>9, <2>10, <2>12, StaysInNext
<1>7. CASE ~r.overflow
  <2>1. rg' = r /\ frames' = fs /\ marks' = Append(marks, m)
    BY <1>7 DEF PCall, Ends
  <2>2. want \in Nat \cup {MultRet}
    BY WantAssumption
  <2>3. Abstract!HandOver(k, f, meta, want) /\ Abstract!Depth' = Abstract!Depth + 1
    BY <1>1, <1>7, <2>1, <2>2, CallHandsOver
  <2>4. Sps(marks') = Append(Sps(marks), Len(frames))
    <3>1. m \in Mark /\ m.sp = Len(frames)
      BY <1>2, <1>3 DEF Mark
    <3> HIDE DEF m
    <3> QED
      BY <1>3, <2>1, <3>1, SpsProperties
  <2>5. Len(Callers(rg, frames)) + 1 = Len(frames)
    <3>1. Len(Callers(rg, frames)) = Len(frames) - 1
      BY <1>3, CallersProperties
    <3> QED
      BY <1>3, <3>1
  <2>6. Abstract!ProtectedCall(k, f, meta, want)
    BY <2>3, <2>4, <2>5, AbstractState, AbstractStateNext DEF Abstract!ProtectedCall
  <2>7. k \in 0..Abstract!Count - 1
    BY <1>1, <1>5
  <2>8. Abstract!CallStep
    BY <2>6, <2>7 DEF Abstract!CallStep
  <2> QED
    BY <2>3, <2>8, CallStepNext
<1> QED
  BY <1>6, <1>7

\* The operands of a metamethod are pushed behind it.
LEMMA OperandsPushed ==
  ASSUME IInv, NEW x \in Values
  PROVE  LET b == rg.top
             r == Push(Push(Push(rg, LNil), x), LNil)
         IN  /\ Grows(rg, r) /\ Keeps(rg, r, b)
             /\ ~r.overflow => r.top = b + 3 /\ r.array[b + 1] = x /\ r.array[b + 2] = LNil
<1> DEFINE b == rg.top
           p == Push(rg, LNil)
           q == Push(p, x)
           r == Push(q, LNil)
<1>1. Sound(rg) /\ b \in Nat /\ x \in LuaValues /\ LNil \in LuaValues
  BY Current, LuaValuesStored DEF LuaValues
<1>2. Grows(rg, p) /\ (~p.overflow => p.top = b + 1) /\ Keeps(rg, p, b)
  <2>1. b \in Int /\ b <= rg.top
    BY <1>1
  <2> QED
    BY <1>1, <2>1, PushProperties, PushKeeps
<1> HIDE DEF b, p
<1>3. b <= p.top /\ Sound(p) /\ b \in Int
  BY <1>1, <1>2 DEF Keeps, Grows
<1>4. /\ Grows(p, q) /\ Keeps(p, q, b)
      /\ ~q.overflow => q.top = p.top + 1 /\ \A j \in 0..q.top - 1 : q.array[j] = IF j = p.top THEN x ELSE p.array[j]
  BY <1>1, <1>3, PushProperties, PushKeeps
<1> HIDE DEF q
<1>5. b <= q.top /\ Sound(q)
  BY <1>1, <1>4 DEF Keeps, Grows
<1>6. /\ Grows(q, r) /\ Keeps(q, r, b)
      /\ ~r.overflow => r.top = q.top + 1 /\ \A j \in 0..r.top - 1 : r.array[j] = IF j = q.top THEN LNil ELSE q.array[j]
  BY <1>1, <1>3, <1>5, PushProperties, PushKeeps
<1> HIDE DEF r
<1>7. Grows(rg, r)
  BY <1>1, <1>2, <1>4, <1>6, GrowsTwice DEF Grows
<1>8. Keeps(rg, r, b)
  BY <1>2, <1>4, <1>6, KeepsTwice
<1>9. ASSUME ~r.overflow
      PROVE  r.top = b + 3 /\ r.array[b + 1] = x /\ r.array[b + 2] = LNil
  <2>1. ~q.overflow /\ ~p.overflow
    BY <1>4, <1>6, <1>9 DEF Grows
  <2>2. p.top = b + 1 /\ q.top = b + 2 /\ r.top = b + 3
    BY <1>1, <1>2, <1>4, <1>6, <1>9, <2>1
  <2>3. b + 1 \in 0..q.top - 1 /\ b + 1 \in 0..r.top - 1 /\ b + 2 \in 0..r.top - 1 /\ b + 1 # b + 2
    BY <1>1, <2>2
  <2> QED
    BY <1>4, <1>6, <1>9, <2>1, <2>2, <2>3
<1> QED
  BY <1>7, <1>8, <1>9 DEF b, p, q, r

LEMMA MetamethodNext ==
  ASSUME IInv, NEW f \in Functions, NEW x \in Values, NEW into \in Nat, Metamethod(f, x, into)
  PROVE  Abstract!Next
<1> DEFINE b == rg.top
           p == Push(Push(Push(rg, LNil), x), LNil)
           r == IF p.overflow THEN p ELSE initCallFrame(p, f, b + 1, 2)
           a == callFrame(f, b, b, 2, 1, into + 1, FALSE)
           args == <<x, LNil>>
           g == frames
           c == Len(frames)
           y == cf.localBase
           n == Live
           z == cf.base
<1>1. ~cf.f.isG /\ ~cf.open /\ into <= n /\ Ends(r, Append(g, a), marks)
  BY DEF Metamethod
<1>2. /\ Sound(rg) /\ b \in Nat /\ g \in Seq(Frame) /\ c \in Nat \ {0} /\ cf = g[c] /\ cf \in Frame
      /\ n \in Nat /\ n = cf.live /\ y \in Nat /\ y + n <= b /\ z \in Int /\ z + 1 <= y
  BY <1>1, Current DEF Framed
<1>3. /\ Grows(rg, p) /\ Keeps(rg, p, b)
      /\ ~p.overflow => p.top = b + 3 /\ p.array[b + 1] = x /\ p.array[b + 2] = LNil
  BY OperandsPushed
<1>4. args \in Seq(LuaValues) /\ Len(args) = 2 /\ args[1] = x /\ args[2] = LNil
  BY LuaValuesStored DEF LuaValues
<1> HIDE DEF b, p, args
<1>5. /\ Grows(rg, r) /\ Keeps(rg, r, b)
      /\ ~r.overflow => Holds(r, f, b, args)
  <2>1. CASE p.overflow
    BY <1>3, <2>1
  <2>2. CASE ~p.overflow
    <3> DEFINE e == b + 1
               m == 2
               t == initCallFrame(p, f, e, m)
    <3>1. e \in Nat /\ m \in Nat /\ p.top = e + m /\ e + m <= p.top /\ Sound(p) /\ b \in Int /\ b <= e /\ b <= p.top
      BY <1>2, <1>3, <2>2 DEF Grows
    <3>2. ~p.overflow => b + 1 + Len(args) <= p.top /\ \A i \in 1..Len(args) : p.array[b + i] = args[i]
      <4>1. b + 1 + 2 <= p.top
        BY <3>1
      <4>2. \A i \in 1..2 : i = 1 \/ i = 2
        OBVIOUS
      <4> QED
        BY <1>3, <1>4, <2>2, <4>1, <4>2
    <3>3. Sound(p)
      BY <3>1
    <3>4. ~initCallFrame(p, f, b + 1, Len(args)).overflow => Holds(initCallFrame(p, f, b + 1, Len(args)), f, b, args)
      BY <1>2, <1>4, <3>2, <3>3, EntryHolds
    <3>5. ~t.overflow => Holds(t, f, b, args)
      BY <1>4, <3>4
    <3> HIDE DEF e, m
    <3>6. Grows(p, t) /\ Keeps(p, t, b)
      <4>1. IsEntry(t, p, f, e, m)
        BY <3>1, InitCallFrameProperties
      <4>2. Keeps(p, t, b)
        BY <3>1, InitCallFrameKeeps
      <4> HIDE DEF t
      <4> QED
        BY <4>1, <4>2 DEF IsEntry
    <3>7. r = t
      BY <2>2 DEF e, m
    <3> HIDE DEF r, t
    <3> QED
      BY <1>2, <1>3, <3>5, <3>6, <3>7, GrowsTwice, KeepsTwice
  <2> QED
    BY <2>1, <2>2
<1> HIDE DEF r
<1>6. /\ IsEntered(a, f, b, 2) /\ a \in Frame /\ a.base = b
      /\ a.want = 1 /\ a.into = into + 1 /\ a.tail = FALSE
  <2> DEFINE w == into + 1
             two == 2
             one == 1
  <2>1. w \in Nat /\ FALSE \in BOOLEAN /\ b \in Nat /\ two \in Nat /\ one \in Nat \cup {MultRet}
    BY <1>2
  <2> HIDE DEF w, two, one
  <2>2. IsCallFrame(callFrame(f, b, b, two, one, w, FALSE), f, b, b, two, one, w, FALSE)
    BY <2>1, CallFrameProperties
  <2>3. IsCallFrame(a, f, b, b, 2, 1, into + 1, FALSE)
    BY <2>2 DEF w, two, one
  <2> HIDE DEF a
  <2> QED
    BY <2>3 DEF IsCallFrame, IsEntered
<1> HIDE DEF a
<1>7. CASE r.overflow
  <2>1. z <= b /\ b \in Int
    BY <1>2
  <2>2. Abstract!Fail
    BY <1>1, <1>5, <1>7, <2>1, EndsFailsAbove
  <2> QED
    BY <2>2 DEF Abstract!Next
<1>8. CASE ~r.overflow
  <2>1. rg' = r /\ frames' = Append(g, a) /\ marks' = marks
    BY <1>1, <1>8 DEF Ends
  <2>2. IsPushed(r, g, a, n)
    <3>1. Keeps(rg, r, y + n)
      <4>1. y + n \in Int /\ b \in Int /\ y + n <= b /\ Sound(r)
        BY <1>2, <1>5 DEF Grows
      <4> HIDE DEF y, n
      <4> QED
        BY <1>5, <4>1, KeepsLess
    <3>2. Used(r, Append(g, a), c) = n
      <4>1. Used(r, Append(g, a), Len(g)) =
              IF ~g[Len(g)].f.isG /\ ~g[Len(g)].open THEN g[Len(g)].live ELSE a.base - g[Len(g)].localBase
        BY <1>2, <1>6, UsedPushed
      <4> QED
        BY <1>1, <1>2, <4>1
    <3>3. SameFrames(frames, g, c - 1) /\ SameCall(cf, g[c])
      BY <1>2, SameCallItself DEF SameFrames
    <3> QED
      BY <1>2, <1>5, <3>1, <3>2, <3>3 DEF IsPushed
  <2>3. /\ Running(rg', frames') = Abstract!Entered(f, args, a.want, a.into, a.tail)
        /\ Callers(rg', frames') =
               Append(Callers(rg, frames), [Running(rg, frames) EXCEPT !.locals = Row(rg, cf.localBase, n)])
        /\ Abstract!Depth' = Abstract!Depth + 1
    <3>1. /\ IsEntered(a, f, b, Len(args)) /\ Holds(r, f, b, args) /\ args \in Seq(LuaValues)
          /\ b \in Nat /\ n \in Nat /\ rg' = r /\ frames' = Append(g, a) /\ IsPushed(r, g, a, n)
      BY <1>2, <1>4, <1>5, <1>6, <1>8, <2>1, <2>2
    <3> DEFINE o == g
               m == n
    <3>2. IsPushed(r, o, a, m) /\ frames' = Append(o, a) /\ m \in Nat
      BY <3>1
    <3> HIDE DEF m, o, y
    <3>3. /\ Running(rg', frames') = Abstract!Entered(f, args, a.want, a.into, a.tail)
          /\ Callers(rg', frames') =
               Append(Callers(rg, frames), [Running(rg, frames) EXCEPT !.locals = Row(rg, cf.localBase, m)])
          /\ Abstract!Depth' = Abstract!Depth + 1
      BY <3>1, <3>2, PushedViews
    <3> QED
      BY <3>3 DEF m
  <2>4. Abstract!Locals = Row(rg, cf.localBase, n) /\ Abstract!Count = n
    BY AbstractLocals
  <2>5. Abstract!Metamethod(f, args, into + 1)
    BY <1>6, <2>1, <2>3, <2>4, AbstractState, AbstractStateNext DEF Abstract!Metamethod, Abstract!Suspended
  <2>6. into + 1 \in 1..Abstract!Count + 1
    BY <1>1, <1>2, <2>4
  <2>7. Abstract!CallStep
    <3>1. x \in Values \cup {LNil} /\ LNil \in Values \cup {LNil}
      OBVIOUS
    <3> QED
      BY <2>5, <2>6, <3>1 DEF Abstract!CallStep, args
  <2> QED
    BY <2>3, <2>7, CallStepNext
<1> QED
  BY <1>7, <1>8

\* What LuaCalls knows of the current function besides its values.
LEMMA RunningProperties ==
  ASSUME IInv
  PROVE  LET v == Running(rg, frames)
         IN  /\ v.f = cf.f /\ v.want = cf.want /\ v.into = cf.into /\ v.tail = cf.tail
             /\ v.locals = Abstract!Locals /\ v.extra = ExtraOf(rg, cf)
<1>1. Running(rg, frames) = View(rg, cf, Live) /\ Abstract!Locals = Row(rg, cf.localBase, Live)
  BY AbstractLocals
<1> QED
  BY <1>1 DEF View

LEMMA TailCallGoNext ==
  ASSUME IInv, NEW k \in Nat, NEW f \in Functions, NEW meta \in BOOLEAN, TailCallGo(k, f, meta)
  PROVE  Abstract!Next
<1> DEFINE b == Register(k)
           n == Arguments(NArgs(k), meta)
           r == Called(k, f, meta)
           zero == 0
           g == WithLive(zero, FALSE)
           a == callFrame(f, b, cf.returnBase, n, cf.want, cf.into, TRUE)
           x == cf.localBase
           args == Row(rg, FirstArgument(k, meta), n)
<1>1. ~cf.f.isG /\ f.isG /\ k < Live /\ Ends(r, Append(g, a), marks)
  BY DEF TailCallGo, CanCall, Callable
<1>2. b \in Nat /\ b = x + k /\ n \in Nat /\ Grows(rg, r) /\ x \in Nat
  BY <1>1, CalledProperties, Current
<1>3. args \in Seq(LuaValues) /\ Len(args) = n /\ (~r.overflow => Holds(r, f, b, args)) /\ Keeps(rg, r, b + 1)
  BY <1>1, CalledHolds
<1>4. CASE r.overflow
  BY <1>1, <1>4, CallFails DEF Abstract!Next
<1>5. CASE ~r.overflow
  <2>1. rg' = r /\ frames' = Append(g, a) /\ marks' = marks
    BY <1>1, <1>5 DEF Ends
  <2> HIDE DEF n, r, args
  <2>2. /\ IsEntered(a, f, b, n) /\ a \in Frame
        /\ a.want = cf.want /\ a.into = cf.into /\ a.tail = TRUE
    <3> DEFINE u == cf.returnBase
               y == cf.want
               z == cf.into
    <3>1. u \in Nat /\ y \in Nat \cup {MultRet} /\ z \in Nat /\ TRUE \in BOOLEAN /\ f.isG
      BY <1>1, Current, LuaCurrent
    <3> HIDE DEF u, y, z
    <3>2. IsCallFrame(callFrame(f, b, u, n, y, z, TRUE), f, b, u, n, y, z, TRUE)
      BY <1>2, <3>1, CallFrameProperties
    <3>3. IsCallFrame(a, f, b, cf.returnBase, n, cf.want, cf.into, TRUE)
      BY <3>2 DEF u, y, z
    <3> HIDE DEF a
    <3> QED
      BY <3>3 DEF IsCallFrame, IsEntered
  <2> HIDE DEF a, b, zero
  <2>3. IsPushed(r, g, a, zero)
    <3>1. Sound(r) /\ b + 1 \in Int /\ x + zero \in Int /\ x + zero <= b + 1 /\ zero \in Nat
      BY <1>2 DEF Grows, zero
    <3>2. Keeps(rg, r, x + zero)
      <4> HIDE DEF x
      <4> QED
        BY <1>3, <3>1, KeepsLess
    <3> QED
      BY <1>1, <1>2, <2>2, <3>1, <3>2, WithLivePushed
  <2> HIDE DEF g
  <2>4. /\ Running(rg', frames') = Abstract!Entered(f, args, a.want, a.into, a.tail)
        /\ Callers(rg', frames') =
               Append(Callers(rg, frames), [Running(rg, frames) EXCEPT !.locals = Row(rg, x, zero)])
        /\ Abstract!Depth' = Abstract!Depth + 1
    <3>1. rg' = r /\ zero \in Nat
      BY <2>1 DEF r, zero
    <3>2. IsEntered(a, f, b, Len(args)) /\ Holds(r, f, b, args)
      BY <1>3, <1>5, <2>2
    <3> HIDE DEF x
    <3> QED
      BY <1>2, <1>3, <2>1, <2>3, <3>1, <3>2, PushedViews DEF x
  <2>5. Abstract!ArgumentsAt(k, meta) = args
    BY <1>1, ArgumentsRow DEF args, n
  <2>6. Row(rg, x, zero) = <<>>
    BY DEF Row, zero
  <2>7. Abstract!TailCall(k, f, meta)
    <3>1. Running(rg, frames).f = cf.f /\ Running(rg, frames).want = cf.want /\ Running(rg, frames).into = cf.into
      BY RunningProperties
    <3> QED
      BY <1>1, <2>1, <2>2, <2>4, <2>5, <2>6, <3>1, AbstractState, AbstractStateNext
         DEF Abstract!TailCall, Abstract!Suspended
  <2>8. k \in 0..Abstract!Count - 1
    BY <1>1, LocalsProperties
  <2>9. Abstract!CallStep
    BY <2>7, <2>8 DEF Abstract!CallStep
  <2> QED
    BY <2>4, <2>9, CallStepNext
<1> QED
  BY <1>4, <1>5

\* The arguments of a Lua function move with its window.
LEMMA MovedHolds ==
  ASSUME NEW f \in Functions, ~f.isG, NEW b \in Nat, NEW x \in Nat, NEW args \in Seq(LuaValues),
         NEW q, q.top = LocalBaseOf(f, b + 1, Len(args)) + f.used, Holds(q, f, b, args),
         NEW r, IsMovedDown(q, b, r, x)
  PROVE  Holds(r, f, x, args)
<1> DEFINE n == Len(args)
           l == LocalBaseOf(f, b + 1, n)
           w == LocalBaseOf(f, x + 1, n)
           g == LargerOf(n, f.np)
           p == f.np
           u == f.used
           d == q.top - b - 2
<1>1. /\ n \in Nat /\ f.isG \in BOOLEAN /\ f.vararg \in BOOLEAN /\ p \in Nat /\ u \in Nat /\ p < u
  BY FunctionTypes, LenProperties
<1>2. g \in Nat /\ n <= g /\ p <= g
  BY <1>1 DEF LargerOf
<1>3. l = (IF f.vararg THEN b + 1 + g ELSE b + 1) /\ w = (IF f.vararg THEN x + 1 + g ELSE x + 1)
  BY DEF LocalBaseOf
<1>4. /\ \A i \in 1..p : q.array[l + i - 1] = IF i <= n THEN args[i] ELSE LNil
      /\ f.vararg => \A i \in p + 1..n : q.array[b + i] = args[i]
  BY DEF Holds
<1>5. q.top = l + u
  OBVIOUS
<1> HIDE DEF n, l, w, g, p, u
<1>6. \A i \in 0..d : r.array[x + i] = q.array[b + i]
  BY DEF IsMovedDown
<1>7. d = l + u - b - 2
  <2>1. l \in Nat /\ u \in Nat
    BY <1>1, <1>2, <1>3
  <2> QED
    BY <1>5, <2>1
<1> HIDE DEF d
<1>8. ASSUME NEW i \in 1..p
      PROVE  r.array[w + i - 1] = IF i <= n THEN args[i] ELSE LNil
  <2> DEFINE j == l + i - 1 - b
  <2>1. j \in 0..d /\ x + j = w + i - 1 /\ b + j = l + i - 1
    <3>1. CASE f.vararg
      BY <1>1, <1>2, <1>3, <1>7, <3>1
    <3>2. CASE ~f.vararg
      BY <1>1, <1>2, <1>3, <1>7, <3>2
    <3> QED
      BY <1>1, <3>1, <3>2
  <2> HIDE DEF j
  <2>2. r.array[x + j] = q.array[b + j]
    BY <1>6, <2>1
  <2> QED
    BY <1>4, <2>1, <2>2
<1>9. ASSUME f.vararg, NEW i \in p + 1..n
      PROVE  r.array[x + i] = args[i]
  <2>1. i \in 0..d
    BY <1>1, <1>2, <1>3, <1>7, <1>9
  <2> QED
    BY <1>4, <1>6, <1>9, <2>1
<1> QED
  BY <1>8, <1>9 DEF Holds, n, w, p

LEMMA TailCallLuaNext ==
  ASSUME IInv, NEW k \in Nat, NEW f \in Functions, NEW meta \in BOOLEAN, TailCallLua(k, f, meta)
  PROVE  Abstract!Next
<1> DEFINE q == Called(k, f, meta)
           b == Register(k)
           n == Arguments(NArgs(k), meta)
           a == TakenOver(k, f, meta)
           z == cf.base
           r == IF q.overflow THEN q ELSE MovedDown(q, b, z)
           c == Len(frames)
           fs == [frames EXCEPT ![c] = a]
           l == LocalBaseOf(f, b + 1, n)
           w == LocalBaseOf(f, z + 1, n)
           args == Row(rg, FirstArgument(k, meta), n)
<1>1. ~cf.f.isG /\ ~f.isG /\ k < Live /\ Ends(r, fs, marks)
  BY DEF TailCallLua, Callable, TakenOver
<1>2. /\ Grows(rg, q) /\ b \in Nat /\ l \in Nat /\ b + 1 <= l /\ n \in Nat
      /\ ~q.overflow => q.top = l + f.used
  BY <1>1, CalledProperties
<1>3. /\ z \in Nat /\ cf.localBase \in Nat /\ z + 1 <= cf.localBase /\ cf.localBase <= b
      /\ cf.tail = FALSE /\ Framed(frames, marks) /\ c \in Nat \ {0} /\ cf = frames[c] /\ Sound(rg)
      /\ Covered(frames, rg.top)
  BY <1>1, Current, LuaCurrent, RegisterProperties DEF IInv
<1>4. f.isG \in BOOLEAN /\ f.np \in Nat /\ f.used \in Nat /\ f.np < f.used
  BY <1>1, FunctionTypes
<1>5. args \in Seq(LuaValues) /\ Len(args) = n /\ (~q.overflow => Holds(q, f, b, args)) /\ Keeps(rg, q, b + 1)
  BY <1>1, CalledHolds
<1>6. IsTakenOver(a, fs, f, n, b, w)
  BY <1>1, TakenOverProperties
<1> HIDE DEF q, b, n, a, fs, args
<1>7. /\ a \in Frame /\ a.f = f /\ a.base = z /\ a.localBase = w
      /\ a.nargs = (IF f.vararg THEN n ELSE 0)
      /\ a.want = cf.want /\ a.into = cf.into
      /\ a.tail = FALSE /\ a.live = f.np /\ a.open = FALSE
      /\ Len(fs) = c /\ fs[c] = a /\ \A i \in 1..c - 1 : fs[i] = frames[i]
  BY <1>6 DEF IsTakenOver
<1> HIDE DEF c, w
<1>8. Grows(rg, r) /\ Keeps(rg, r, z) /\ (~r.overflow => ~q.overflow /\ Holds(r, f, z, args))
  <2>1. Keeps(rg, q, z)
    <3>1. Sound(q) /\ z \in Int /\ b + 1 \in Int /\ z <= b + 1
      BY <1>2, <1>3 DEF Grows
    <3> HIDE DEF z
    <3> QED
      BY <1>5, <3>1, KeepsLess
  <2>2. CASE q.overflow
    BY <1>2, <2>1, <2>2
  <2>3. CASE ~q.overflow
    <3> DEFINE s == MovedDown(q, b, z)
               u == f.used
    <3>1. /\ z \in Nat /\ z + 1 <= b /\ q.top = l + u /\ Sound(q) /\ r = s /\ u \in Nat \ {0}
      BY <1>2, <1>3, <1>4, <2>3 DEF Grows
    <3>2. q.top = LocalBaseOf(f, b + 1, Len(args)) + f.used
      BY <1>5, <3>1
    <3> HIDE DEF z, r, u, l
    <3>3. b + 1 <= q.top
      BY <1>2, <3>1
    <3>4. /\ Grows(q, s)
          /\ ~s.overflow => IsMovedDown(q, b, s, z)
      BY <1>2, <2>3, <3>1, <3>3, MovedDownProperties
    <3>5. Keeps(q, s, z)
      <4> DEFINE m == q.top - b - 1
      <4>1. m \in Nat /\ z <= q.top /\ Apart(z, b, NoLimit) /\ NoLimit \in Int /\ z \in Int /\ z <= z
        BY <1>2, <3>1, <3>3, SoundTypes DEF Apart, NoLimit
      <4>2. s = CopyRange(q, z, b, NoLimit, m)
        BY DEF MovedDown
      <4> HIDE DEF m, s
      <4> QED
        BY <1>2, <3>1, <4>1, <4>2, CopyRangeKeeps
    <3> HIDE DEF s
    <3>6. ~s.overflow => Holds(s, f, z, args)
      BY <1>1, <1>2, <1>5, <2>3, <3>1, <3>2, <3>4, MovedHolds
    <3> QED
      BY <1>2, <1>3, <2>1, <2>3, <3>1, <3>4, <3>5, <3>6, GrowsTwice, KeepsTwice
  <2> QED
    BY <2>2, <2>3
<1> HIDE DEF r
<1>9. CASE r.overflow
  <2>1. z \in Int /\ z <= z
    BY <1>3
  <2>2. Abstract!Fail
    BY <1>1, <1>8, <1>9, <2>1, EndsFailsAbove
  <2> QED
    BY <2>2 DEF Abstract!Next
<1>10. CASE ~r.overflow
  <2>1. rg' = r /\ frames' = fs /\ marks' = marks
    BY <1>1, <1>10 DEF Ends
  <2>2. Sound(r) /\ Holds(r, f, z, args)
    BY <1>8, <1>10 DEF Grows
  <2>3. IsEntered(a, f, z, Len(args))
    BY <1>1, <1>5, <1>7 DEF IsEntered, w
  <2>4. Running(r, fs) = Abstract!Entered(f, args, cf.want, cf.into, FALSE)
    <3>1. View(r, a, a.live) = Abstract!Entered(f, args, a.want, a.into, a.tail)
      <4>1. View(r, a, IF f.isG THEN r.top - a.localBase ELSE a.live) =
              Abstract!Entered(f, args, a.want, a.into, a.tail)
        <5> HIDE DEF z
        <5> QED
          BY <1>3, <1>5, <2>2, <2>3, EnteredView
      <4> QED
        BY <1>1, <4>1
    <3>2. Running(r, fs) = View(r, a, a.live)
      BY <1>1, <1>7 DEF Running, ViewOf, Used
    <3> QED
      BY <1>7, <3>1, <3>2
  <2>5. Callers(r, fs) = Callers(rg, frames)
    <3>1. c \in 1..Len(frames) /\ c <= Len(fs) /\ Len(fs) \in Nat /\ Len(fs) = Len(frames)
      BY <1>3, <1>7 DEF c
    <3>2. fs[c].base = frames[c].base /\ Keeps(rg, r, frames[c].base) /\ SameFrames(frames, fs, c - 1)
      BY <1>3, <1>7, <1>8 DEF SameFrames
    <3>3. SameViews(rg, frames, r, fs, c - 1)
      BY <1>3, <2>2, <3>1, <3>2, CallersKept
    <3> QED
      BY <3>1, <3>3, CallersSame DEF c
  <2>6. Abstract!ArgumentsAt(k, meta) = args
    BY <1>1, ArgumentsRow DEF args, n
  <2>7. Abstract!TailCall(k, f, meta)
    <3>1. /\ Running(rg, frames).f = cf.f /\ Running(rg, frames).want = cf.want
          /\ Running(rg, frames).into = cf.into /\ Running(rg, frames).tail = cf.tail
      BY RunningProperties
    <3> QED
      BY <1>1, <1>3, <2>1, <2>4, <2>5, <2>6, <3>1, AbstractState, AbstractStateNext
         DEF Abstract!TailCall
  <2>8. k \in 0..Abstract!Count - 1
    BY <1>1, LocalsProperties
  <2>9. Abstract!CallStep
    BY <2>7, <2>8 DEF Abstract!CallStep
  <2>10. Abstract!Depth' = Abstract!Depth
    <3>1. Len(frames') = Len(frames) /\ Len(frames) \in Nat \ {0}
      BY <1>3, <1>7, <2>1 DEF c
    <3> QED
      BY <3>1, AbstractDepthNext, AbstractLocals
  <2> QED
    BY <2>9, <2>10 DEF Abstract!Next
<1> QED
  BY <1>9, <1>10

-----------------------------------------------------------------------------
(* Returns, as LuaCalls sees them.                                         *)

\* The frame above the caller's: the current one, or the one that it replaced.
LEMMA CalleeProperties ==
  ASSUME IInv, Len(frames) # 1
  PROVE  LET p == frames[CallerIndex + 1]
         IN  /\ CallerIndex + 1 \in 1..Len(frames) /\ Above(caller, p) /\ p.tail = FALSE
             /\ p.returnBase = cf.returnBase /\ p.want = cf.want /\ p.into = cf.into
             /\ caller.f.isG => p.base = cf.returnBase /\ cf.into = 0
<1> DEFINE c == Len(frames)
           d == CallerIndex
           e == d + 1
           p == frames[e]
           q == frames[c - 1]
<1>1. /\ Framed(frames, marks) /\ c \in Nat \ {0} /\ cf = frames[c] /\ cf \in Frame
      /\ d \in 1..c - 1 /\ caller = frames[d]
  BY Current, CallerProperties DEF caller
<1>2. /\ d = (IF cf.tail THEN c - 2 ELSE c - 1) /\ cf.tail \in BOOLEAN
      /\ e = d + 1
  BY <1>1, FrameTypes DEF CallerIndex
<1> DEFINE Stacked == \A k, n \in 1..c : n = k + 1 => Above(frames[k], frames[n])
           Typed == \A k \in 1..c : frames[k] \in Frame /\ FrameFits(frames[k])
<1>0. Stacked /\ Typed
  BY <1>1, FramedTypes DEF Framed
<1> HIDE DEF c, d, e
<1>3. e \in 1..c /\ d \in 1..c /\ c - 1 \in 1..c /\ c \in 1..c /\ c = c - 1 + 1 /\ e = (IF cf.tail THEN c - 1 ELSE c)
  BY <1>1, <1>2
<1>4. Above(caller, p) /\ p \in Frame
  <2>1. Above(frames[d], frames[e])
    BY <1>0, <1>2, <1>3
  <2>2. p \in Frame
    BY <1>0, <1>3
  <2> HIDE DEF Stacked, Typed
  <2> QED
    BY <1>1, <2>1, <2>2
<1>5. p.tail = FALSE /\ p.returnBase = cf.returnBase /\ p.want = cf.want /\ p.into = cf.into
  <2>1. CASE ~cf.tail
    BY <1>1, <1>2, <1>3, <2>1
  <2>2. CASE cf.tail
    <3>1. Above(q, cf) /\ p = q
      <4>1. Above(frames[c - 1], frames[c]) /\ e = c - 1
        BY <1>0, <1>3, <2>2
      <4> QED
        BY <1>1, <4>1
    <3>2. ~q.f.isG /\ q.returnBase = cf.returnBase /\ q.want = cf.want /\ q.into = cf.into
      BY <2>2, <3>1 DEF Above
    <3>3. FrameFits(p)
      BY <1>0, <1>3
    <3>4. p.tail \in BOOLEAN
      BY <1>4, FrameTypes
    <3> HIDE DEF p, q
    <3>5. p.tail = FALSE
      BY <3>1, <3>2, <3>3, <3>4 DEF FrameFits
    <3> QED
      BY <3>1, <3>2, <3>5
  <2> QED
    BY <1>2, <2>1, <2>2
<1> HIDE DEF p
<1>6. caller.f.isG => p.base = cf.returnBase /\ cf.into = 0
  <2>1. p.into \in Nat
    BY <1>4, FrameTypes
  <2> QED
    BY <1>4, <1>5, <2>1 DEF Above
<1> QED
  BY <1>3, <1>4, <1>5, <1>6 DEF p, e, d, c

\* The callee of the innermost protected call is not above the place where the results go.
LEMMA MarkBelowResults ==
  ASSUME IInv, Len(frames) # 1, marks # <<>>
  PROVE  Last(marks).base <= cf.returnBase
<1> DEFINE m == Last(marks)
           d == CallerIndex
           x == m.base
           to == cf.returnBase
           n == Len(marks)
<1>1. /\ m.sp \in 1..Len(frames) /\ m.sp \in Nat \ {0} /\ x \in Nat /\ frames[m.sp].f.isG
      /\ x = frames[m.sp + 1].base /\ m.sp + 1 \in 1..Len(frames)
  BY LastMark
<1>2. m.sp \in 1..d
  <2>1. marks \in Seq(Mark) /\ n \in Nat
    BY Current DEF Framed
  <2>2. n \in 1..n /\ m = marks[n]
    BY <2>1, EmptySeq DEF Last
  <2> HIDE DEF m, n
  <2> QED
    BY <2>2, CallerProperties DEF n
<1>3. /\ d \in 1..Len(frames) - 1 /\ caller = frames[d] /\ caller \in Frame /\ to \in Nat
      /\ Framed(frames, marks) /\ Len(frames) \in Nat
      /\ IF cf.into # 0 THEN caller.localBase + caller.live <= to
         ELSE IF caller.f.isG THEN caller.localBase <= to ELSE to = caller.localBase + caller.live
  BY Current, CallerProperties DEF caller
<1> HIDE DEF m
<1>4. CASE m.sp = d
  <2>1. frames[d + 1].base = to
    BY <1>1, <1>3, <1>4, CalleeProperties
  <2> QED
    BY <1>1, <1>3, <1>4, <2>1 DEF m
<1>5. CASE m.sp # d
  <2> DEFINE j == m.sp + 1
             y == caller.base
             l == caller.localBase
             v == caller.live
  <2>1. j \in 1..d /\ d \in 1..Len(frames)
    BY <1>1, <1>2, <1>3, <1>5
  <2> HIDE DEF d
  <2>2. x <= y
    <3>1. frames[j].base <= frames[d].base
      BY <1>3, <2>1, BasesRise
    <3> QED
      BY <1>1, <1>3, <3>1
  <2>3. y + 1 <= l /\ y \in Int /\ l \in Nat /\ v \in Nat
    <3>1. FrameFits(caller) /\ caller \in Frame
      BY CallerProperties
    <3> QED
      BY <3>1, FrameTypes, WindowAboveBase
  <2> HIDE DEF j, x, y, l, v, to
  <2>4. l <= to
    <3>1. l + v <= to \/ l <= to
      <4>1. l + v <= l + v /\ (to = l + v => l + v <= to)
        BY <2>3
      <4> QED
        BY <1>3, <4>1 DEF l, v
    <3> QED
      BY <1>3, <2>3, <3>1 DEF to
  <2>5. x <= to
    BY <1>1, <1>3, <2>2, <2>3, <2>4 DEF x, to
  <2> QED
    BY <2>5 DEF x, to, m
<1> QED
  BY <1>4, <1>5

\* The registers after a call: the results behind those of the caller, or the result
\* of a metamethod in one of them.
Delivered(r, s, n) ==
    LET to == cf.returnBase
        at == caller.localBase + cf.into - 1
    IN  /\ Grows(r, s) /\ ~s.overflow
        /\ s.top = IF cf.into # 0 THEN LargerOf(to, at + 1) ELSE to + n
        /\ \A x \in 0..s.top - 1 :
             s.array[x] = IF cf.into # 0 /\ x = at THEN r.array[to] ELSE r.array[x]

LEMMA AfterCallDelivers ==
  ASSUME IInv, Len(frames) # 1, NEW n \in Nat, cf.want # MultRet => n = cf.want,
         NEW r, Sound(r), ~r.overflow, r.top = cf.returnBase + n
  PROVE  Delivered(r, AfterCall(r), n)
<1> DEFINE b == cf.returnBase
           s == AfterCall(r)
           l == caller.localBase
           j == cf.into
           m == b + cf.want
           t == SetTop(r, m)
<1>1. /\ b \in Nat /\ j \in Nat /\ cf.want \in Nat \cup {MultRet} /\ l \in Nat /\ caller.live \in Nat
      /\ caller.f.isG \in BOOLEAN /\ r.top \in Nat /\ r.size \in Nat /\ r.top <= r.size
  BY CallerProperties, FrameTypes, SoundTypes
<1>2. ASSUME cf.want # MultRet
      PROVE  Grows(r, t) /\ ~t.overflow /\ t.top = r.top /\ \A x \in 0..t.top - 1 : t.array[x] = r.array[x]
  <2>1. m \in Nat /\ m = r.top /\ m <= r.size
    BY <1>1, <1>2
  <2> HIDE DEF m
  <2>2. /\ Grows(r, t) /\ t.overflow = r.overflow
        /\ ~t.overflow => t.top = m /\ \A x \in 0..m - 1 : t.array[x] = IF x < r.top THEN r.array[x] ELSE LNil
    BY <2>1, SetTopProperties
  <2> HIDE DEF t
  <2>3. \A x \in 0..t.top - 1 : x < r.top /\ x \in 0..m - 1
    BY <1>1, <2>1, <2>2
  <2> QED
    BY <2>1, <2>2, <2>3
<1>3. CASE j # 0
  <2> DEFINE p == Pop(t)
             v == Get(t, t.top - 1)
             i == l + j - 1
             live == caller.live
  <2>1. cf.want = 1 /\ cf.want # MultRet /\ n = 1 /\ j <= live + 1 /\ l + live <= b /\ live \in Nat
    <3>1. cf.want = 1 /\ MultRet # 1
      BY <1>3, CallerProperties DEF MultRet
    <3>2. j <= live + 1 /\ l + live <= b
      BY <1>3, CallerProperties
    <3> QED
      BY <1>1, <3>1, <3>2
  <2>2. s = Set(p, i, v)
    BY <1>3 DEF AfterCall
  <2>3. /\ Grows(r, t) /\ ~t.overflow /\ t.top = b + 1 /\ \A x \in 0..b : t.array[x] = r.array[x]
        /\ r.top = b + 1
    <3>1. r.top = b + 1
      BY <2>1
    <3> HIDE DEF t, b
    <3>2. t.top = b + 1 /\ \A x \in 0..b : x \in 0..t.top - 1
      BY <1>1, <1>2, <2>1, <3>1
    <3> QED
      BY <1>2, <2>1, <3>1, <3>2
  <2> HIDE DEF b, s, l, j, live, t, m
  <2>4. Sound(t) /\ t.top # 0 /\ t.top - 1 = b /\ b \in 0..t.top - 1 /\ v = r.array[b]
    BY <1>1, <2>3 DEF Grows, Get
  <2>5. v \in LuaValues
    BY <2>4, SoundTypes DEF Get
  <2>6. Grows(t, p) /\ ~p.overflow /\ p.top = b /\ \A x \in 0..b - 1 : p.array[x] = t.array[x]
    <3>1. /\ Grows(t, p) /\ p.overflow = t.overflow
          /\ ~p.overflow => p.top = t.top - 1 /\ \A x \in 0..p.top - 1 : p.array[x] = t.array[x]
      BY <2>4, PopProperties
    <3> HIDE DEF p
    <3> QED
      BY <2>3, <2>4, <3>1
  <2> HIDE DEF p, v
  <2>7. i \in 0..p.top /\ i + 1 <= b + 1
    BY <1>1, <1>3, <2>1, <2>6
  <2>8. b + 1 <= p.size /\ Sound(p) /\ Grows(r, p)
    <3>1. Sound(p) /\ Grows(r, p) /\ r.size <= p.size /\ p.size \in Nat
      <4>1. Grows(r, p)
        BY <2>3, <2>6, GrowsTwice
      <4> QED
        BY <4>1, SoundTypes DEF Grows
    <3> QED
      BY <1>1, <2>3, <3>1
  <2> HIDE DEF i
  <2>9. /\ Grows(p, s) /\ s.overflow = p.overflow
        /\ ~s.overflow => /\ s.top = LargerOf(b, i + 1)
                          /\ \A x \in 0..s.top - 1 : s.array[x] = IF x = i THEN v ELSE p.array[x]
    <3>1. i + 1 <= p.size
      <4>1. i \in Nat /\ b \in Nat /\ p.size \in Nat
        BY <1>1, <2>6, <2>7, <2>8, SoundTypes
      <4> QED
        BY <2>7, <2>8, <4>1
    <3> QED
      BY <2>2, <2>5, <2>6, <2>7, <2>8, <3>1, SetProperties
  <2>10. Grows(r, s) /\ ~s.overflow
    BY <2>6, <2>8, <2>9, GrowsTwice
  <2>11. ASSUME NEW x \in 0..s.top - 1
         PROVE  s.array[x] = IF x = i THEN r.array[b] ELSE r.array[x]
    <3>1. x # i => x \in 0..b - 1 /\ x \in 0..b
      BY <1>1, <2>6, <2>7, <2>9, <2>10 DEF LargerOf
    <3> QED
      BY <2>3, <2>4, <2>6, <2>9, <2>10, <3>1
  <2> QED
    BY <1>3, <2>9, <2>10, <2>11 DEF b, s, l, j, i, Delivered
<1>4. CASE j = 0 /\ caller.f.isG /\ cf.want # MultRet
  <2>1. s = t
    BY <1>4 DEF AfterCall
  <2> HIDE DEF s, t, j
  <2>2. j = cf.into
    BY DEF j
  <2> QED
    BY <1>2, <1>4, <2>1, <2>2 DEF Delivered, s
<1>5. CASE j = 0 /\ ~(caller.f.isG /\ cf.want # MultRet)
  <2>1. s = r
    BY <1>5 DEF AfterCall
  <2>2. Grows(r, r)
    BY SoundTypes DEF Grows
  <2> HIDE DEF s
  <2> QED
    BY <1>5, <2>1, <2>2 DEF s, Delivered
<1> QED
  BY <1>3, <1>4, <1>5

\* The results r holds from to on, j the variable that takes the only one of them.
ReceivedRow(old, results, j) ==
    IF j \in 1..Len(old) THEN Abstract!ReplaceAt(old, j, results[1]) ELSE old \o results

IsAssigned(t, s, i, v) ==
  /\ t \in Seq(LuaValues) /\ Len(t) = LargerOf(Len(s), i)
  /\ \A j \in 1..Len(t) : t[j] = IF j = i THEN v ELSE s[j]

LEMMA AssignedIs ==
  ASSUME NEW s \in Seq(LuaValues), NEW i \in 1..Len(s) + 1, NEW v \in LuaValues
  PROVE  IsAssigned(Assigned(s, i, v), s, i, v)
<1> DEFINE t == Assigned(s, i, v)
<1>1. /\ t \in Seq(LuaValues) /\ Len(t) = LargerOf(Len(s), i)
      /\ \A j \in 1..Len(t) : t[j] = IF j = i THEN v ELSE s[j]
  BY AssignedProperties
<1> HIDE DEF t
<1>2. IsAssigned(t, s, i, v)
  BY <1>1 DEF IsAssigned
<1> QED
  BY <1>2 DEF t

IsReceived(r, s, l, j, to, n) ==
  /\ s.top = (IF j # 0 THEN LargerOf(to, l + j - 1 + 1) ELSE to + n)
  /\ \A x \in 0..s.top - 1 :
       s.array[x] = IF j # 0 /\ x = l + j - 1 THEN r.array[to] ELSE r.array[x]

LEMMA ReceivedLists ==
  ASSUME NEW g, Sound(g), NEW l \in Nat, NEW m \in Nat, NEW to \in Nat, l + m <= to, to <= g.top,
         NEW j \in Nat, NEW n \in Nat, NEW r, Keeps(g, r, to), NEW results, Lists(results, r, to, n),
         j # 0 => n = 1 /\ j <= m + 1, j = 0 => l + m = to,
         NEW s, IsReceived(r, s, l, j, to, n)
  PROVE  Lists(ReceivedRow(Row(g, l, m), results, j), s, l, IF j # 0 THEN LargerOf(m, j) ELSE m + n)
<1> DEFINE old == Row(g, l, m)
           e == IF j # 0 THEN LargerOf(m, j) ELSE m + n
           new == ReceivedRow(old, results, j)
<1>0. /\ s.top = (IF j # 0 THEN LargerOf(to, l + j - 1 + 1) ELSE to + n)
      /\ \A x \in 0..s.top - 1 :
           s.array[x] = IF j # 0 /\ x = l + j - 1 THEN r.array[to] ELSE r.array[x]
  BY DEF IsReceived
<1> USE <1>0
<1>1. /\ old \in Seq(LuaValues) /\ Len(old) = m /\ \A i \in 1..m : old[i] = g.array[l + i - 1]
  <2>1. l + m <= g.top /\ g.top \in Nat
    BY SoundTypes
  <2> QED
    BY <2>1, RowProperties
<1> HIDE DEF old
<1>2. /\ results \in Seq(LuaValues) /\ Len(results) = n /\ \A i \in 1..n : results[i] = r.array[to + i - 1]
  BY DEF Lists
<1>3. \A i \in 1..m : r.array[l + i - 1] = old[i]
  <2>1. \A i \in 1..m : l + i - 1 \in 0..to - 1
    OBVIOUS
  <2> QED
    BY <1>1, <2>1 DEF Keeps
<1>4. j # 0 => results[1] = r.array[to]
  <2>1. j # 0 => 1 \in 1..n /\ to + 1 - 1 = to
    OBVIOUS
  <2> QED
    BY <1>2, <2>1
<1>5. CASE j \in 1..m
  <2>1. new = Assigned(old, j, results[1])
    <3>1. j # m + 1
      BY <1>5
    <3> QED
      BY <1>1, <1>5, <3>1 DEF ReceivedRow, Assigned
  <2>2. results[1] \in LuaValues /\ j \in 1..Len(old) + 1
    <3>1. 1 \in 1..Len(results)
      BY <1>2, <1>5
    <3> QED
      BY <1>1, <1>2, <1>5, <3>1, ElementOfSeq
  <2>3. /\ new \in Seq(LuaValues) /\ Len(new) = LargerOf(m, j)
        /\ \A i \in 1..Len(new) : new[i] = IF i = j THEN results[1] ELSE old[i]
    <3> DEFINE v == results[1]
               t == Assigned(old, j, v)
    <3>1. old \in Seq(LuaValues) /\ j \in 1..Len(old) + 1 /\ v \in LuaValues /\ Len(old) = m /\ new = t
      BY <1>1, <2>1, <2>2
    <3> HIDE DEF v, new
    <3>2. IsAssigned(t, old, j, v)
      BY <3>1, AssignedIs
    <3> HIDE DEF t
    <3> QED
      BY <3>1, <3>2 DEF v, IsAssigned
  <2>4. LargerOf(m, j) = m /\ e = m
    BY <1>5 DEF LargerOf
  <2> HIDE DEF new, e
  <2>5. ASSUME NEW i \in 1..m
        PROVE  new[i] = s.array[l + i - 1]
    <3>1. l + i - 1 \in 0..s.top - 1 /\ (l + i - 1 = l + j - 1 <=> i = j) /\ j # 0
      BY <1>5 DEF LargerOf
    <3> QED
      BY <1>3, <1>4, <2>3, <2>4, <3>1
  <2> QED
    BY <2>3, <2>4, <2>5 DEF Lists, new, e, old
<1>6. CASE ~(j \in 1..m)
  <2>1. new = old \o results
    BY <1>1, <1>6 DEF ReceivedRow
  <2>2. /\ new \in Seq(LuaValues) /\ Len(new) = m + n
        /\ \A i \in 1..m + n : new[i] = IF i <= m THEN old[i] ELSE results[i - m]
    <3> DEFINE t == old \o results
    <3>1. /\ t \in Seq(LuaValues) /\ Len(t) = Len(old) + Len(results)
          /\ \A i \in 1..Len(old) + Len(results) : t[i] = IF i <= Len(old) THEN old[i] ELSE results[i - Len(old)]
      <4>1. old \in Seq(LuaValues) /\ results \in Seq(LuaValues)
        BY <1>1, <1>2
      <4>2. t \in Seq(LuaValues) /\ Len(t) = Len(old) + Len(results)
        BY <4>1
      <4>3. \A i \in 1..Len(old) + Len(results) : t[i] = IF i <= Len(old) THEN old[i] ELSE results[i - Len(old)]
        BY <4>1, ConcatProperties
      <4> HIDE DEF t
      <4> QED
        BY <4>2, <4>3
    <3> HIDE DEF t
    <3>2. t \in Seq(LuaValues) /\ Len(t) = m + n /\ \A i \in 1..m + n : t[i] = IF i <= m THEN old[i] ELSE results[i - m]
      <4> DEFINE u == Len(old)
                 w == Len(results)
      <4>1. u = m /\ w = n
        BY <1>1, <1>2
      <4>2. t \in Seq(LuaValues) /\ Len(t) = u + w /\ \A i \in 1..u + w : t[i] = IF i <= u THEN old[i] ELSE results[i - u]
        BY <3>1
      <4> HIDE DEF u, w
      <4> QED
        BY <4>1, <4>2
    <3>3. new = t
      BY <2>1 DEF t
    <3> HIDE DEF new
    <3> QED
      BY <3>2, <3>3
  <2>3. e = m + n /\ (j # 0 => j = m + 1 /\ n = 1)
    BY <1>6 DEF LargerOf
  <2> HIDE DEF new, e
  <2>4. ASSUME NEW i \in 1..m + n
        PROVE  new[i] = s.array[l + i - 1]
    <3>1. CASE i <= m
      <4>1. l + i - 1 \in 0..s.top - 1 /\ i \in 1..m /\ (j # 0 => l + i - 1 # l + j - 1)
        BY <2>3, <3>1 DEF LargerOf
      <4> QED
        BY <1>3, <2>2, <3>1, <4>1
    <3>2. CASE ~(i <= m) /\ j = 0
      <4>1. l + i - 1 \in 0..s.top - 1 /\ i - m \in 1..n /\ to + (i - m) - 1 = l + i - 1
        BY <3>2
      <4> QED
        BY <1>2, <2>2, <3>2, <4>1
    <3>3. CASE ~(i <= m) /\ j # 0
      <4>1. i = m + 1 /\ i - m = 1 /\ l + i - 1 = l + j - 1 /\ l + i - 1 \in 0..s.top - 1
        BY <2>3, <3>3 DEF LargerOf
      <4> QED
        BY <1>4, <2>2, <3>3, <4>1
    <3> QED
      BY <3>1, <3>2, <3>3
  <2> QED
    BY <2>2, <2>3, <2>4 DEF Lists, new, e, old
<1> QED
  BY <1>5, <1>6

\* How many values the caller has, before and after.
HasBefore == IF cf.into # 0 THEN caller.live ELSE cf.returnBase - caller.localBase
HasAfter(n) == IF cf.into # 0 THEN LargerOf(HasBefore, cf.into) ELSE HasBefore + n

LEMMA CallerView ==
  ASSUME IInv, Len(frames) # 1
  PROVE  /\ HasBefore \in Nat /\ caller.localBase + HasBefore <= cf.returnBase
         /\ cf.into # 0 => cf.into <= HasBefore + 1
         /\ cf.into = 0 => caller.localBase + HasBefore = cf.returnBase
         /\ ViewOf(rg, frames, CallerIndex) = View(rg, caller, HasBefore)
<1> DEFINE d == CallerIndex
           l == caller.localBase
           v == caller.live
           to == cf.returnBase
           m == HasBefore
<1>1. /\ d \in 1..Len(frames) - 1 /\ caller = frames[d] /\ l \in Nat /\ v \in Nat /\ to \in Nat
      /\ caller.f.isG \in BOOLEAN /\ ~caller.open /\ Len(frames) \in Nat /\ cf.into \in Nat
  BY Current, CallerProperties, FrameTypes DEF caller
<1>2. IF cf.into # 0 THEN ~caller.f.isG /\ cf.into <= v + 1 /\ l + v <= to
      ELSE IF caller.f.isG THEN l <= to ELSE to = l + v
  BY CallerProperties
<1>3. caller.f.isG => frames[d + 1].base = to /\ cf.into = 0
  BY CalleeProperties
<1>4. m = IF cf.into # 0 THEN v ELSE to - l
  BY DEF HasBefore
<1>5. d # Len(frames)
  BY <1>1
<1> HIDE DEF l, v, to, m, d
<1>6. m \in Nat /\ l + m <= to /\ (cf.into = 0 => l + m = to) /\ (cf.into # 0 => m = v)
      /\ (~caller.f.isG => m = v)
  BY <1>1, <1>2, <1>4
<1>7. Used(rg, frames, d) = m
  <2>1. Used(rg, frames, d) = IF ~caller.f.isG THEN v ELSE frames[d + 1].base - l
    BY <1>1, <1>5 DEF Used, l, v
  <2>2. caller.f.isG => frames[d + 1].base - l = m
    BY <1>3, <1>4
  <2> QED
    BY <1>1, <1>6, <2>1, <2>2
<1>8. ViewOf(rg, frames, d) = View(rg, caller, m)
  BY <1>1, <1>7 DEF ViewOf
<1> QED
  BY <1>2, <1>6, <1>8 DEF l, to, m, d, v

LEMMA ResumedUsed ==
  ASSUME IInv, Len(frames) # 1, NEW n \in Nat, NEW s, NEW fs, Len(fs) = CallerIndex,
         fs[CallerIndex] = Resumed(n), cf.into = 0 => s.top = cf.returnBase + n
  PROVE  Used(s, fs, Len(fs)) = HasAfter(n) /\ SameCall(caller, Resumed(n)) /\ HasAfter(n) \in Nat
<1> DEFINE l == caller.localBase
           v == caller.live
           to == cf.returnBase
           m == HasBefore
           j == cf.into
           a == Resumed(n)
           e == HasAfter(n)
<1>1. /\ caller \in Frame /\ l \in Nat /\ v \in Nat /\ to \in Nat /\ j \in Nat
      /\ caller.f.isG \in BOOLEAN /\ caller.open = FALSE /\ cf.want \in Nat \cup {MultRet}
  BY CallerProperties, FrameTypes
<1>2. IF j # 0 THEN ~caller.f.isG ELSE (~caller.f.isG => to = l + v)
  BY CallerProperties
<1>3. m \in Nat /\ (j = 0 => l + m = to) /\ (j # 0 => m = v)
  BY CallerView DEF HasBefore
<1>4. e = IF j # 0 THEN LargerOf(m, j) ELSE m + n
  BY DEF HasAfter
<1>5. SameCall(caller, a)
  BY ResumedProperties DEF SameCall
<1>6. Used(s, fs, Len(fs)) = IF ~a.f.isG /\ ~a.open THEN a.live ELSE s.top - a.localBase
  BY DEF Used
<1>7. a.f = caller.f /\ a.localBase = l
  BY <1>5 DEF SameCall
<1>8. CASE caller.f.isG
  <2>1. j = 0 /\ s.top = to + n
    BY <1>2, <1>8
  <2> HIDE DEF l, to, m, e, a
  <2>2. s.top - l = e
    BY <1>1, <1>3, <1>4, <2>1
  <2>3. Used(s, fs, Len(fs)) = e /\ e \in Nat
    BY <1>3, <1>4, <1>6, <1>7, <1>8, <2>1, <2>2
  <2> QED
    BY <1>5, <2>3 DEF e, a
<1>9. CASE ~caller.f.isG /\ j # 0
  <2>1. a.live = LargerOf(v, j) /\ a.open = FALSE
    <3> DEFINE x == LargerOf(v, j)
    <3>1. a = [caller EXCEPT !.live = x]
      BY <1>9 DEF Resumed
    <3> HIDE DEF x, a
    <3>2. a.live = x /\ a.open = caller.open
      BY <1>1, <3>1 DEF Frame
    <3> QED
      BY <1>1, <3>2 DEF x
  <2>2. LargerOf(v, j) \in Nat
    BY <1>1, LargerProperties
  <2> HIDE DEF l, to, m, e, a
  <2> QED
    BY <1>3, <1>4, <1>5, <1>6, <1>7, <1>9, <2>1, <2>2 DEF e, a
<1>10. CASE ~caller.f.isG /\ j = 0
  <2>1. a.live = to - l + n
    <3> DEFINE x == to - l + n
               o == cf.want = MultRet
    <3>1. a = [caller EXCEPT !.live = x, !.open = o]
      BY <1>10 DEF Resumed
    <3> HIDE DEF x, a, o
    <3>2. a.live = x
      BY <1>1, <3>1 DEF Frame
    <3> QED
      BY <3>2 DEF x
  <2>2. s.top = to + n
    BY <1>10
  <2> HIDE DEF l, to, m, e, a
  <2>3. s.top - l = e /\ to - l + n = e /\ e \in Nat
    BY <1>1, <1>3, <1>4, <1>10, <2>2
  <2>4. Used(s, fs, Len(fs)) = e
    BY <1>6, <1>7, <2>1, <2>3
  <2> QED
    BY <1>5, <2>3, <2>4 DEF e, a
<1> QED
  BY <1>1, <1>8, <1>9, <1>10

LEMMA AbstractReturn ==
  ASSUME NEW a, NEW b, NEW d, d = Len(Callers(rg, frames)) - (IF Running(rg, frames).tail THEN 1 ELSE 0),
         NEW v, v = Callers(rg, frames)[d], Callers(rg, frames) # <<>>,
         NEW results, results = Abstract!Adjusted(SubSeq(Abstract!Locals, a, b), Running(rg, frames).want),
         Running(rg', frames') = WithLocals(v, ReceivedRow(v.locals, results, Running(rg, frames).into)),
         Callers(rg', frames') = FirstOf(Callers(rg, frames), d - 1),
         Sps(marks') = IF Sps(marks) # <<>> /\ Last(Sps(marks)) = d THEN Front(Sps(marks)) ELSE Sps(marks)
  PROVE  Abstract!Return(a, b)
<1>1. Abstract!CallerIndex = d
  BY AbstractState DEF Abstract!CallerIndex
<1>2. Abstract!Receives(v.locals, results) = ReceivedRow(v.locals, results, Running(rg, frames).into)
  BY AbstractState DEF Abstract!Receives, ReceivedRow
<1>3. Running(rg', frames') = [v EXCEPT !.locals = Abstract!Receives(v.locals, results)]
  BY <1>2 DEF WithLocals
<1> QED
  BY <1>1, <1>3, AbstractState, AbstractStateNext
     DEF Abstract!Return, FirstOf, Abstract!Last, Abstract!Front, Last, Front

LEMMA ReturnsNext ==
  ASSUME IInv, Len(frames) # 1, NEW n \in Nat, cf.want # MultRet => n = cf.want,
         NEW a \in Nat, NEW b \in Nat, a <= b, b <= Live,
         NEW results, results = Abstract!Adjusted(SubSeq(Abstract!Locals, a + 1, b), cf.want),
         NEW r, Grows(rg, r), Keeps(rg, r, cf.returnBase),
         ~r.overflow => r.top = cf.returnBase + n /\ Lists(results, r, cf.returnBase, n),
         Returns(r, n)
  PROVE  Abstract!Next
<1> DEFINE c == CallerIndex
           o == Resumed(n)
           g == SubSeq(frames, 1, c - 1)
           fs == Append(g, o)
           ms == IF marks # <<>> /\ Last(marks).sp = c THEN Front(marks) ELSE marks
           s == IF r.overflow THEN r ELSE AfterCall(r)
           to == cf.returnBase
           l == caller.localBase
           m == HasBefore
           e == HasAfter(n)
           old == Callers(rg, frames)
           v == ViewOf(rg, frames, c)
           j == cf.into
           new == ReceivedRow(Row(rg, l, m), results, j)
           N == Len(frames)
<1>1. Ends(s, fs, ms)
  BY DEF Returns
<1>2. /\ Sound(rg) /\ Framed(frames, marks) /\ frames \in Seq(Frame) /\ marks \in Seq(Mark)
      /\ N \in Nat \ {0} /\ Covered(frames, rg.top) /\ to \in Nat /\ Live \in Nat /\ rg.top \in Nat
  BY Current DEF Framed, IInv
<1>3. /\ c \in 1..N - 1 /\ c \in 1..N /\ c \in Nat \ {0} /\ caller = frames[c]
      /\ caller \in Frame /\ FrameFits(caller) /\ l \in Nat /\ j \in Nat
      /\ caller.base \in Int /\ caller.base + 1 \in Nat /\ caller.base + 1 <= l
  <2>1. c \in 1..N - 1 /\ caller \in Frame /\ FrameFits(caller)
    BY CallerProperties
  <2>2. c \in 1..N /\ c \in Nat \ {0}
    <3> HIDE DEF c, N
    <3> QED
      BY <1>2, <2>1
  <2>3. frames[c].base + 1 \in Nat
    BY <1>2, <2>2, BaseIsNat
  <2> QED
    BY <2>1, <2>2, <2>3, CallerProperties, FrameTypes, WindowAboveBase DEF caller
<1>4. to <= rg.top
  <2> DEFINE x == cf.base
             y == cf.localBase
             z == cf.live
  <2>1. to <= x /\ x \in Int /\ x + 1 <= y /\ y \in Nat /\ z \in Nat /\ y + z <= rg.top
    BY Current, CallerProperties
  <2> HIDE DEF x, y, z, to
  <2> QED
    BY <1>2, <2>1
<1>5. ~r.overflow => ~s.overflow /\ Delivered(r, s, n)
  <2>1. ASSUME ~r.overflow
        PROVE  ~s.overflow /\ Delivered(r, s, n)
    <3> DEFINE t == AfterCall(r)
    <3>1. Sound(r) /\ r.top = cf.returnBase + n /\ s = t
      BY <2>1 DEF Grows
    <3>2. Delivered(r, t, n)
      BY <2>1, <3>1, AfterCallDelivers
    <3> HIDE DEF s, t
    <3> QED
      BY <3>1, <3>2 DEF Delivered
  <2> QED
    BY <2>1
<1>6. CASE r.overflow
  <2>1. s = r
    BY <1>6
  <2>2. ASSUME marks # <<>>
        PROVE  Keeps(rg, r, Last(marks).base)
    <3> DEFINE x == Last(marks).base
    <3>1. x \in Int /\ x <= to /\ to \in Int /\ Sound(r) /\ Keeps(rg, r, to)
      <4>1. x \in Nat
        BY <2>2, LastMark
      <4>2. x <= to
        BY <2>2, MarkBelowResults
      <4> QED
        BY <1>2, <4>1, <4>2 DEF Grows
    <3> HIDE DEF x, to
    <3>2. Keeps(rg, r, x)
      BY <3>1, KeepsLess
    <3> QED
      BY <3>2 DEF x
  <2> HIDE DEF s, fs, ms
  <2>3. Abstract!Fail
    BY <1>1, <1>6, <2>1, <2>2, EndsFails
  <2> QED
    BY <2>3 DEF Abstract!Next
<1>7. CASE ~r.overflow
  <2>1. rg' = s /\ frames' = fs /\ marks' = ms /\ Delivered(r, s, n)
    BY <1>1, <1>5, <1>7 DEF Ends
  <2> HIDE DEF s
  <2>2. /\ Sound(s) /\ s.top = (IF j # 0 THEN LargerOf(to, l + j - 1 + 1) ELSE to + n)
        /\ \A x \in 0..s.top - 1 :
             s.array[x] = IF j # 0 /\ x = l + j - 1 THEN r.array[to] ELSE r.array[x]
    BY <2>1 DEF Delivered, Grows
  <2>3. m \in Nat /\ l + m <= to /\ (j # 0 => j <= m + 1) /\ (j = 0 => l + m = to) /\ v = View(rg, caller, m)
    BY CallerView
  <2>4. j # 0 => n = 1
    <3>1. j # 0 => cf.want = 1 /\ MultRet # 1
      BY CallerProperties DEF MultRet
    <3> QED
      BY <3>1
  <2>5. g \in Seq(Frame) /\ Len(g) = c - 1 /\ \A i \in 1..c - 1 : g[i] = frames[i]
    <3>1. c - 1 \in 0..N
      BY <1>2, <1>3
    <3> HIDE DEF c
    <3> QED
      BY <1>2, <3>1, PrefixProperties
  <2>6. o \in Frame /\ o.base = caller.base
    BY ResumedProperties
  <2> HIDE DEF g, o
  <2>7. Len(fs) = c /\ fs[c] = o /\ \A i \in 1..c - 1 : fs[i] = frames[i]
    <3>1. /\ Len(fs) = Len(g) + 1 /\ fs[Len(g) + 1] = o
          /\ \A i \in 1..Len(g) : fs[i] = g[i]
      BY <2>5, <2>6, AppendProperties
    <3>2. Len(g) + 1 = c
      BY <1>3, <2>5
    <3> HIDE DEF fs
    <3> QED
      BY <2>5, <3>1, <3>2
  <2> HIDE DEF fs
  <2>8. Used(s, fs, Len(fs)) = e /\ SameCall(caller, o) /\ e \in Nat
    <3>1. Len(fs) = CallerIndex /\ fs[CallerIndex] = Resumed(n) /\ (cf.into = 0 => s.top = cf.returnBase + n)
      BY <2>2, <2>7 DEF o
    <3> QED
      BY <3>1, ResumedUsed DEF o
  <2> HIDE DEF c, m, e, to, j, N
  <2>9. Keeps(rg, s, l)
    <3>1. l <= to /\ l <= s.top
      <4> DEFINE z == s.top
      <4>1. /\ z = (IF j # 0 THEN LargerOf(to, l + j - 1 + 1) ELSE to + n)
            /\ to \in Nat /\ l \in Nat /\ j \in Nat /\ m \in Nat /\ l + m <= to
        BY <1>2, <1>3, <2>2, <2>3
      <4> HIDE DEF z, l
      <4>2. l <= to /\ l <= z
        BY <4>1 DEF LargerOf
      <4> QED
        BY <4>2 DEF z
    <3>2. ASSUME NEW x \in 0..l - 1
          PROVE  s.array[x] = rg.array[x]
      <4>1. x \in 0..s.top - 1 /\ x \in 0..to - 1 /\ ~(j # 0 /\ x = l + j - 1)
        <5>1. s.top \in Nat
          BY <2>2, SoundTypes
        <5> DEFINE z == s.top
        <5>2. /\ z \in Nat /\ to \in Nat /\ l \in Nat /\ j \in Nat /\ l <= to /\ l <= z /\ x \in 0..l - 1
          BY <1>2, <1>3, <3>1, <5>1
        <5> HIDE DEF z, l
        <5>3. x \in 0..z - 1 /\ x \in 0..to - 1 /\ ~(j # 0 /\ x = l + j - 1)
          BY <5>2
        <5> QED
          BY <5>3 DEF z
      <4>2. Keeps(rg, r, to)
        BY DEF to
      <4> QED
        BY <2>2, <4>1, <4>2 DEF Keeps
    <3> QED
      BY <3>1, <3>2 DEF Keeps
  <2>10. new = Row(s, l, e)
    <3>1. e = IF j # 0 THEN LargerOf(m, j) ELSE m + n
      BY DEF e, HasAfter, m, j
    <3>2. Lists(results, r, to, n) /\ Keeps(rg, r, to)
      BY <1>7 DEF to
    <3>3. Lists(new, s, l, IF j # 0 THEN LargerOf(m, j) ELSE m + n)
      <4> HIDE DEF l
      <4> QED
        <5>1. IsReceived(r, s, l, j, to, n)
          BY <2>2 DEF IsReceived
        <5>2. /\ Sound(rg) /\ l \in Nat /\ m \in Nat /\ to \in Nat /\ l + m <= to /\ to <= rg.top
              /\ j \in Nat /\ n \in Nat /\ (j # 0 => n = 1 /\ j <= m + 1) /\ (j = 0 => l + m = to)
          BY <1>2, <1>3, <1>4, <2>3, <2>4
        <5> QED
          BY <3>2, <5>1, <5>2, ReceivedLists
    <3> HIDE DEF new
    <3>4. Lists(new, s, l, e)
      BY <3>1, <3>3
    <3> QED
      BY <3>4, IsRow
  <2>11. Running(s, fs) = WithLocals(v, new)
    <3>1. Running(s, fs) = View(s, o, e)
      BY <2>7, <2>8 DEF Running, ViewOf
    <3> DEFINE q == caller
    <3>2. q \in Frame /\ FrameFits(q) /\ q.base + 1 \in Nat /\ SameCall(q, o) /\ Keeps(rg, s, q.localBase)
      BY <1>3, <2>8, <2>9
    <3>3. View(s, o, e) = WithLocals(View(rg, q, m), Row(s, q.localBase, e))
      <4> HIDE DEF q
      <4> QED
        BY <3>2, ViewLocals
    <3> HIDE DEF new
    <3> QED
      BY <2>3, <2>10, <3>1, <3>3
  <2>12. Callers(s, fs) = FirstOf(old, c - 1)
    <3>1. c \in 1..Len(frames) /\ c <= Len(fs) /\ Len(fs) \in Nat
      BY <1>2, <1>3, <2>7 DEF N
    <3>2. fs[c].base = frames[c].base /\ SameFrames(frames, fs, c - 1)
      BY <1>3, <2>6, <2>7 DEF SameFrames
    <3>3. Keeps(rg, s, frames[c].base)
      <4> DEFINE x == caller.base
      <4>1. x \in Int /\ l \in Int /\ x <= l
        BY <1>3
      <4> HIDE DEF x, l
      <4>2. Keeps(rg, s, x)
        BY <2>2, <2>9, <4>1, KeepsLess
      <4> QED
        BY <1>3, <4>2 DEF x
    <3>4. SameViews(rg, frames, s, fs, c - 1)
      BY <1>2, <2>2, <3>1, <3>2, <3>3, CallersKept
    <3>5. Len(frames) \in Nat \ {0} /\ Len(fs) \in 1..Len(frames) /\ Len(fs) = c
      BY <1>2, <1>3, <2>7 DEF N
    <3> QED
      BY <3>4, <3>5, CallersCut
  <2>13. /\ old # <<>> /\ Len(old) = N - 1 /\ old[c] = v
         /\ c = Len(old) - (IF cf.tail THEN 1 ELSE 0)
    <3>1. PICK S : old \in Seq(S) /\ Len(old) = N - 1 /\ \A k \in 1..N - 1 : old[k] = ViewOf(rg, frames, k)
      BY <1>2, CallersProperties DEF N
    <3>2. N - 1 # 0
      BY <1>2, <1>3
    <3>3. c = N - (IF cf.tail THEN 2 ELSE 1)
      BY DEF c, CallerIndex, N
    <3>4. c = N - 1 - (IF cf.tail THEN 1 ELSE 0)
      BY <1>2, <3>3
    <3> HIDE DEF old, v
    <3> QED
      BY <1>3, <3>1, <3>2, <3>4, EmptySeq DEF v
  <2>14. Sps(marks') = IF Sps(marks) # <<>> /\ Last(Sps(marks)) = c THEN Front(Sps(marks)) ELSE Sps(marks)
    <3>1. /\ marks # <<>> <=> Sps(marks) # <<>>
          /\ marks # <<>> => Last(Sps(marks)) = Last(marks).sp /\ Sps(Front(marks)) = Front(Sps(marks))
      BY <1>2, SpsProperties
    <3> QED
      BY <2>1, <3>1
  <2>15. v.locals = Row(rg, l, m)
    BY <2>3 DEF View
  <2>16. Abstract!Return(a + 1, b)
    <3>1. /\ Running(rg, frames).tail = cf.tail /\ Running(rg, frames).want = cf.want
          /\ Running(rg, frames).into = j
      BY RunningProperties DEF j
    <3>2. Running(rg', frames') = WithLocals(v, ReceivedRow(v.locals, results, Running(rg, frames).into))
      BY <2>1, <2>11, <2>15, <3>1
    <3>3. Callers(rg', frames') = FirstOf(old, c - 1)
      BY <2>1, <2>12
    <3>4. c = Len(old) - (IF Running(rg, frames).tail THEN 1 ELSE 0)
      BY <2>13, <3>1
    <3>5. results = Abstract!Adjusted(SubSeq(Abstract!Locals, a + 1, b), Running(rg, frames).want)
      BY <3>1
    <3> DEFINE w == v
    <3>6. w = old[c] /\ Running(rg', frames') = WithLocals(w, ReceivedRow(w.locals, results, Running(rg, frames).into))
      BY <2>13, <3>2
    <3> HIDE DEF w
    <3> QED
      BY <2>13, <2>14, <3>3, <3>4, <3>5, <3>6, AbstractReturn
  <2>17. a + 1 \in 1..Abstract!Count + 1 /\ b \in 0..Abstract!Count
    BY <1>2, AbstractLocals
  <2>18. Abstract!Depth' < Abstract!Depth
    <3>1. Len(frames') = c /\ Abstract!Depth' = Len(frames') - 1
      BY <1>3, <2>1, <2>7, AbstractDepthNext
    <3>2. Abstract!Depth = N - 1
      BY AbstractLocals DEF N
    <3> QED
      BY <1>2, <1>3, <3>1, <3>2
  <2> QED
    BY <2>16, <2>17, <2>18 DEF Abstract!Next
<1> QED
  BY <1>6, <1>7

\* r has, from to on, the values that lie from start to end, and then nil.
Moved(r, to, start, end, n) ==
    /\ r.top = to + n
    /\ \A j \in 0..r.top - 1 :
         r.array[j] = IF j < to THEN rg.array[j]
                      ELSE IF start + (j - to) < end THEN rg.array[start + (j - to)] ELSE LNil

LEMMA ResultsMoved ==
  ASSUME IInv, Len(frames) # 1, NEW a \in Nat, NEW b \in Nat, a <= b, b <= Live,
         NEW n, n = Wanted(b - a), NEW to \in Nat, NEW r,
         Moved(r, to, cf.localBase + a, cf.localBase + b, n)
  PROVE  r.top = to + n /\ Lists(Abstract!Adjusted(SubSeq(Abstract!Locals, a + 1, b), cf.want), r, to, n)
<1> DEFINE L == Abstract!Locals
           l == cf.localBase
           v == Live
           w == cf.want
           x == SubSeq(L, a + 1, b)
           t == Abstract!Adjusted(x, w)
<1>1. /\ L \in Seq(LuaValues) /\ Len(L) = v /\ v \in Nat /\ l \in Nat
      /\ \A i \in 1..v : L[i] = rg.array[l + i - 1] /\ L[i] \in LuaValues
  BY LocalsProperties, ElementOfSeq
<1>2. w \in Nat \cup {MultRet} /\ n = (IF w = MultRet THEN b - a ELSE w) /\ b <= v
  BY CallerProperties DEF Wanted
<1>3. /\ r.top = to + n
      /\ \A j \in 0..r.top - 1 :
           r.array[j] = IF j < to THEN rg.array[j]
                        ELSE IF l + a + (j - to) < l + b THEN rg.array[l + a + (j - to)] ELSE LNil
  BY DEF Moved
<1> HIDE DEF L, l, v, w
<1>4. x \in Seq(LuaValues) /\ Len(x) = b - a /\ \A i \in 1..b - a : x[i] = L[a + i]
  <2>1. a + 1 \in Int /\ b \in Int /\ \A i \in a + 1..b : L[i] \in LuaValues
    BY <1>1, <1>2
  <2>2. /\ x \in Seq(LuaValues) /\ Len(x) = (IF a + 1 <= b THEN b - (a + 1) + 1 ELSE 0)
        /\ \A i \in 1..b - (a + 1) + 1 : x[i] = L[a + 1 + i - 1]
    BY <2>1, SubSeqProperties
  <2>3. (IF a + 1 <= b THEN b - (a + 1) + 1 ELSE 0) = b - a
    OBVIOUS
  <2>4. \A i \in 1..b - a : i \in 1..b - (a + 1) + 1 /\ a + 1 + i - 1 = a + i
    OBVIOUS
  <2> HIDE DEF x
  <2> QED
    BY <2>2, <2>3, <2>4
<1> HIDE DEF x
<1>5. /\ t \in Seq(LuaValues) /\ Len(t) = n /\ n \in Nat
      /\ \A i \in 1..n : t[i] = IF i <= b - a THEN x[i] ELSE LNil
  <2>1. /\ t \in Seq(LuaValues) /\ Len(t) = (IF w = MultRet THEN Len(x) ELSE w)
        /\ (IF w = MultRet THEN Len(x) ELSE w) \in Nat
        /\ \A i \in 1..(IF w = MultRet THEN Len(x) ELSE w) : t[i] = IF i <= Len(x) THEN x[i] ELSE LNil
    BY <1>2, <1>4, AdjustedProperties
  <2>2. (IF w = MultRet THEN Len(x) ELSE w) = n
    BY <1>2, <1>4
  <2> HIDE DEF t
  <2> QED
    BY <1>4, <2>1, <2>2
<1> HIDE DEF t
<1>6. ASSUME NEW i \in 1..n
      PROVE  t[i] = r.array[to + i - 1]
  <2>1. /\ to + i - 1 \in 0..r.top - 1 /\ ~(to + i - 1 < to) /\ to + i - 1 - to = i - 1
        /\ l + a + (i - 1) \in Int /\ (l + a + (i - 1) < l + b <=> i <= b - a)
    BY <1>1, <1>3, <1>5
  <2>2. r.array[to + i - 1] = IF i <= b - a THEN rg.array[l + a + (i - 1)] ELSE LNil
    BY <1>3, <2>1
  <2>3. i <= b - a => /\ i \in 1..b - a /\ a + i \in 1..v /\ l + (a + i) - 1 = l + a + (i - 1)
    BY <1>1, <1>2, <1>5
  <2>4. i <= b - a => x[i] = rg.array[l + a + (i - 1)]
    BY <1>1, <1>4, <2>3
  <2> QED
    BY <1>5, <2>2, <2>4
<1>7. Lists(t, r, to, n)
  BY <1>5, <1>6 DEF Lists
<1> QED
  BY <1>3, <1>7 DEF t, x, L, w

LEMMA CopyReturnMoved ==
  ASSUME Sound(rg), NEW to \in Nat, NEW start \in Nat, NEW n \in Nat, NEW b \in Nat,
         ~rg.overflow, to <= rg.top, to <= start, b # 0 => start + (b - 1) <= rg.top,
         ~copyReturnValues(rg, to, start, n, b).overflow
  PROVE  Moved(copyReturnValues(rg, to, start, n, b), to, start,
               IF b = 0 THEN rg.top ELSE start + (b - 1), n)
<1> DEFINE s == copyReturnValues(rg, to, start, n, b)
<1>1. /\ s.top = to + n
      /\ \A j \in 0..s.top - 1 :
           s.array[j] = IF j < to THEN rg.array[j]
                        ELSE IF start + (j - to) < (IF b = 0 THEN rg.top ELSE start + (b - 1))
                        THEN rg.array[start + (j - to)] ELSE LNil
  BY CopyReturnProperties
<1> HIDE DEF s
<1>2. Moved(s, to, start, IF b = 0 THEN rg.top ELSE start + (b - 1), n)
  BY <1>1 DEF Moved
<1> QED
  BY <1>2 DEF s

LEMMA ReturnNext ==
  ASSUME IInv, NEW a \in Nat, NEW b \in Nat, Return(a, b)
  PROVE  Abstract!Next
<1> DEFINE n == Wanted(b - a)
           to == cf.returnBase
           start == Register(a)
           d == IF cf.open THEN 0 ELSE b - a + 1
           r == copyReturnValues(rg, to, start, n, d)
           results == Abstract!Adjusted(SubSeq(Abstract!Locals, a + 1, b), cf.want)
           l == cf.localBase
           t == rg.top
           y == Live
           o == cf.open
<1>1. ~cf.f.isG /\ a <= b /\ b <= y /\ (o => b = y) /\ Returns(r, n)
  BY DEF Return
<1>2. Len(frames) # 1 /\ to <= cf.base /\ cf.base \in Nat
  BY <1>1, LuaCurrent
<1>3. b - a \in Nat /\ y \in Nat /\ (o => l + y = t)
  BY <1>1, Current
<1>4. n \in Nat /\ (cf.want # MultRet => n = cf.want)
  BY <1>2, <1>3, WantedProperties
<1>5. /\ Sound(rg) /\ ~rg.overflow /\ t \in Nat /\ to \in Nat /\ l \in Nat
      /\ cf.base + 1 <= l /\ l + y <= t /\ o \in BOOLEAN
  BY Current DEF IInv
<1>6. start \in Nat /\ start = l + a
  BY RegisterProperties
<1>7. /\ to <= start /\ to <= t /\ d \in Nat /\ (d # 0 => start + (d - 1) <= t)
      /\ (IF d = 0 THEN t ELSE start + (d - 1)) = l + b
  <2> DEFINE x == cf.base
  <2>1. /\ x \in Nat /\ l \in Nat /\ y \in Nat /\ t \in Nat /\ to \in Nat /\ to <= x /\ x + 1 <= l
        /\ l + y <= t /\ a <= b /\ b <= y /\ start = l + a /\ (o => l + y = t /\ b = y) /\ o \in BOOLEAN
    BY <1>1, <1>2, <1>3, <1>5, <1>6
  <2> HIDE DEF x, l, y, t, to, start, o
  <2>2. to <= start /\ to <= t
    BY <2>1
  <2>3. d \in Nat /\ (d = 0 <=> o) /\ (d # 0 => d - 1 = b - a)
    BY <1>3, <2>1 DEF o
  <2>4. start + (b - a) = l + b /\ l + b <= t /\ (o => l + b = t)
    BY <2>1
  <2> HIDE DEF d
  <2> QED
    BY <2>2, <2>3, <2>4
<1> HIDE DEF n, d, start
<1>8. Grows(rg, r) /\ Keeps(rg, r, to) /\ (~r.overflow => Moved(r, to, l + a, l + b, n))
  <2> DEFINE s == copyReturnValues(rg, to, start, n, d)
             end == IF d = 0 THEN rg.top ELSE start + (d - 1)
  <2> HIDE DEF to
  <2>1. Sound(rg) /\ to \in Nat /\ start \in Nat /\ n \in Nat /\ d \in Nat /\ ~rg.overflow
    BY <1>4, <1>5, <1>6, <1>7
  <2>2. to <= rg.top /\ to <= start /\ (d # 0 => start + (d - 1) <= rg.top)
    BY <1>7
  <2>3. Grows(rg, s)
    BY <2>1, <2>2, CopyReturnProperties
  <2>4. ~s.overflow => Moved(s, to, start, end, n)
    BY <2>1, <2>2, CopyReturnMoved
  <2>5. Keeps(rg, s, to)
    BY <2>1, <2>2, CopyReturnKeeps
  <2>6. start = l + a /\ end = l + b
    BY <1>6, <1>7
  <2> HIDE DEF s, end, start
  <2> HIDE DEF l
  <2>7. ~s.overflow => Moved(s, to, l + a, l + b, n)
    BY <2>4, <2>6
  <2> QED
    BY <2>3, <2>5, <2>7 DEF s
<1> HIDE DEF r
<1>9. ~r.overflow => r.top = to + n /\ Lists(results, r, to, n)
  <2>1. n = Wanted(b - a) /\ to \in Nat /\ a <= b /\ b <= Live
    BY <1>1, <1>5 DEF n
  <2>2. ~r.overflow => Moved(r, to, cf.localBase + a, cf.localBase + b, n)
    BY <1>8
  <2>3. ASSUME ~r.overflow
        PROVE  r.top = to + n /\ Lists(results, r, to, n)
    <3>1. Moved(r, to, cf.localBase + a, cf.localBase + b, n)
      BY <2>2, <2>3
    <3> HIDE DEF to, n
    <3> QED
      BY <1>2, <2>1, <3>1, ResultsMoved
  <2> QED
    BY <2>3
<1>10. Grows(rg, r) /\ Keeps(rg, r, cf.returnBase) /\ Returns(r, n) /\ b <= Live /\ a <= b
  BY <1>1, <1>8
<1>11. ~r.overflow => r.top = cf.returnBase + n /\ Lists(results, r, cf.returnBase, n)
  BY <1>9
<1>12. results = Abstract!Adjusted(SubSeq(Abstract!Locals, a + 1, b), cf.want)
  OBVIOUS
<1> HIDE DEF results
<1> QED
  BY <1>2, <1>4, <1>10, <1>11, <1>12, ReturnsNext

LEMMA ReturnGoNext ==
  ASSUME IInv, NEW n \in Nat, ReturnGo(n)
  PROVE  Abstract!Next
<1> DEFINE y == Live
           a == y - n
           w == Wanted(n)
           to == cf.returnBase
           start == rg.top - n
           r == CopyRange(rg, to, start, NoLimit, w)
           results == Abstract!Adjusted(SubSeq(Abstract!Locals, a + 1, y), cf.want)
           l == cf.localBase
           t == rg.top
<1>1. cf.f.isG /\ Len(frames) > 1 /\ n <= y /\ Returns(r, w)
  BY DEF ReturnGo, Serves
<1>2. /\ Sound(rg) /\ ~rg.overflow /\ t \in Nat /\ to \in Nat /\ l \in Nat
      /\ cf.base + 1 <= l /\ l + y = t /\ y \in Nat
      /\ cf.base \in Int /\ Len(frames) \in Nat
  BY <1>1, Current DEF IInv
<1>3. Len(frames) # 1
  <2> DEFINE c == Len(frames)
  <2>1. c > 1 /\ c \in Nat
    BY <1>1, <1>2
  <2> HIDE DEF c
  <2>2. c # 1
    BY <2>1
  <2> QED
    BY <2>2 DEF c
<1>4. to <= cf.base /\ w \in Nat /\ (cf.want # MultRet => w = cf.want)
  BY <1>3, CallerProperties, WantedProperties
<1>5. start \in Nat /\ to <= start /\ to <= t /\ a \in Nat /\ a <= y /\ y - a = n /\ l + a = start
  <2> DEFINE x == cf.base
  <2>1. /\ x \in Int /\ l \in Nat /\ y \in Nat /\ t \in Nat /\ to \in Nat /\ to <= x /\ x + 1 <= l
        /\ l + y = t /\ n <= y
    BY <1>1, <1>2, <1>4
  <2> HIDE DEF x, l, y, t, to
  <2>2. t - n \in Nat /\ to <= t - n /\ to <= t /\ y - n \in Nat /\ y - n <= y /\ y - (y - n) = n
        /\ l + (y - n) = t - n
    BY <2>1
  <2> QED
    BY <2>2 DEF t
<1>6. w = Wanted(y - a)
  <2> HIDE DEF y, a
  <2> QED
    BY <1>5
<1> HIDE DEF w, start, a
<1>7. Apart(to, start, NoLimit) /\ NoLimit \in Int /\ CopyEnd(rg, NoLimit) = t
  BY <1>5 DEF Apart, NoLimit, CopyEnd
<1>8. Grows(rg, r) /\ Keeps(rg, r, to) /\ (~r.overflow => Moved(r, to, l + a, l + y, w))
  <2> DEFINE s == CopyRange(rg, to, start, NoLimit, w)
             end == CopyEnd(rg, NoLimit)
  <2> HIDE DEF to
  <2>1. Sound(rg) /\ to \in Nat /\ start \in Nat /\ NoLimit \in Int /\ w \in Nat /\ to <= rg.top
        /\ Apart(to, start, NoLimit)
    BY <1>2, <1>4, <1>5, <1>7
  <2>2. Grows(rg, s)
    BY <2>1, CopyRangeProperties
  <2>3. ~s.overflow => /\ s.top = to + w
                       /\ \A j \in 0..s.top - 1 :
                            s.array[j] = IF j < to THEN rg.array[j]
                                         ELSE IF start + (j - to) < end THEN rg.array[start + (j - to)] ELSE LNil
    BY <2>1, CopyRangeProperties
  <2>4. Keeps(rg, s, to)
    <3>1. to \in Int /\ to <= to
      BY <2>1
    <3> QED
      BY <2>1, <3>1, CopyRangeKeeps
  <2>5. start = l + a /\ end = l + y
    BY <1>2, <1>5, <1>7
  <2> HIDE DEF s, end, start
  <2>6. ~s.overflow => Moved(s, to, start, end, w)
    BY <2>3 DEF Moved
  <2> HIDE DEF l, y
  <2>7. ~s.overflow => Moved(s, to, l + a, l + y, w)
    BY <2>5, <2>6
  <2> QED
    BY <2>2, <2>4, <2>7 DEF s
<1> HIDE DEF r
<1>9. ~r.overflow => r.top = to + w /\ Lists(results, r, to, w)
  <2>1. w = Wanted(y - a) /\ to \in Nat /\ a \in Nat /\ y \in Nat /\ a <= y /\ y <= Live
    BY <1>2, <1>5, <1>6
  <2>2. ~r.overflow => Moved(r, to, cf.localBase + a, cf.localBase + y, w)
    BY <1>8
  <2> HIDE DEF to, w, y
  <2> QED
    BY <1>3, <2>1, <2>2, ResultsMoved
<1>10. /\ Grows(rg, r) /\ Keeps(rg, r, cf.returnBase) /\ Returns(r, w) /\ y <= Live /\ a <= y
       /\ a \in Nat /\ y \in Nat
  BY <1>1, <1>2, <1>5, <1>8
<1>11. ~r.overflow => r.top = cf.returnBase + w /\ Lists(results, r, cf.returnBase, w)
  BY <1>9
<1>12. results = Abstract!Adjusted(SubSeq(Abstract!Locals, a + 1, y), cf.want)
  OBVIOUS
<1> HIDE DEF results, y
<1> QED
  BY <1>3, <1>4, <1>10, <1>11, <1>12, ReturnsNext

-----------------------------------------------------------------------------
(* Errors that are raised, and the steps of the functions together.        *)

LEMMA RaisedBelowMark ==
  ASSUME IInv, marks # <<>>
  PROVE  Last(marks).base \in Nat /\ Last(marks).base <= rg.top
<1> DEFINE m == Last(marks).base
           b == cf.base
           l == cf.localBase
           y == Live
           t == rg.top
<1>1. m \in Nat /\ m <= b
  BY LastMark
<1>2. b \in Int /\ l \in Nat /\ y \in Nat /\ t \in Nat /\ b + 1 <= l /\ l + y <= t
  BY Current
<1> HIDE DEF m, b, l, y, t
<1>3. m <= t
  BY <1>1, <1>2
<1> QED
  BY <1>1, <1>3 DEF m, t

LEMMA RaiseErrorNext ==
  ASSUME IInv, RaiseError
  PROVE  Abstract!Next
<1>1. Sound(rg) /\ Recovers(Raised(rg)) /\ marks # <<>>
  BY DEF IInv, RaiseError, Recovers
<1>2. Sound(Raised(rg)) /\ ~Raised(rg).overflow /\ rg.size <= Raised(rg).size
  BY <1>1, RaisedProperties
<1>3. Keeps(rg, Raised(rg), Last(marks).base)
  <2> DEFINE m == Last(marks).base
  <2>1. m \in Int /\ m <= rg.top
    BY <1>1, RaisedBelowMark
  <2> HIDE DEF m
  <2>2. Keeps(rg, Raised(rg), m)
    BY <1>1, <2>1, RaisedKeeps
  <2> QED
    BY <2>2 DEF m
<1>4. Abstract!Fail
  BY <1>1, <1>2, <1>3, RecoversFails
<1> QED
  BY <1>4 DEF Abstract!Next

LEMMA ErrorNext ==
  ASSUME IInv, NEW v \in LuaValues, Error(v)
  PROVE  Abstract!Next
<1> DEFINE p == Push(rg, v)
           r == Thrown(p)
           m == Last(marks).base
<1>1. Sound(rg) /\ Recovers(r) /\ marks # <<>>
  BY DEF IInv, Error, Recovers
<1>2. m \in Int /\ m <= rg.top
  BY <1>1, RaisedBelowMark
<1>3. Grows(rg, p)
  BY <1>1, PushProperties
<1>4. Keeps(rg, p, m)
  <2> HIDE DEF m
  <2> QED
    BY <1>1, <1>2, PushKeeps
<1> HIDE DEF p, m
<1>5. Sound(p) /\ rg.size <= p.size /\ m <= p.top
  BY <1>3, <1>4 DEF Grows, Keeps
<1>6. r = IF p.overflow THEN Raised(p) ELSE p
  BY DEF Thrown
<1> DEFINE q == Raised(p)
<1>7. Sound(q) /\ ~q.overflow /\ p.size <= q.size /\ Keeps(p, q, m)
  BY <1>2, <1>5, RaisedProperties, RaisedKeeps
<1> HIDE DEF r, q
<1>8. Keeps(rg, q, m) /\ rg.size <= q.size
  <2>1. Keeps(rg, q, m)
    BY <1>4, <1>7, KeepsTwice
  <2>2. rg.size \in Nat /\ p.size \in Nat /\ q.size \in Nat
    BY <1>1, <1>5, <1>7, SoundTypes
  <2> DEFINE x == rg.size
             y == p.size
             z == q.size
  <2>3. x \in Nat /\ y \in Nat /\ z \in Nat /\ x <= y /\ y <= z
    BY <1>5, <1>7, <2>2
  <2> HIDE DEF x, y, z
  <2>4. x <= z
    BY <2>3
  <2> QED
    BY <2>1, <2>4 DEF x, z
<1>9. r = IF p.overflow THEN q ELSE p
  BY <1>6 DEF q
<1>10. Sound(r) /\ ~r.overflow /\ rg.size <= r.size /\ Keeps(rg, r, m)
  BY <1>4, <1>5, <1>7, <1>8, <1>9
<1>11. Abstract!Fail
  <2>1. Keeps(rg, r, Last(marks).base)
    BY <1>10 DEF m
  <2> QED
    BY <1>1, <1>10, <2>1, RecoversFails
<1> QED
  BY <1>11 DEF Abstract!Next

\* The program that uses the interpreter runs, and has no values yet.
LEMMA InitAbstract == Init => Abstract!Init
<1> SUFFICES ASSUME Init
             PROVE  Abstract!Init
  OBVIOUS
<1> DEFINE H == [isG |-> TRUE, vararg |-> FALSE]
<1>1. rg.top = 0 /\ frames = <<Host>> /\ marks = <<>>
  BY DEF Init
<1>2. Host.f = H /\ Host.localBase = 0 /\ Host.want = 0 /\ Host.into = 0 /\ Host.tail = FALSE
  BY DEF Host, callFrame, LocalBaseOf
<1> HIDE DEF Host
<1>3. Len(frames) = 1 /\ frames[1] = Host
  BY <1>1
<1>4. Running(rg, frames) = View(rg, Host, 0)
  <2>1. Used(rg, frames, 1) = 0
    BY <1>1, <1>2, <1>3 DEF Used
  <2> QED
    BY <1>3, <2>1 DEF Running, ViewOf
<1>5. Row(rg, 0, 0) = <<>>
  <2>1. 1..0 = {}
    OBVIOUS
  <2> QED
    BY <2>1 DEF Row
<1>6. ExtraOf(rg, Host) = <<>>
  BY <1>2 DEF ExtraOf
<1>7. View(rg, Host, 0) = [f |-> H, locals |-> <<>>, extra |-> <<>>, want |-> 0, into |-> 0, tail |-> FALSE]
  BY <1>2, <1>5, <1>6 DEF View
<1>8. Abstract!Host = [f |-> H, locals |-> <<>>, extra |-> <<>>, want |-> 0, into |-> 0, tail |-> FALSE]
  BY DEF Abstract!Host, Abstract!Entered
<1>9. Callers(rg, frames) = <<>>
  <2>1. 1..Len(frames) - 1 = {}
    BY <1>3
  <2> QED
    BY <2>1 DEF Callers
<1>10. Sps(marks) = <<>>
  <2>1. Len(marks) = 0 /\ 1..0 = {}
    BY <1>1
  <2> QED
    BY <2>1 DEF Sps
<1> QED
  BY <1>4, <1>7, <1>8, <1>9, <1>10, AbstractState DEF Abstract!Init

LEMMA StutterAbstract ==
  ASSUME UNCHANGED vars
  PROVE  UNCHANGED <<CallOf(Len(frames)), [k \in 1..Len(frames) - 1 |-> CallOf(k)],
                     [m \in 1..Len(marks) |-> marks[m].sp]>>
<1>1. rg' = rg /\ frames' = frames /\ marks' = marks
  BY DEF vars
<1> QED
  BY <1>1, AbstractState, AbstractStateNext

LEMMA NextAbstract ==
  ASSUME IInv, Next
  PROVE  Abstract!Next
<1>1. 0..MaxLive \subseteq Nat /\ 0..MaxLive + 1 \subseteq Nat
  BY BoundAssumption
<1>2. Values \subseteq LuaValues
  BY DEF LuaValues
<1>3. CASE \E i \in 0..MaxLive, v \in LuaValues :
             SetRegister(i, v) \/ APIReplace(i, v) \/ APIInsert(i, v)
  <2> PICK i \in 0..MaxLive, v \in LuaValues :
             SetRegister(i, v) \/ APIReplace(i, v) \/ APIInsert(i, v)
    BY <1>3
  <2>1. i \in Nat
    BY <1>1
  <2> QED
    BY <2>1, SetRegisterNext, APIReplaceNext, APIInsertNext
<1>4. CASE \E v \in LuaValues : APIPush(v)
  BY <1>4, APIPushNext
<1>5. CASE \E v \in Values : Error(v)
  BY <1>2, <1>5, ErrorNext
<1>6. CASE \E n \in 0..MaxLive : APISetTop(n) \/ APIRemove(n)
  <2> PICK n \in 0..MaxLive : APISetTop(n) \/ APIRemove(n)
    BY <1>6
  <2>1. n \in Nat
    BY <1>1
  <2> QED
    BY <2>1, APISetTopNext, APIRemoveNext
<1>7. CASE \E k \in 0..MaxLive, f \in Functions, meta \in BOOLEAN :
             \/ TailCallGo(k, f, meta) \/ TailCallLua(k, f, meta)
             \/ \E want \in Wants : Call(k, f, meta, want) \/ PCall(k, f, meta, want)
  <2> PICK k \in 0..MaxLive, f \in Functions, meta \in BOOLEAN :
             \/ TailCallGo(k, f, meta) \/ TailCallLua(k, f, meta)
             \/ \E want \in Wants : Call(k, f, meta, want) \/ PCall(k, f, meta, want)
    BY <1>7
  <2>1. k \in Nat
    BY <1>1
  <2>2. CASE TailCallGo(k, f, meta)
    BY <2>1, <2>2, TailCallGoNext
  <2>3. CASE TailCallLua(k, f, meta)
    BY <2>1, <2>3, TailCallLuaNext
  <2>4. CASE \E want \in Wants : Call(k, f, meta, want) \/ PCall(k, f, meta, want)
    BY <2>1, <2>4, CallNext, PCallNext
  <2> QED
    BY <2>2, <2>3, <2>4
<1>8. CASE \E f \in Functions, x \in Values, into \in 0..MaxLive : Metamethod(f, x, into)
  <2> PICK f \in Functions, x \in Values, into \in 0..MaxLive : Metamethod(f, x, into)
    BY <1>8
  <2>1. into \in Nat
    BY <1>1
  <2> QED
    BY <2>1, MetamethodNext
<1>9. CASE \E k \in 0..MaxLive, n \in Lengths : VarArg(k, n)
  <2> PICK k \in 0..MaxLive, n \in Lengths : VarArg(k, n)
    BY <1>9
  <2>1. k \in Nat
    BY <1>1
  <2> QED
    BY <2>1, VarArgNext
<1>10. CASE \E a, b \in 0..MaxLive + 1 : Return(a, b)
  <2> PICK a \in 0..MaxLive + 1, b \in 0..MaxLive + 1 : Return(a, b)
    BY <1>10
  <2>1. a \in Nat /\ b \in Nat
    BY <1>1
  <2> QED
    BY <2>1, ReturnNext
<1>11. CASE \E n \in 0..MaxLive + 1 : ReturnGo(n)
  <2> PICK n \in 0..MaxLive + 1 : ReturnGo(n)
    BY <1>11
  <2>1. n \in Nat
    BY <1>1
  <2> QED
    BY <2>1, ReturnGoNext
<1>12. CASE RaiseError
  BY <1>12, RaiseErrorNext
<1> QED
  BY <1>3, <1>4, <1>5, <1>6, <1>7, <1>8, <1>9, <1>10, <1>11, <1>12 DEF Next

(* Registers, frames and protected calls do what LuaCalls promises: every  *)
(* function has its own variables and extra arguments, is called with the  *)
(* values its caller passes and returns to it the values it asked for,     *)
(* and an error is caught by the innermost protected call, which finds its *)
(* variables as it left them; whether or not the registry is replaced by a *)
(* larger one, or overflows, on the way.                                   *)
THEOREM RegistryImplementsLuaCalls == Spec => ImplementsLuaCalls
<1>1. Init => Abstract!Init
  BY InitAbstract
<1>2. IInv /\ [Next]_vars =>
        [Abstract!Next]_<<CallOf(Len(frames)), [k \in 1..Len(frames) - 1 |-> CallOf(k)],
                          [m \in 1..Len(marks) |-> marks[m].sp]>>
  BY NextAbstract, StutterAbstract
<1> QED
  BY <1>1, <1>2, Invariant, PTL DEF Spec, ImplementsLuaCalls, Abstract!Spec
=============================================================================
