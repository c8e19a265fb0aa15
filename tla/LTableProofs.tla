---------------------------- MODULE LTableProofs ----------------------------
(***************************************************************************)
(* LTable, for every MaxArrayIndex, every set of keys and values and       *)
(* arrays of every length, beyond MaxArrayIndex too: the hash holds no     *)
(* array key, keys and k2i list it, and the table is a map with a          *)
(* traversal as long as the array fits.                                    *)
(***************************************************************************)
EXTENDS LTable, Integers, SequenceTheorems, WellFoundedInduction, TLAPS

\* Every set of natural numbers has a least element.
LEMMA SmallestExists ==
  ASSUME NEW T, T \subseteq Nat, T # {}
  PROVE  \E x \in T : \A y \in T : x <= y
<1> DEFINE R == OpToRel(<, Nat)
<1>1. IsWellFoundedOn(R, Nat)
  BY NatLessThanWellFounded
<1>2. \A x, y \in Nat : x < y => <<x, y>> \in R
  BY DEF OpToRel
<1> HIDE DEF R
<1>3. PICK x \in T : \A y \in T : ~ (<<y, x>> \in R)
  BY ONLY <1>1, T \subseteq Nat, T # {}, WFMin, ZenonT(60)
<1>4. \A y \in T : ~ (y < x)
  BY <1>2, <1>3, Zenon
<1> QED
  BY <1>4

Inv == TypeOK /\ KeysIndexed

-----------------------------------------------------------------------------
(* Minima and maxima of sets of naturals. *)

LEMMA MinProperties ==
  ASSUME NEW T, T \subseteq Nat, T # {}
  PROVE  Min(T) \in T /\ \A y \in T : Min(T) <= y
BY SmallestExists DEF Min

LEMMA MaxProperties ==
  ASSUME NEW T, NEW n \in Nat, T \subseteq 1 .. n, T # {}
  PROVE  Max(T) \in T /\ \A y \in T : y <= Max(T)
<1> DEFINE R == {n - x : x \in T}
<1>1. R \subseteq Nat /\ R # {}
  OBVIOUS
<1>2. PICK r \in R : \A y \in R : r <= y
  BY <1>1, SmallestExists
<1>3. PICK x \in T : r = n - x
  BY <1>2
<1>4. \A y \in T : y <= x
  <2> TAKE y \in T
  <2>1. n - x <= n - y
    BY <1>2, <1>3
  <2> QED
    BY <2>1, <1>3
<1>5. \E z \in T : \A y \in T : z >= y
  BY <1>3, <1>4
<1> QED
  BY <1>5 DEF Max

-----------------------------------------------------------------------------
(* The helpers. *)

LEMMA KeyTypes ==
  /\ LNil \notin Key /\ LNil \notin Value
  /\ Number \subseteq Key /\ Number \subseteq Int
  /\ \A k : IsArrayKey(k) => k \in Number /\ k \in 1 .. MaxArrayIndex - 1
  /\ MaxArrayIndex \in Nat \ {0} /\ MaxLength \in Nat
  /\ 1 .. MaxArrayIndex - 1 \subseteq Number /\ 1 .. MaxLength \subseteq Number
BY LTableAssumption DEF LTableAssumption, Key, IsArrayKey

LEMMA TableLenType ==
  ASSUME TypeOK
  PROVE  TableLen \in 0 .. Len(array)
<1> DEFINE T == {i \in DOMAIN array : array[i] # LNil}
<1>1. Len(array) \in Nat /\ DOMAIN array = 1 .. Len(array)
  BY LenProperties DEF TypeOK
<1>2. CASE T = {}
  BY <1>1, <1>2 DEF TableLen
<1>3. CASE T # {}
  <2>1. Max(T) \in T
    BY <1>1, <1>3, MaxProperties, SMTT(60)
  <2> QED
    BY <1>1, <1>3, <2>1 DEF TableLen
<1> QED
  BY <1>2, <1>3

\* KeyFrom(p) is the first key of the hash listed at p or later.
LEMMA KeyFromIsFirst ==
  ASSUME Inv, NEW p \in Nat
  PROVE  /\ KeyFrom(p) = LNil => \A k \in DOMAIN hash : k2i[k] < p
         /\ KeyFrom(p) # LNil =>
              /\ KeyFrom(p) \in DOMAIN hash
              /\ p <= k2i[KeyFrom(p)]
              /\ \A k \in DOMAIN hash : p <= k2i[k] => k2i[KeyFrom(p)] <= k2i[k]
<1> DEFINE live == {i \in p .. Len(keys) - 1 : RawGetH(keys[i + 1]) # LNil}
<1>1. /\ Len(keys) \in Nat /\ DOMAIN keys = 1 .. Len(keys)
      /\ \A i \in 1 .. Len(keys) : keys[i] \in Key
  BY LenProperties, ElementOfSeq DEF Inv, TypeOK
<1>2. \A k \in Key : RawGetH(k) # LNil <=> k \in DOMAIN hash
  BY KeyTypes DEF RawGetH, Inv, TypeOK
<1>3. ASSUME NEW k \in DOMAIN hash
      PROVE  k2i[k] \in 0 .. Len(keys) - 1 /\ keys[k2i[k] + 1] = k
  <2>1. PICK i \in DOMAIN keys : k = keys[i]
    BY DEF Inv, KeysIndexed
  <2>2. k2i[k] = i - 1
    BY <2>1 DEF Inv, KeysIndexed
  <2> QED
    BY <1>1, <2>1, <2>2
<1>4. \A k \in DOMAIN hash : p <= k2i[k] => k2i[k] \in live
  <2> TAKE k \in DOMAIN hash
  <2> HAVE p <= k2i[k]
  <2>1. k \in Key /\ RawGetH(k) # LNil
    BY <1>2 DEF Inv, TypeOK
  <2>2. k2i[k] \in p .. Len(keys) - 1
    BY <1>1, <1>3
  <2> QED
    BY <1>3, <2>1, <2>2
<1>5. CASE live = {}
  <2>1. KeyFrom(p) = LNil
    BY <1>5 DEF KeyFrom
  <2>2. \A k \in DOMAIN hash : k2i[k] < p
    <3> HIDE DEF live
    <3> QED
      BY <1>1, <1>3, <1>4, <1>5
  <2> QED
    BY <2>1, <2>2
<1>6. CASE live # {}
  <2>1. live \subseteq Nat
    BY <1>1
  <2>2. Min(live) \in live /\ \A i \in live : Min(live) <= i
    <3> HIDE DEF live
    <3> QED
      BY <2>1, <1>6, MinProperties
  <2>3. KeyFrom(p) = keys[Min(live) + 1]
    BY <1>6 DEF KeyFrom
  <2>4. /\ Min(live) \in p .. Len(keys) - 1
        /\ Min(live) + 1 \in DOMAIN keys
        /\ RawGetH(KeyFrom(p)) # LNil
    BY <1>1, <2>2, <2>3
  <2>5. KeyFrom(p) \in DOMAIN hash
    BY <1>1, <1>2, <2>3, <2>4
  <2>6. k2i[KeyFrom(p)] = Min(live)
    <3>1. k2i[keys[Min(live) + 1]] = (Min(live) + 1) - 1
      BY <2>4 DEF Inv, KeysIndexed
    <3> QED
      BY <1>1, <2>3, <2>4, <3>1
  <2>7. KeyFrom(p) # LNil
    BY <2>5, KeyTypes DEF Inv, TypeOK
  <2> HIDE DEF live
  <2> QED
    BY <1>1, <1>4, <2>2, <2>4, <2>5, <2>6, <2>7
<1> QED
  BY <1>5, <1>6

LEMMA PaddingType ==
  ASSUME NEW n \in Nat
  PROVE  Padding(n) \in Seq(LValue) /\ Len(Padding(n)) = n /\ \A i \in 1 .. n : Padding(n)[i] = LNil
<1>1. \A i \in 1 .. n : LNil \in LValue
  BY DEF LValue
<1>2. Padding(n) \in Seq(LValue)
  BY DEF Padding, LValue
<1> QED
  BY <1>2 DEF Padding
-----------------------------------------------------------------------------
(* What writing does to the table, seen as a map. *)

Content == [k \in Key |-> RawGet(k)]

\* The part of Inv that is about the table alone.
TableInv ==
  /\ array \in Seq(LValue)
  /\ DOMAIN array \subseteq Number
  /\ DOMAIN hash \subseteq {k \in Key : ~IsArrayKey(k)}
  /\ \A k \in DOMAIN hash : hash[k] \in Value
  /\ keys \in Seq(Key)
  /\ KeysIndexed

\* Where a traversal is stays valid.
KeepsPlaces ==
  /\ Fits' <=> Fits
  /\ Len(array) <= Len(array')
  /\ \A k \in DOMAIN k2i : k \in DOMAIN k2i' /\ k2i'[k] = k2i[k]

LEMMA SetArrayWrites ==
  ASSUME TableInv, NEW i \in 1 .. MaxArrayIndex - 1, NEW v \in LValue, SetArray(i, v)
  PROVE  /\ TableInv'
         /\ Content' = [Content EXCEPT ![i] = v]
         /\ KeepsPlaces
<1>1. /\ Len(array) \in Nat /\ DOMAIN array = 1 .. Len(array)
      /\ \A j \in 1 .. Len(array) : array[j] \in LValue
  BY LenProperties, ElementOfSeq DEF TableInv
<1>2. /\ array' \in Seq(LValue)
      /\ Len(array') = IF i <= Len(array) THEN Len(array) ELSE i
      /\ \A j \in 1 .. Len(array') :
           array'[j] = IF j = i THEN v ELSE IF j <= Len(array) THEN array[j] ELSE LNil
  <2>1. CASE i <= Len(array)
    <3>1. i \in 1 .. Len(array) /\ array' = [array EXCEPT ![i] = v]
      BY <1>1, <2>1 DEF SetArray
    <3> QED
      BY <1>1, <2>1, <3>1, ExceptSeq DEF TableInv
  <2>2. CASE ~(i <= Len(array))
    <3> DEFINE n == i - Len(array) - 1
               t == Append(Padding(n), v)
    <3>1. n \in Nat
      BY <1>1, <2>2, KeyTypes
    <3>2. /\ Padding(n) \in Seq(LValue) /\ Len(Padding(n)) = n
          /\ \A j \in 1 .. n : Padding(n)[j] = LNil
      BY <3>1, PaddingType
    <3>3. /\ t \in Seq(LValue) /\ Len(t) = n + 1
          /\ \A j \in 1 .. n : t[j] = LNil
          /\ t[n + 1] = v
      <4> HIDE DEF n
      <4> QED
        BY <3>1, <3>2, AppendProperties
    <3>4. array' = array \o t
      BY <2>2 DEF SetArray
    <3>5. /\ array \o t \in Seq(LValue)
          /\ Len(array \o t) = Len(array) + Len(t)
          /\ \A j \in 1 .. Len(array) + Len(t) : (array \o t)[j] =
                IF j <= Len(array) THEN array[j] ELSE t[j - Len(array)]
      <4> HIDE DEF t
      <4> QED
        BY <3>3, ConcatProperties, SMTT(60) DEF TableInv
    <3>6. Len(array) + Len(t) = i
      BY <1>1, <3>3, KeyTypes
    <3> HIDE DEF t
    <3>7. ASSUME NEW j \in 1 .. i
          PROVE  array'[j] = IF j = i THEN v ELSE IF j <= Len(array) THEN array[j] ELSE LNil
      <4>1. CASE j <= Len(array)
        BY <1>1, <2>2, <3>4, <3>5, <3>6, <4>1
      <4>2. CASE j > Len(array) /\ j < i
        <5>1. j - Len(array) \in 1 .. n
          BY <1>1, <4>2
        <5> QED
          BY <1>1, <3>3, <3>4, <3>5, <3>6, <4>2, <5>1, SMTT(60)
      <4>3. CASE j = i
        <5>1. j - Len(array) = n + 1
          BY <1>1, <4>3
        <5> QED
          BY <1>1, <2>2, <3>3, <3>4, <3>5, <3>6, <4>3, <5>1
      <4> QED
        BY <1>1, <4>1, <4>2, <4>3
    <3> QED
      BY <1>1, <2>2, <3>4, <3>5, <3>6, <3>7
  <2> QED
    BY <2>1, <2>2
<1>3. UNCHANGED <<hash, keys, k2i>>
  BY DEF SetArray
<1>4. /\ Len(array') \in Nat /\ Len(array) <= Len(array') /\ (Fits' <=> Fits)
      /\ DOMAIN array' \subseteq Number
  <2>1. MaxArrayIndex \in Nat /\ i \in Number /\ 1 .. Len(array) \subseteq Number
    BY <1>1, KeyTypes DEF TableInv
  <2>2. Len(array') \in Nat /\ Len(array) <= Len(array') /\ (Fits' <=> Fits)
    BY <1>1, <1>2, <2>1 DEF Fits
  <2>3. DOMAIN array' = 1 .. Len(array')
    BY <1>2, LenProperties
  <2>4. 1 .. Len(array') \subseteq Number
    BY <1>1, <1>2, <2>1, KeyTypes
  <2> QED
    BY <2>2, <2>3, <2>4
<1>5. TableInv'
  BY <1>2, <1>3, <1>4 DEF TableInv, KeysIndexed, IsArrayKey
<1>6. ASSUME NEW k \in Key
      PROVE  RawGet(k)' = IF k = i THEN v ELSE RawGet(k)
  <2>1. CASE IsArrayKey(k)
    BY <1>1, <1>2, <1>4, <2>1, KeyTypes DEF RawGet, IsArrayKey
  <2>2. CASE ~IsArrayKey(k)
    <3>1. k # i
      BY <2>2 DEF IsArrayKey
    <3> QED
      BY <1>3, <2>2, <3>1 DEF RawGet, RawGetH, IsArrayKey
  <2> QED
    BY <2>1, <2>2
<1>7. Content' = [Content EXCEPT ![i] = v]
  BY <1>6 DEF Content
<1>8. KeepsPlaces
  BY <1>3, <1>4 DEF KeepsPlaces
<1> QED
  BY <1>5, <1>7, <1>8

LEMMA RawSetHWrites ==
  ASSUME TableInv, NEW k \in Key, ~IsArrayKey(k), NEW v \in LValue, RawSetH(k, v)
  PROVE  /\ TableInv'
         /\ Content' = [Content EXCEPT ![k] = v]
         /\ KeepsPlaces
<1>1. Len(keys) \in Nat /\ DOMAIN keys = 1 .. Len(keys) /\ Len(array) \in Nat
  BY LenProperties DEF TableInv
<1>2. /\ keys' \in Seq(Key)
      /\ KeysIndexed'
      /\ \A x \in DOMAIN k2i : x \in DOMAIN k2i' /\ k2i'[x] = k2i[x]
  <2>1. CASE UNCHANGED <<keys, k2i>>
    <3>1. DOMAIN hash' \subseteq DOMAIN k2i
      BY <2>1 DEF RawSetH, TableInv, KeysIndexed
    <3> QED
      BY <2>1, <3>1 DEF TableInv, KeysIndexed
  <2>2. CASE v # LNil /\ k \notin DOMAIN k2i
    <3>1. /\ keys' = Append(keys, k)
          /\ k2i' = [x \in DOMAIN k2i \cup {k} |-> IF x = k THEN Len(keys) ELSE k2i[x]]
          /\ DOMAIN hash' = DOMAIN hash \cup {k}
      BY <2>2 DEF RawSetH
    <3>2. /\ keys' \in Seq(Key) /\ Len(keys') = Len(keys) + 1
          /\ \A i \in 1 .. Len(keys) : keys'[i] = keys[i]
          /\ keys'[Len(keys) + 1] = k
      BY <3>1, AppendProperties DEF TableInv
    <3>3. DOMAIN keys' = 1 .. Len(keys) + 1
      BY <3>2, LenProperties
    <3>4. \A i \in 1 .. Len(keys) : keys[i] \in DOMAIN k2i /\ keys[i] # k /\ k2i[keys[i]] = i - 1
      BY <1>1, <2>2 DEF TableInv, KeysIndexed
    <3>5. ASSUME NEW i \in DOMAIN keys'
          PROVE  k2i'[keys'[i]] = i - 1
      <4>1. CASE i = Len(keys) + 1
        BY <1>1, <3>1, <3>2, <4>1
      <4>2. CASE i \in 1 .. Len(keys)
        BY <1>1, <3>1, <3>2, <3>4, <4>2
      <4> QED
        BY <1>1, <3>3, <4>1, <4>2
    <3>6. DOMAIN k2i' = {keys'[i] : i \in DOMAIN keys'}
      <4>1. DOMAIN k2i' = DOMAIN k2i \cup {k}
        BY <3>1
      <4>2. {keys'[i] : i \in DOMAIN keys'} = {keys[i] : i \in DOMAIN keys} \cup {k}
        BY <1>1, <3>2, <3>3
      <4> QED
        BY <4>1, <4>2 DEF TableInv, KeysIndexed
    <3>7. DOMAIN hash' \subseteq DOMAIN k2i'
      BY <3>1 DEF TableInv, KeysIndexed
    <3>8. \A x \in DOMAIN k2i : x \in DOMAIN k2i' /\ k2i'[x] = k2i[x]
      BY <2>2, <3>1
    <3> QED
      BY <3>2, <3>5, <3>6, <3>7, <3>8 DEF KeysIndexed
  <2> QED
    BY <2>1, <2>2 DEF RawSetH
<1>3. array' = array
  BY DEF RawSetH
<1>4. /\ DOMAIN hash' \subseteq {x \in Key : ~IsArrayKey(x)}
      /\ \A x \in DOMAIN hash' : hash'[x] \in Value
  BY DEF RawSetH, TableInv, LValue
<1>5. TableInv'
  BY <1>2, <1>3, <1>4 DEF TableInv, IsArrayKey
<1>6. ASSUME NEW x \in Key
      PROVE  RawGet(x)' = IF x = k THEN v ELSE RawGet(x)
  <2>1. CASE IsArrayKey(x)
    BY <1>3, <2>1 DEF RawGet, IsArrayKey
  <2>2. CASE ~IsArrayKey(x)
    <3>1. RawGetH(x)' = IF x = k THEN v ELSE RawGetH(x)
      BY DEF RawSetH, RawGetH
    <3> QED
      BY <2>2, <3>1 DEF RawGet, IsArrayKey
  <2> QED
    BY <2>1, <2>2
<1>7. Content' = [Content EXCEPT ![k] = v]
  BY <1>6 DEF Content
<1> QED
  BY <1>1, <1>2, <1>3, <1>5, <1>7 DEF KeepsPlaces, Fits

LEMMA RawSetWrites ==
  ASSUME TableInv, NEW k \in Key, NEW v \in LValue, RawSet(k, v)
  PROVE  /\ TableInv'
         /\ Content' = [Content EXCEPT ![k] = v]
         /\ KeepsPlaces
<1>1. CASE IsArrayKey(k)
  BY <1>1, SetArrayWrites, KeyTypes DEF RawSet
<1>2. CASE ~IsArrayKey(k)
  BY <1>2, RawSetHWrites DEF RawSet
<1> QED
  BY <1>1, <1>2

\* Another array instead of array.
LEMMA ArrayReplaced ==
  ASSUME TableInv, UNCHANGED <<hash, keys, k2i>>,
         array' \in Seq(LValue), DOMAIN array' \subseteq Number
  PROVE  /\ TableInv'
         /\ Content' = [k \in Key |-> IF ~IsArrayKey(k) THEN Content[k]
                                     ELSE IF k <= Len(array') THEN array'[k] ELSE LNil]
<1>1. TableInv'
  BY DEF TableInv, KeysIndexed, IsArrayKey
<1>2. \A k \in Key : RawGet(k)' = IF ~IsArrayKey(k) THEN RawGet(k)
                                  ELSE IF k <= Len(array') THEN array'[k] ELSE LNil
  BY DEF RawGet, RawGetH, IsArrayKey
<1> QED
  BY <1>1, <1>2 DEF Content

LEMMA ArrayTypes ==
  ASSUME TableInv
  PROVE  /\ Len(array) \in Nat /\ DOMAIN array = 1 .. Len(array)
         /\ \A i \in 1 .. Len(array) : array[i] \in LValue /\ i \in Number /\ i \in Key
<1>1. Len(array) \in Nat /\ DOMAIN array = 1 .. Len(array)
  BY LenProperties DEF TableInv
<1>2. \A i \in 1 .. Len(array) : array[i] \in LValue
  BY <1>1, ElementOfSeq DEF TableInv
<1>3. \A i \in 1 .. Len(array) : i \in Number /\ i \in Key
  BY <1>1, KeyTypes DEF TableInv
<1> QED
  BY <1>1, <1>2, <1>3

\* An array that fits is the part of the map that the array keys make.
LEMMA ArrayContent ==
  ASSUME TableInv, Fits
  PROVE  /\ Len(array) \in Nat
         /\ \A i \in 1 .. Len(array) : array[i] \in LValue /\ i \in Key /\ IsArrayKey(i) /\ Content[i] = array[i]
         /\ \A k \in Key : IsArrayKey(k) /\ k \notin 1 .. Len(array) => Content[k] = LNil
<1>1. Len(array) \in Nat /\ \A i \in 1 .. Len(array) : array[i] \in LValue /\ i \in Key
  BY ArrayTypes
<1>2. ASSUME NEW i \in 1 .. Len(array)
      PROVE  i \in Key /\ IsArrayKey(i) /\ Content[i] = array[i]
  <2>1. i \in 1 .. MaxArrayIndex - 1
    BY <1>1, KeyTypes DEF Fits
  <2> QED
    BY <1>1, <2>1 DEF Content, RawGet, IsArrayKey
<1>3. ASSUME NEW k \in Key, IsArrayKey(k), k \notin 1 .. Len(array)
      PROVE  Content[k] = LNil
  BY <1>1, <1>3, KeyTypes DEF Content, RawGet
<1> QED
  BY <1>1, <1>2, <1>3

\* Writing behind the array keys: the array is longer than them, or gets so.
LEMMA PushPastKeys ==
  ASSUME TableInv, NEW v \in LValue, NEW p \in 1 .. Len(array) + 1, SetArray(p, v),
         HasRoom \/ p <= Len(array), ~IsArrayKey(p)
  PROVE  /\ TableInv'
         /\ ~Fits \/ ~Fits'
         /\ UNCHANGED <<hash, keys, k2i>>
<1> DEFINE n == Len(array)
<1>1. n \in Nat /\ DOMAIN array = 1 .. n /\ p \in Int /\ MaxArrayIndex <= p
  BY ArrayTypes, KeyTypes DEF IsArrayKey
<1>2. /\ array' \in Seq(LValue) /\ DOMAIN array' \subseteq Number
      /\ p <= Len(array') /\ Len(array') \in Nat
  <2>1. CASE p <= n
    <3>1. array' = [array EXCEPT ![p] = v] /\ p \in 1 .. n
      BY <1>1, <2>1 DEF SetArray
    <3>2. array' \in Seq(LValue) /\ Len(array') = n
      BY <1>1, <3>1, ExceptSeq DEF TableInv
    <3>3. DOMAIN array' = DOMAIN array
      BY <3>1
    <3> QED
      BY <1>1, <2>1, <3>2, <3>3 DEF TableInv
  <2>2. CASE ~(p <= n)
    <3>1. p = n + 1 /\ p - Len(array) - 1 = 0
      BY <1>1, <2>2
    <3>2. Padding(0) \in Seq(LValue) /\ Len(Padding(0)) = 0
      BY PaddingType
    <3>3. Append(Padding(0), v) \in Seq(LValue) /\ Len(Append(Padding(0), v)) = 1
      BY <3>2, AppendProperties
    <3>4. array' = array \o Append(Padding(0), v)
      BY <2>2, <3>1 DEF SetArray
    <3>5. array' \in Seq(LValue) /\ Len(array') = n + 1
      BY <3>3, <3>4, ConcatProperties DEF TableInv
    <3>6. DOMAIN array' = 1 .. n + 1
      BY <3>5, LenProperties
    <3>7. n + 1 \in 1 .. MaxLength
      BY <1>1, <2>2, <3>1, KeyTypes DEF HasRoom
    <3>8. 1 .. n + 1 \subseteq Number
      BY <1>1, <3>7, KeyTypes
    <3> QED
      BY <1>1, <3>1, <3>5, <3>6, <3>8
  <2> QED
    BY <2>1, <2>2
<1>3. UNCHANGED <<hash, keys, k2i>>
  BY DEF SetArray
<1>4. TableInv'
  BY <1>2, <1>3, ArrayReplaced
<1>5. ~Fits'
  BY <1>1, <1>2, KeyTypes DEF Fits
<1> QED
  BY <1>3, <1>4, <1>5

LEMMA InsertedElements ==
  ASSUME TableInv, NEW i \in 1 .. Len(array), NEW v \in LValue, array' = Inserted(i, v)
  PROVE  /\ array' \in Seq(LValue)
         /\ Len(array') = Len(array) + 1
         /\ \A j \in 1 .. Len(array) + 1 :
              array'[j] = IF j < i THEN array[j] ELSE IF j = i THEN v ELSE array[j - 1]
<1> DEFINE a == SubSeq(array, 1, i - 1)
           b == SubSeq(array, i, Len(array))
<1>1. Len(array) \in Nat /\ i \in Int /\ \A j \in 1 .. Len(array) : array[j] \in LValue
  BY ArrayTypes
<1>2. /\ a \in Seq(LValue) /\ Len(a) = i - 1
      /\ \A j \in 1 .. i - 1 : a[j] = array[j]
  <2>1. i - 1 \in Int /\ \A j \in 1 .. i - 1 : array[j] \in LValue
    BY <1>1
  <2>2. /\ a \in Seq(LValue) /\ Len(a) = IF 1 <= i - 1 THEN (i - 1) - 1 + 1 ELSE 0
        /\ \A j \in 1 .. (i - 1) - 1 + 1 : a[j] = array[1 + j - 1]
    BY <2>1, SubSeqProperties, Z3
  <2> HIDE DEF a
  <2> QED
    BY <1>1, <2>2
<1>3. /\ b \in Seq(LValue) /\ Len(b) = Len(array) - i + 1
      /\ \A j \in 1 .. Len(array) - i + 1 : b[j] = array[i + j - 1]
  <2>1. Len(array) \in Int /\ \A j \in i .. Len(array) : array[j] \in LValue
    BY <1>1
  <2>2. /\ b \in Seq(LValue) /\ Len(b) = IF i <= Len(array) THEN Len(array) - i + 1 ELSE 0
        /\ \A j \in 1 .. Len(array) - i + 1 : b[j] = array[i + j - 1]
    BY <1>1, <2>1, SubSeqProperties, Z3
  <2> HIDE DEF b
  <2> QED
    BY <1>1, <2>2
<1> DEFINE c == a \o <<v>>
<1>4. array' = c \o b
  BY DEF Inserted
<1> HIDE DEF a, b
<1>5. /\ c \in Seq(LValue) /\ Len(c) = i
      /\ \A j \in 1 .. i - 1 : c[j] = array[j]
      /\ c[i] = v
  <2> DEFINE t == <<v>>
  <2>1. t \in Seq(LValue) /\ Len(t) = 1 /\ t[1] = v
    OBVIOUS
  <2> HIDE DEF t
  <2>2. /\ c \in Seq(LValue) /\ Len(c) = Len(a) + Len(t)
        /\ \A j \in 1 .. Len(a) + Len(t) : c[j] = IF j <= Len(a) THEN a[j] ELSE t[j - Len(a)]
    BY <1>2, <2>1, ConcatProperties DEF t
  <2> HIDE DEF c
  <2>3. Len(c) = i /\ \A j \in 1 .. i : c[j] = IF j <= i - 1 THEN a[j] ELSE t[j - (i - 1)]
    BY <1>1, <1>2, <2>1, <2>2
  <2>4. c[i] = v
    <3>1. i \in 1 .. i /\ ~(i <= i - 1) /\ i - (i - 1) = 1
      BY <1>1
    <3> QED
      BY <2>1, <2>3, <3>1
  <2>5. \A j \in 1 .. i - 1 : c[j] = array[j]
    BY <1>1, <1>2, <2>3
  <2> QED
    BY <2>2, <2>3, <2>4, <2>5
<1> HIDE DEF c
<1>6. /\ array' \in Seq(LValue) /\ Len(array') = Len(c) + Len(b)
      /\ \A j \in 1 .. Len(c) + Len(b) : array'[j] = IF j <= Len(c) THEN c[j] ELSE b[j - Len(c)]
  <2>1. c \in Seq(LValue) /\ b \in Seq(LValue)
    BY <1>3, <1>5
  <2>2. /\ c \o b \in Seq(LValue) /\ Len(c \o b) = Len(c) + Len(b)
        /\ \A j \in 1 .. Len(c) + Len(b) : (c \o b)[j] = IF j <= Len(c) THEN c[j] ELSE b[j - Len(c)]
    BY <2>1, ConcatProperties
  <2> QED
    BY <1>4, <2>2
<1>7. Len(array') = Len(array) + 1
  BY <1>1, <1>3, <1>5, <1>6
<1>8. ASSUME NEW j \in 1 .. Len(array) + 1
      PROVE  array'[j] = IF j < i THEN array[j] ELSE IF j = i THEN v ELSE array[j - 1]
  <2>1. array'[j] = IF j <= i THEN c[j] ELSE b[j - i]
    BY <1>5, <1>6, <1>7
  <2>2. CASE j > i
    <3>1. j - i \in 1 .. Len(array) - i + 1 /\ i + (j - i) - 1 = j - 1
      BY <1>1, <2>2
    <3>2. b[j - i] = array[i + (j - i) - 1]
      BY <1>3, <3>1
    <3> QED
      BY <1>1, <2>1, <2>2, <3>1, <3>2
  <2>3. CASE j <= i
    BY <1>1, <1>5, <2>1, <2>3
  <2> QED
    BY <1>1, <2>2, <2>3
<1> QED
  BY <1>6, <1>7, <1>8

\* However long the array gets, the table stays one.
LEMMA InsertedKeepsTable ==
  ASSUME TableInv, NEW i \in 1 .. Len(array), NEW v \in LValue, HasRoom,
         array' = Inserted(i, v), UNCHANGED <<hash, keys, k2i>>
  PROVE  TableInv'
<1>1. array' \in Seq(LValue) /\ Len(array') = Len(array) + 1
  BY InsertedElements
<1>2. DOMAIN array' = 1 .. Len(array) + 1
  BY <1>1, LenProperties
<1>3. Len(array) + 1 \in 1 .. MaxLength
  BY ArrayTypes, KeyTypes DEF HasRoom
<1>4. DOMAIN array' \subseteq Number
  BY <1>2, <1>3, KeyTypes
<1> QED
  BY <1>1, <1>4, ArrayReplaced

LEMMA InsertedShifts ==
  ASSUME TableInv, NEW i \in 1 .. Len(array), NEW v \in LValue, IsArrayKey(Len(array) + 1),
         array' = Inserted(i, v), UNCHANGED <<hash, keys, k2i>>, TableInv'
  PROVE  /\ Fits /\ Fits'
         /\ Content' = [k \in Key |-> IF k = i THEN v
                                     ELSE IF k \in i + 1 .. Len(array) + 1 THEN Content[k - 1]
                                     ELSE Content[k]]
<1>1. Len(array) \in Nat /\ i \in Int /\ MaxArrayIndex \in Nat
  BY ArrayTypes, KeyTypes
<1>2. Fits
  BY <1>1 DEF Fits, IsArrayKey
<1>6. array' \in Seq(LValue)
  BY InsertedElements
<1>7. Len(array') = Len(array) + 1
  BY InsertedElements
<1>8. ASSUME NEW j \in 1 .. Len(array) + 1
      PROVE  array'[j] = IF j < i THEN array[j] ELSE IF j = i THEN v ELSE array[j - 1]
  BY InsertedElements
<1>9. Len(array') < MaxArrayIndex /\ DOMAIN array' \subseteq Number
  BY <1>1, <1>7 DEF IsArrayKey, TableInv
<1>10. ASSUME NEW k \in Key
       PROVE  Content'[k] = IF k = i THEN v
                            ELSE IF k \in i + 1 .. Len(array) + 1 THEN Content[k - 1]
                            ELSE Content[k]
  <2>1. Content'[k] = IF ~IsArrayKey(k) THEN Content[k]
                      ELSE IF k <= Len(array') THEN array'[k] ELSE LNil
    BY <1>6, <1>9, ArrayReplaced
  <2>2. CASE ~IsArrayKey(k)
    <3>1. k \notin 1 .. Len(array) + 1
      BY <1>1, <1>7, <1>9, <2>2, KeyTypes DEF IsArrayKey
    <3> QED
      BY <1>1, <2>1, <2>2, <3>1
  <2>3. CASE IsArrayKey(k) /\ k <= Len(array) + 1
    <3>1. k \in 1 .. Len(array) + 1
      BY <1>1, <2>3, KeyTypes
    <3>2. Content'[k] = array'[k]
      BY <1>7, <2>1, <2>3
    <3>3. k < i => k \in 1 .. Len(array)
      BY <1>1, <3>1
    <3>4. k > i => k - 1 \in 1 .. Len(array)
      BY <1>1, <3>1
    <3> QED
      BY <1>1, <1>2, <1>8, <3>1, <3>2, <3>3, <3>4, ArrayContent
  <2>4. CASE IsArrayKey(k) /\ ~(k <= Len(array) + 1)
    <3>1. k \in Int /\ k \notin 1 .. Len(array) + 1 /\ k # i
      BY <1>1, <2>4, KeyTypes
    <3>2. Content[k] = LNil
      BY <1>1, <1>2, <2>4, <3>1, ArrayContent
    <3> QED
      BY <1>1, <1>7, <2>1, <2>4, <3>1, <3>2
  <2> QED
    BY <2>2, <2>3, <2>4
<1>11. DOMAIN Content' = Key
  BY DEF Content
<1>12. Content' = [k \in Key |-> Content'[k]]
  BY DEF Content
<1>13. Fits'
  BY <1>9 DEF Fits
<1> QED
  BY <1>2, <1>10, <1>12, <1>13, Zenon

LEMMA RemovedElements ==
  ASSUME TableInv, array # <<>>, NEW pos \in Int, pos <= Len(array), array' = Removed(pos)
  PROVE  LET i == IF pos < 1 THEN Len(array) ELSE pos
         IN  /\ i \in 1 .. Len(array)
             /\ array' \in Seq(LValue)
             /\ Len(array') = Len(array) - 1
             /\ \A j \in 1 .. Len(array) - 1 :
                  array'[j] = IF j < i THEN array[j] ELSE array[j + 1]
<1> DEFINE i == IF pos < 1 THEN Len(array) ELSE pos
           n == Len(array)
<1>1. /\ n \in Nat \ {0}
      /\ \A j \in 1 .. n : array[j] \in LValue
  BY ArrayTypes, EmptySeq DEF TableInv
<1>2. i \in 1 .. n
  BY <1>1
<1>3. /\ array' \in Seq(LValue)
      /\ Len(array') = n - 1
      /\ \A j \in 1 .. n - 1 : array'[j] = IF j < i THEN array[j] ELSE array[j + 1]
  <2>1. CASE pos < 1 \/ pos = n
    <3>1. array' = SubSeq(array, 1, n - 1) /\ i = n
      BY <1>1, <2>1 DEF Removed
    <3>2. n - 1 \in Int /\ \A j \in 1 .. n - 1 : array[j] \in LValue
      BY <1>1
    <3>3. /\ SubSeq(array, 1, n - 1) \in Seq(LValue)
          /\ Len(SubSeq(array, 1, n - 1)) = IF 1 <= n - 1 THEN (n - 1) - 1 + 1 ELSE 0
          /\ \A j \in 1 .. (n - 1) - 1 + 1 : SubSeq(array, 1, n - 1)[j] = array[1 + j - 1]
      BY <3>2, SubSeqProperties, Z3
    <3> HIDE DEF i, n
    <3> QED
      BY <1>1, <3>1, <3>3
  <2>2. CASE ~(pos < 1 \/ pos = n)
    <3> DEFINE a == SubSeq(array, 1, pos - 1)
               b == SubSeq(array, pos + 1, n)
    <3>1. array' = a \o b /\ i = pos /\ pos \in 1 .. n - 1
      <4>1. array' = a \o b
        BY <2>2, Zenon DEF Removed
      <4> HIDE DEF a, b
      <4> QED
        BY <1>1, <2>2, <4>1
    <3>2. /\ \A j \in 1 .. pos - 1 : array[j] \in LValue
          /\ \A j \in pos + 1 .. n : array[j] \in LValue
          /\ pos - 1 \in Int /\ pos + 1 \in Int /\ n \in Int
      BY <1>1, <3>1
    <3>3. /\ a \in Seq(LValue)
          /\ Len(a) = IF 1 <= pos - 1 THEN (pos - 1) - 1 + 1 ELSE 0
          /\ \A j \in 1 .. (pos - 1) - 1 + 1 : a[j] = array[1 + j - 1]
      BY <3>2, SubSeqProperties, Z3
    <3>4. /\ b \in Seq(LValue)
          /\ Len(b) = IF pos + 1 <= n THEN n - (pos + 1) + 1 ELSE 0
          /\ \A j \in 1 .. n - (pos + 1) + 1 : b[j] = array[pos + 1 + j - 1]
      BY <3>2, SubSeqProperties, Z3
    <3> HIDE DEF a, b, i, n
    <3>5. Len(a) = pos - 1 /\ \A j \in 1 .. pos - 1 : a[j] = array[j]
      BY <3>1, <3>3, <1>1
    <3>6. Len(b) = n - pos /\ \A j \in 1 .. n - pos : b[j] = array[pos + j]
      BY <3>1, <3>4, <1>1
    <3>7. /\ array' \in Seq(LValue) /\ Len(array') = Len(a) + Len(b)
          /\ \A j \in 1 .. Len(a) + Len(b) : array'[j] = IF j <= Len(a) THEN a[j] ELSE b[j - Len(a)]
      BY <3>1, <3>3, <3>4, ConcatProperties, SMTT(60)
    <3>8. Len(array') = n - 1
      BY <1>1, <3>1, <3>5, <3>6, <3>7
    <3>9. ASSUME NEW j \in 1 .. n - 1
          PROVE  array'[j] = IF j < pos THEN array[j] ELSE array[j + 1]
      <4>1. array'[j] = IF j <= pos - 1 THEN a[j] ELSE b[j - (pos - 1)]
        BY <3>5, <3>7, <3>8, SMTT(60)
      <4>2. CASE j < pos
        BY <1>1, <3>1, <3>5, <4>1, <4>2
      <4>3. CASE ~(j < pos)
        <5>1. j - (pos - 1) \in 1 .. n - pos /\ pos + (j - (pos - 1)) = j + 1
          BY <1>1, <3>1, <4>3
        <5>2. b[j - (pos - 1)] = array[pos + (j - (pos - 1))]
          BY <3>6, <5>1
        <5> QED
          BY <1>1, <3>1, <4>1, <4>3, <5>1, <5>2
      <4> QED
        BY <4>2, <4>3
    <3> QED
      BY <3>1, <3>7, <3>8, <3>9, SMTT(60)
  <2> QED
    BY <2>1, <2>2
<1> QED
  BY <1>2, <1>3

LEMMA RemovedKeepsTable ==
  ASSUME TableInv, array # <<>>, NEW pos \in Int, pos <= Len(array),
         array' = Removed(pos), UNCHANGED <<hash, keys, k2i>>
  PROVE  TableInv' /\ (Fits => Fits')
<1>1. array' \in Seq(LValue) /\ Len(array') = Len(array) - 1
  BY RemovedElements
<1>2. DOMAIN array' = 1 .. Len(array) - 1
  BY <1>1, LenProperties
<1>3. DOMAIN array' \subseteq Number
  BY <1>2, ArrayTypes
<1>4. TableInv'
  BY <1>1, <1>3, ArrayReplaced
<1>5. Fits => Fits'
  BY <1>1, ArrayTypes, KeyTypes DEF Fits
<1> QED
  BY <1>4, <1>5

LEMMA RemovedShifts ==
  ASSUME TableInv, Fits, array # <<>>, NEW pos \in Int, pos <= Len(array),
         array' = Removed(pos), UNCHANGED <<hash, keys, k2i>>
  PROVE  LET i == IF pos < 1 THEN Len(array) ELSE pos
         IN  /\ i \in 1 .. Len(array)
             /\ Content' = [k \in Key |-> IF k = Len(array) THEN LNil
                                         ELSE IF k \in i .. Len(array) - 1 THEN Content[k + 1]
                                         ELSE Content[k]]
<1> DEFINE i == IF pos < 1 THEN Len(array) ELSE pos
           n == Len(array)
<1>1. /\ n \in Nat \ {0} /\ n < MaxArrayIndex
      /\ \A j \in 1 .. n : array[j] \in LValue
  BY ArrayContent, EmptySeq DEF TableInv, Fits
<1>2. i \in 1 .. n
  BY <1>1
<1>3. /\ array' \in Seq(LValue)
      /\ Len(array') = n - 1
      /\ \A j \in 1 .. n - 1 : array'[j] = IF j < i THEN array[j] ELSE array[j + 1]
  BY RemovedElements
<1> HIDE DEF i
<1>4. DOMAIN array' \subseteq Number
  BY RemovedKeepsTable DEF TableInv
<1>5. ASSUME NEW k \in Key
      PROVE  Content'[k] = IF k = n THEN LNil
                           ELSE IF k \in i .. n - 1 THEN Content[k + 1]
                           ELSE Content[k]
  <2>1. Content'[k] = IF ~IsArrayKey(k) THEN Content[k]
                      ELSE IF k <= Len(array') THEN array'[k] ELSE LNil
    BY <1>3, <1>4, ArrayReplaced
  <2>2. CASE ~IsArrayKey(k)
    <3>1. k \notin 1 .. n
      BY <1>1, <2>2, KeyTypes DEF IsArrayKey
    <3>2. k # n /\ k \notin i .. n - 1
      BY <1>1, <1>2, <3>1
    <3> QED
      BY <2>1, <2>2, <3>2
  <2>3. CASE IsArrayKey(k) /\ k <= n - 1
    <3>1. k \in 1 .. n - 1 /\ k + 1 \in 1 .. n /\ k \in 1 .. n
      BY <1>1, <2>3, KeyTypes
    <3>2. Content'[k] = array'[k]
      BY <1>3, <2>1, <2>3
    <3>3. Content[k] = array[k] /\ Content[k + 1] = array[k + 1]
      BY <3>1, ArrayContent
    <3> QED
      BY <1>1, <1>2, <1>3, <3>1, <3>2, <3>3
  <2>4. CASE IsArrayKey(k) /\ ~(k <= n - 1)
    <3>1. k \in Int /\ k \notin i .. n - 1
      BY <1>1, <2>4, KeyTypes
    <3>2. k # n => Content[k] = LNil
      BY <1>1, <2>4, <3>1, ArrayContent
    <3> QED
      BY <1>1, <1>3, <2>1, <2>4, <3>1, <3>2
  <2> QED
    BY <2>2, <2>3, <2>4
<1>6. Content' = [k \in Key |-> Content'[k]]
  BY DEF Content
<1>8. Content' = [k \in Key |-> IF k = n THEN LNil
                               ELSE IF k \in i .. n - 1 THEN Content[k + 1]
                               ELSE Content[k]]
  BY <1>5, <1>6, Zenon
<1> QED
  BY <1>2, <1>8 DEF i
-----------------------------------------------------------------------------
(* The traversal. *)

IInv == Inv /\ VisitedInOrder

GoingOn == traversal = "going on"

LEMMA InvSplit ==
  Inv <=> /\ TableInv
          /\ last \in Key \cup {LNil}
          /\ traversal \in {"none", "going on", "done"}
          /\ visited \subseteq Key /\ pending \subseteq Key
BY DEF Inv, TypeOK, TableInv

LEMMA K2iProperties ==
  ASSUME Inv
  PROVE  /\ \A k \in DOMAIN k2i : k \in Key /\ k2i[k] \in Nat
         /\ \A j, k \in DOMAIN k2i : k2i[j] = k2i[k] => j = k
<1>1. Len(keys) \in Nat /\ DOMAIN keys = 1 .. Len(keys) /\ \A i \in 1 .. Len(keys) : keys[i] \in Key
  BY LenProperties, ElementOfSeq DEF Inv, TypeOK
<1>2. ASSUME NEW k \in DOMAIN k2i
      PROVE  k \in Key /\ k2i[k] \in Nat /\ keys[k2i[k] + 1] = k
  <2>1. PICK i \in DOMAIN keys : k = keys[i]
    BY DEF Inv, KeysIndexed
  <2>2. k2i[k] = i - 1
    BY <2>1 DEF Inv, KeysIndexed
  <2> QED
    BY <1>1, <2>1, <2>2
<1> QED
  BY <1>2

LEMMA PresentKeys ==
  ASSUME Inv, NEW k \in Key
  PROVE  k \in Present <=> IF IsArrayKey(k) THEN k \in 1 .. Len(array) /\ array[k] # LNil
                          ELSE k \in DOMAIN hash /\ k \in DOMAIN k2i
<1>1. Len(array) \in Nat
  BY LenProperties DEF Inv, TypeOK
<1>2. CASE IsArrayKey(k)
  BY <1>1, <1>2, KeyTypes DEF Present, RawGet
<1>3. CASE ~IsArrayKey(k)
  BY <1>3, KeyTypes, ZenonT(60) DEF Present, RawGet, RawGetH, Inv, TypeOK, KeysIndexed
<1> QED
  BY <1>2, <1>3

\* Next returns a key or nil, whatever key it is given.
LEMMA NextKeyType ==
  ASSUME Inv
  PROVE  NextKey(last) \in Key \cup {LNil}
<1>1. /\ DOMAIN array = 1 .. Len(array) /\ Len(array) \in Nat
      /\ \A i \in 1 .. Len(array) : i \in Key
  BY ArrayTypes, InvSplit
<1>2. \A p \in Nat : KeyFrom(p) \in Key \cup {LNil}
  BY KeyFromIsFirst DEF Inv, TypeOK
<1>3. CASE InArrayRange(last) /\ NextInArray(last) # {}
  <2>1. NextInArray(last) \subseteq 1 .. Len(array)
    BY <1>1 DEF NextInArray
  <2>2. NextInArray(last) \subseteq Nat
    BY <2>1
  <2>3. Min(NextInArray(last)) \in NextInArray(last)
    BY <1>3, <2>2, MinProperties
  <2> QED
    BY <1>1, <1>3, <2>1, <2>3 DEF NextKey
<1>4. Index(last) + 1 \in Nat
  BY K2iProperties DEF Index
<1> QED
  BY <1>2, <1>3, <1>4 DEF NextKey

\* As long as the array fits, next returns the first field after the key given, and
\* nil after the last.
LEMMA NextKeyIsNext ==
  ASSUME IInv, Fits, GoingOn
  PROVE  /\ NextKey(last) = LNil => Present \subseteq visited
         /\ NextKey(last) # LNil =>
              /\ NextKey(last) \in Present \ visited
              /\ \A x \in visited : NotAfter(x, NextKey(last))
              /\ \A x \in Present : NotAfter(x, NextKey(last)) => x \in visited \cup {NextKey(last)}
<1> DEFINE m == NextKey(last)
<1>1. /\ last \in Key \cup {LNil} /\ LNil \notin Key
      /\ visited \subseteq Key /\ Present \subseteq Key
      /\ Len(array) \in Nat /\ DOMAIN array = 1 .. Len(array)
  BY KeyTypes, LenProperties DEF IInv, Inv, TypeOK, Present
<1>2. /\ last = LNil => visited = {}
      /\ last # LNil =>
           /\ IF IsArrayKey(last) THEN last <= Len(array) ELSE last \in DOMAIN k2i
           /\ \A k \in visited : NotAfter(k, last) /\ (IsArrayKey(k) \/ k \in DOMAIN k2i)
           /\ \A k \in Present : NotAfter(k, last) => k \in visited
  BY DEF IInv, VisitedInOrder, GoingOn
<1>3. ~IsArrayKey(LNil)
  BY KeyTypes, <1>1
<1>4. \A k : IsArrayKey(k) => k \in Key /\ k \in Int /\ k > 0
  BY KeyTypes
<1>5. CASE InArrayRange(last) /\ NextInArray(last) # {}
  <2> DEFINE T == NextInArray(last)
             index == IF last = LNil THEN 0 ELSE last
  <2>1. T = {i \in 1 .. Len(array) : i > index /\ array[i] # LNil} /\ index \in Nat
    BY <1>1, <1>4, <1>5 DEF NextInArray, InArrayRange
  <2>2. T \subseteq Nat
    BY <2>1
  <2>3. m = Min(T)
    BY <1>5 DEF NextKey
  <2>4. m \in T /\ \A x \in T : m <= x
    <3> HIDE DEF T, m
    <3> QED
      BY <1>5, <2>2, <2>3, MinProperties DEF T
  <2> HIDE DEF m
  <2>5. m \in 1 .. Len(array) /\ m > index /\ array[m] # LNil
    BY <2>1, <2>4
  <2>6. m \in Key /\ IsArrayKey(m) /\ m # LNil
    BY <1>1, <2>5, ArrayContent, InvSplit DEF IInv
  <2>7. m \in Present
    BY <2>5, <2>6, PresentKeys DEF IInv
  <2>8. \A x \in visited : IsArrayKey(x) /\ x <= index
    BY <1>2, <1>5 DEF NotAfter, InArrayRange
  <2>9. m \notin visited /\ \A x \in visited : NotAfter(x, m)
    BY <1>4, <2>1, <2>5, <2>6, <2>8 DEF NotAfter
  <2>10. ASSUME NEW x \in Present, NotAfter(x, m)
         PROVE  x \in visited \cup {m}
    <3>1. IsArrayKey(x) /\ x <= m
      BY <2>6, <2>10 DEF NotAfter
    <3>2. x \in 1 .. Len(array) /\ array[x] # LNil
      BY <1>1, <3>1, PresentKeys DEF IInv
    <3>3. CASE x > index
      BY <2>1, <2>4, <2>5, <3>1, <3>2, <3>3
    <3>4. CASE x <= index
      <4>1. last # LNil /\ NotAfter(x, last)
        BY <1>5, <3>1, <3>2, <3>4 DEF NotAfter, InArrayRange
      <4> QED
        BY <1>2, <4>1
    <3> QED
      BY <2>1, <3>2, <3>3, <3>4
  <2> QED
    BY <2>6, <2>7, <2>9, <2>10 DEF m
<1>6. CASE InArrayRange(last) /\ NextInArray(last) = {}
  <2>1. m = KeyFrom(0)
    BY <1>2, <1>6 DEF NextKey, InArrayRange
  <2>2. /\ m = LNil => \A k \in DOMAIN hash : k2i[k] < 0
        /\ m # LNil => /\ m \in DOMAIN hash
                      /\ \A k \in DOMAIN hash : 0 <= k2i[k] => k2i[m] <= k2i[k]
    <3> HIDE DEF m
    <3> QED
      BY <2>1, KeyFromIsFirst DEF IInv
  <2> HIDE DEF m
  <2>3. \A x \in visited : IsArrayKey(x)
    BY <1>2, <1>6 DEF NotAfter, InArrayRange
  <2>4. ASSUME NEW x \in Present, IsArrayKey(x)
        PROVE  x \in visited
    <3>1. x \in 1 .. Len(array) /\ array[x] # LNil
      BY <1>1, <2>4, PresentKeys DEF IInv
    <3>2. x \notin NextInArray(last)
      BY <1>6
    <3>3. last # LNil /\ IsArrayKey(last) /\ x <= last
      BY <1>1, <1>4, <1>6, <3>1, <3>2 DEF NextInArray, InArrayRange
    <3>4. NotAfter(x, last)
      BY <2>4, <3>3 DEF NotAfter
    <3> QED
      BY <1>2, <3>3, <3>4
  <2>5. ASSUME NEW x \in Present, ~IsArrayKey(x)
        PROVE  x \in DOMAIN hash /\ x \in DOMAIN k2i /\ k2i[x] \in Nat
    BY <1>1, <2>5, PresentKeys, K2iProperties DEF IInv
  <2>6. CASE m = LNil
    <3>1. Present \subseteq visited
      BY <2>2, <2>4, <2>5, <2>6
    <3> QED
      BY <2>6, <3>1 DEF m
  <2>7. CASE m # LNil
    <3>1. m \in DOMAIN hash /\ m \in Key /\ ~IsArrayKey(m) /\ m \in DOMAIN k2i
      BY <2>2, <2>7 DEF IInv, Inv, TypeOK, KeysIndexed
    <3>2. m \in Present \ visited
      BY <2>3, <3>1, PresentKeys DEF IInv
    <3>3. \A x \in visited : NotAfter(x, m)
      BY <2>3, <3>1 DEF NotAfter
    <3>4. ASSUME NEW x \in Present, NotAfter(x, m)
          PROVE  x \in visited \cup {m}
      <4>1. CASE IsArrayKey(x)
        BY <2>4, <4>1
      <4>2. CASE ~IsArrayKey(x)
        <5>1. k2i[x] <= k2i[m] /\ k2i[m] <= k2i[x]
          BY <2>2, <2>5, <2>7, <3>1, <3>4, <4>2 DEF NotAfter
        <5>2. x \in DOMAIN k2i /\ k2i[x] = k2i[m]
          BY <2>5, <3>1, <4>2, <5>1, K2iProperties DEF IInv
        <5> QED
          BY <3>1, <5>2, K2iProperties DEF IInv
      <4> QED
        BY <4>1, <4>2
    <3> QED
      BY <2>7, <3>2, <3>3, <3>4 DEF m
  <2> QED
    BY <2>6, <2>7
<1>7. CASE ~InArrayRange(last)
  <2>1. last # LNil /\ ~IsArrayKey(last) /\ last \in DOMAIN k2i /\ k2i[last] \in Nat
    BY <1>2, <1>7, K2iProperties DEF InArrayRange, IInv
  <2>2. m = KeyFrom(k2i[last] + 1)
    BY <1>7, <2>1 DEF NextKey, InArrayRange, Index
  <2>3. /\ m = LNil => \A k \in DOMAIN hash : k2i[k] < k2i[last] + 1
        /\ m # LNil => /\ m \in DOMAIN hash
                      /\ k2i[last] + 1 <= k2i[m]
                      /\ \A k \in DOMAIN hash : k2i[last] + 1 <= k2i[k] => k2i[m] <= k2i[k]
    <3> HIDE DEF m
    <3>1. k2i[last] + 1 \in Nat
      BY <2>1
    <3> QED
      BY <2>2, <3>1, KeyFromIsFirst DEF IInv
  <2> HIDE DEF m
  <2>4. \A x \in visited : IsArrayKey(x) \/ (x \in DOMAIN k2i /\ k2i[x] <= k2i[last])
    BY <1>2, <2>1 DEF NotAfter
  <2>5. \A x \in Present : IsArrayKey(x) \/ k2i[x] <= k2i[last] => x \in visited
    BY <1>2, <2>1 DEF NotAfter
  <2>6. ASSUME NEW x \in Present, ~IsArrayKey(x)
        PROVE  x \in DOMAIN hash /\ x \in DOMAIN k2i /\ k2i[x] \in Nat
    BY <1>1, <2>6, PresentKeys, K2iProperties DEF IInv
  <2>7. CASE m = LNil
    <3>1. Present \subseteq visited
      BY <2>1, <2>3, <2>5, <2>6, <2>7
    <3> QED
      BY <2>7, <3>1 DEF m
  <2>8. CASE m # LNil
    <3>1. m \in DOMAIN hash /\ m \in Key /\ ~IsArrayKey(m) /\ m \in DOMAIN k2i /\ k2i[m] \in Nat
      BY <2>3, <2>8, K2iProperties DEF IInv, Inv, TypeOK, KeysIndexed
    <3>2. m \in Present \ visited
      BY <2>1, <2>3, <2>4, <2>8, <3>1, PresentKeys DEF IInv
    <3>3. \A x \in visited : NotAfter(x, m)
      <4> TAKE x \in visited
      <4>1. IsArrayKey(x) \/ (x \in DOMAIN k2i /\ k2i[x] \in Nat /\ k2i[x] <= k2i[last])
        BY <2>4, K2iProperties DEF IInv
      <4> QED
        BY <2>1, <2>3, <2>8, <3>1, <4>1 DEF NotAfter
    <3>4. ASSUME NEW x \in Present, NotAfter(x, m)
          PROVE  x \in visited \cup {m}
      <4>1. CASE IsArrayKey(x) \/ k2i[x] <= k2i[last]
        BY <2>5, <4>1
      <4>2. CASE ~(IsArrayKey(x) \/ k2i[x] <= k2i[last])
        <5>1. k2i[x] \in Nat /\ k2i[last] + 1 <= k2i[x]
          BY <2>1, <2>6, <4>2
        <5>2. k2i[x] <= k2i[m] /\ k2i[m] <= k2i[x]
          BY <2>3, <2>6, <2>8, <3>1, <3>4, <4>2, <5>1 DEF NotAfter
        <5>3. x \in DOMAIN k2i /\ k2i[x] = k2i[m]
          BY <2>6, <3>1, <4>2, <5>1, <5>2
        <5> QED
          BY <3>1, <5>3, K2iProperties DEF IInv
      <4> QED
        BY <4>1, <4>2
    <3> QED
      BY <2>8, <3>2, <3>3, <3>4 DEF m
  <2> QED
    BY <2>7, <2>8
<1> QED
  BY <1>5, <1>6, <1>7
-----------------------------------------------------------------------------
(* The steps. *)

LEMMA SameNames ==
  Abstract!Key = Key /\ Abstract!Present = Present /\ Present = {k \in Key : Content[k] # LNil}
BY DEF Abstract!Key, Abstract!Present, Key, Present, Content

LEMMA ContentType ==
  ASSUME TableInv'
  PROVE  Content' \in [Key -> Value \cup {LNil}]
<1>1. /\ Len(array') \in Nat /\ \A i \in 1 .. Len(array') : array'[i] \in Value \cup {LNil}
      /\ \A k \in DOMAIN hash' : hash'[k] \in Value
  BY LenProperties, ElementOfSeq DEF TableInv, LValue
<1>2. ASSUME NEW k \in Key
      PROVE  RawGet(k)' \in Value \cup {LNil}
  <2>1. CASE IsArrayKey(k)
    BY <1>1, <2>1, KeyTypes DEF RawGet, IsArrayKey
  <2>2. CASE ~IsArrayKey(k)
    BY <1>1, <2>2 DEF RawGet, RawGetH, IsArrayKey
  <2> QED
    BY <2>1, <2>2
<1> QED
  BY <1>2 DEF Content

LEMMA EndsInAbstract ==
  ASSUME Ends("none")
  PROVE  Abstract!Ends("none")
BY DEF Ends, Abstract!Ends

\* A list operation beyond the array keys leaves the other fields alone.
LEMMA ExceedStep ==
  ASSUME TableInv', ~Fits \/ ~Fits', UNCHANGED <<hash, keys, k2i>>, Ends("none")
  PROVE  Abstract!Exceed
<1>1. Abstract!Ends("none")
  BY EndsInAbstract
<1>2. Content' \in [Key -> Value \cup {LNil}]
  BY ContentType
<1>3. \A k \in Key \ (1 .. MaxArrayIndex - 1) : Content'[k] = Content[k]
  BY DEF Content, RawGet, RawGetH, IsArrayKey
<1> QED
  BY <1>1, <1>2, <1>3, SameNames DEF Abstract!Exceed, Content

\* Every operation that is not part of a traversal ends it.
LEMMA EndsKeepsInv ==
  ASSUME TableInv', NEW how \in {"none", "done"}, Ends(how)
  PROVE  IInv'
<1>1. VisitedInOrder'
  BY DEF VisitedInOrder, Ends
<1>2. Inv'
  BY DEF Inv, TypeOK, TableInv, Ends
<1> QED
  BY <1>1, <1>2 DEF IInv

LEMMA SetStep ==
  ASSUME IInv, NEW k \in Key, NEW v \in LValue, Set(k, v)
  PROVE  IInv' /\ Abstract!Set(k, v)
<1>1. TableInv' /\ Content' = [Content EXCEPT ![k] = v] /\ KeepsPlaces
  BY RawSetWrites, InvSplit DEF Set, IInv
<1>2. CASE k \in Present \/ v = LNil
  <2>1. /\ pending' = (IF v = LNil THEN pending \ {k} ELSE pending)
        /\ last' = last /\ traversal' = traversal /\ visited' = visited
    BY <1>2 DEF Set
  <2>2. Abstract!Set(k, v)
    <3>1. Fits' <=> Fits
      BY <1>1 DEF KeepsPlaces
    <3>2. Content[k] # LNil \/ v = LNil
      BY <1>2, SameNames
    <3>3. Abstract!Change(k, v)
      BY <1>1, <2>1, <3>1 DEF Abstract!Change, Content
    <3> QED
      BY <3>2, <3>3 DEF Abstract!Set, Content
  <2>3. Present' = (IF v = LNil THEN Present \ {k} ELSE Present)
    <3>1. \A x \in Key : Content'[x] = IF x = k THEN v ELSE Content[x]
      BY <1>1 DEF Content
    <3>2. Present' = {x \in Key : Content'[x] # LNil}
      BY DEF Present, Content
    <3> QED
      BY <1>2, <3>1, <3>2, SameNames
  <2>4. Inv'
    BY <1>1, <2>1, InvSplit DEF IInv, Inv, TypeOK, TableInv
  <2>5. ASSUME Fits, GoingOn
        PROVE  /\ pending' = Present' \ visited'
               /\ last' = LNil => visited' = {}
               /\ last' # LNil =>
                    /\ IF IsArrayKey(last') THEN last' <= Len(array') ELSE last' \in DOMAIN k2i'
                    /\ \A x \in visited' : NotAfter(x, last)' /\ (IsArrayKey(x) \/ x \in DOMAIN k2i')
                    /\ \A x \in Present' : NotAfter(x, last)' => x \in visited'
    <3>1. /\ pending = Present \ visited
          /\ last = LNil => visited = {}
          /\ last # LNil =>
               /\ IF IsArrayKey(last) THEN last <= Len(array) ELSE last \in DOMAIN k2i
               /\ \A x \in visited : NotAfter(x, last) /\ (IsArrayKey(x) \/ x \in DOMAIN k2i)
               /\ \A x \in Present : NotAfter(x, last) => x \in visited
      BY <2>5 DEF IInv, VisitedInOrder, GoingOn
    <3>2. pending' = Present' \ visited' /\ (last' = LNil => visited' = {})
      BY <2>1, <2>3, <3>1
    <3>3. ASSUME last' # LNil
          PROVE  /\ IF IsArrayKey(last') THEN last' <= Len(array') ELSE last' \in DOMAIN k2i'
                 /\ \A x \in visited' : NotAfter(x, last)' /\ (IsArrayKey(x) \/ x \in DOMAIN k2i')
                 /\ \A x \in Present' : NotAfter(x, last)' => x \in visited'
      <4>1. Len(array) \in Nat /\ Len(array') \in Nat
        BY <1>1, InvSplit, LenProperties DEF IInv, TableInv
      <4>2. IF IsArrayKey(last') THEN last' <= Len(array') ELSE last' \in DOMAIN k2i'
        BY <1>1, <2>1, <3>1, <3>3, <4>1, KeyTypes DEF KeepsPlaces, IsArrayKey
      <4>3. \A x : (IsArrayKey(x) \/ x \in DOMAIN k2i) => (NotAfter(x, last)' <=> NotAfter(x, last))
        BY <1>1, <2>1, <3>1, <3>3 DEF KeepsPlaces, NotAfter, IsArrayKey
      <4>4. \A x \in visited' : NotAfter(x, last)' /\ (IsArrayKey(x) \/ x \in DOMAIN k2i')
        BY <1>1, <2>1, <3>1, <3>3, <4>3 DEF KeepsPlaces
      <4>5. ASSUME NEW x \in Present', NotAfter(x, last)'
            PROVE  x \in visited'
        <5>1. x \in Present /\ x \in Key
          BY <2>3 DEF Present
        <5>2. IsArrayKey(x) \/ x \in DOMAIN k2i
          BY <5>1, PresentKeys DEF IInv
        <5> QED
          BY <2>1, <3>1, <3>3, <4>3, <4>5, <5>1, <5>2
      <4> QED
        BY <4>2, <4>4, <4>5
    <3> QED
      BY <3>2, <3>3
  <2>6. VisitedInOrder'
    <3>1. Fits' /\ traversal' = "going on" => Fits /\ GoingOn
      BY <1>1, <2>1 DEF GoingOn, KeepsPlaces
    <3> QED
      BY <2>5, <3>1 DEF VisitedInOrder, NotAfter, IsArrayKey
  <2> QED
    BY <2>2, <2>4, <2>6 DEF IInv
<1>3. CASE ~(k \in Present \/ v = LNil)
  <2>1. Ends("none")
    BY <1>3 DEF Set
  <2>2. Abstract!Set(k, v)
    <3>1. Fits' <=> Fits
      BY <1>1 DEF KeepsPlaces
    <3>2. Abstract!Add(k, v)
      BY <1>1, <2>1, <3>1, EndsInAbstract DEF Abstract!Add, Content
    <3>3. ~(Content[k] # LNil \/ v = LNil)
      BY <1>3, SameNames
    <3> QED
      BY <3>2, <3>3 DEF Abstract!Set, Content
  <2> QED
    BY <1>1, <2>1, <2>2, EndsKeepsInv
<1> QED
  BY <1>2, <1>3

\* An element at an array key is set there; one behind them exceeds the array.
LEMMA PushStep ==
  ASSUME IInv, NEW v \in LValue, Push(v)
  PROVE  /\ IInv'
         /\ IF IsArrayKey(TableLen + 1) THEN Abstract!Add(TableLen + 1, v) ELSE Abstract!Exceed
<1>1. /\ v # LNil /\ (HasRoom \/ TableLen < Len(array)) /\ SetArray(TableLen + 1, v)
      /\ Ends("none") /\ TableInv
  BY InvSplit DEF Push, IInv
<1>2. Len(array) \in Nat /\ TableLen \in 0 .. Len(array)
  BY <1>1, ArrayTypes, TableLenType DEF IInv, Inv
<1>3. CASE IsArrayKey(TableLen + 1)
  <2>1. TableInv' /\ Content' = [Content EXCEPT ![TableLen + 1] = v] /\ KeepsPlaces
    BY <1>1, <1>3, SetArrayWrites DEF IsArrayKey
  <2>2. Abstract!Add(TableLen + 1, v)
    BY <1>1, <2>1, EndsInAbstract DEF Abstract!Add, Content, KeepsPlaces
  <2> QED
    BY <1>1, <1>3, <2>1, <2>2, EndsKeepsInv
<1>4. CASE ~IsArrayKey(TableLen + 1)
  <2>1. /\ TableInv'
        /\ ~Fits \/ ~Fits'
        /\ UNCHANGED <<hash, keys, k2i>>
    <3>1. TableLen + 1 \in 1 .. Len(array) + 1 /\ (HasRoom \/ TableLen + 1 <= Len(array))
      BY <1>1, <1>2
    <3> QED
      BY <1>1, <1>4, <3>1, PushPastKeys
  <2>2. Abstract!Exceed
    BY <1>1, <2>1, ExceedStep
  <2> QED
    BY <1>1, <1>4, <2>1, <2>2, EndsKeepsInv
<1> QED
  BY <1>3, <1>4

LEMMA InsertStep ==
  ASSUME IInv, NEW i \in Number, NEW v \in LValue, Insert(i, v)
  PROVE  /\ IInv'
         /\ IF i \notin 1 .. Len(array) THEN Abstract!Add(i, v)
            ELSE IF IsArrayKey(Len(array) + 1) THEN Abstract!InsertAt(i, Len(array), v)
            ELSE Abstract!Exceed
<1>1. Ends("none") /\ TableInv
  BY InvSplit DEF Insert, IInv
<1>2. i \in Key
  BY KeyTypes
<1>3. CASE i \in 1 .. Len(array)
  <2>1. HasRoom /\ array' = Inserted(i, v) /\ UNCHANGED <<hash, keys, k2i>>
    BY <1>3 DEF Insert
  <2>2. TableInv'
    BY <1>1, <1>3, <2>1, InsertedKeepsTable
  <2>3. IInv'
    BY <1>1, <2>2, EndsKeepsInv
  <2>4. CASE IsArrayKey(Len(array) + 1)
    <3>1. /\ Fits /\ Fits'
          /\ Content' = [k \in Key |-> IF k = i THEN v
                                      ELSE IF k \in i + 1 .. Len(array) + 1 THEN Content[k - 1]
                                      ELSE Content[k]]
      BY <1>1, <1>3, <2>1, <2>2, <2>4, InsertedShifts
    <3>2. Abstract!InsertAt(i, Len(array), v)
      BY <1>1, <3>1, SameNames, EndsInAbstract DEF Abstract!InsertAt, Content
    <3> QED
      BY <1>3, <2>3, <2>4, <3>2
  <2>5. CASE ~IsArrayKey(Len(array) + 1)
    <3>1. Len(array') = Len(array) + 1
      BY <1>1, <1>3, <2>1, InsertedElements
    <3>2. ~Fits'
      BY <1>1, <2>5, <3>1, ArrayTypes, KeyTypes DEF Fits, IsArrayKey
    <3>3. Abstract!Exceed
      BY <1>1, <2>1, <2>2, <3>2, ExceedStep
    <3> QED
      BY <1>3, <2>3, <2>5, <3>3
  <2> QED
    BY <2>4, <2>5
<1>4. CASE i \notin 1 .. Len(array)
  <2>1. TableInv' /\ Content' = [Content EXCEPT ![i] = v] /\ KeepsPlaces
    BY <1>1, <1>2, <1>4, RawSetWrites DEF Insert
  <2>2. Abstract!Add(i, v)
    BY <1>1, <2>1, EndsInAbstract DEF Abstract!Add, Content, KeepsPlaces
  <2> QED
    BY <1>1, <1>4, <2>1, <2>2, EndsKeepsInv
<1> QED
  BY <1>3, <1>4

LEMMA RemoveStep ==
  ASSUME IInv, NEW pos \in Number, Remove(pos)
  PROVE  /\ IInv'
         /\ (IF pos < 1 THEN Len(array) ELSE pos) \in 1 .. Len(array)
         /\ IF Fits THEN Abstract!RemoveAt(IF pos < 1 THEN Len(array) ELSE pos, Len(array))
            ELSE Abstract!Exceed
<1> DEFINE i == IF pos < 1 THEN Len(array) ELSE pos
<1>1. /\ array # <<>> /\ pos <= Len(array) /\ array' = Removed(pos)
      /\ UNCHANGED <<hash, keys, k2i>> /\ Ends("none") /\ pos \in Int /\ TableInv
  BY KeyTypes, InvSplit DEF Remove, IInv
<1>2. TableInv' /\ (Fits => Fits')
  BY <1>1, RemovedKeepsTable
<1>3. i \in 1 .. Len(array)
  BY <1>1, RemovedElements
<1>4. CASE Fits
  <2>1. Content' = [k \in Key |-> IF k = Len(array) THEN LNil
                                 ELSE IF k \in i .. Len(array) - 1 THEN Content[k + 1]
                                 ELSE Content[k]]
    BY <1>1, <1>4, RemovedShifts
  <2> HIDE DEF i
  <2>2. Abstract!RemoveAt(i, Len(array))
    BY <1>1, <1>2, <1>4, <2>1, SameNames, EndsInAbstract DEF Abstract!RemoveAt, Content
  <2> QED
    BY <1>1, <1>2, <1>3, <1>4, <2>2, EndsKeepsInv DEF i
<1>5. CASE ~Fits
  <2>1. Abstract!Exceed
    BY <1>1, <1>2, <1>5, ExceedStep
  <2> HIDE DEF i
  <2> QED
    BY <1>1, <1>2, <1>3, <1>5, <2>1, EndsKeepsInv DEF i
<1> QED
  BY <1>4, <1>5

LEMMA StartStep ==
  ASSUME IInv, Start
  PROVE  IInv' /\ (Fits => Abstract!Start) /\ (~Fits => UNCHANGED Abstract!vars)
<1>1. UNCHANGED table /\ last' = LNil /\ visited' = {} /\ pending' = Present
  BY DEF Start
<1>2. /\ Present' = Present /\ Content' = Content /\ Present \subseteq Key
      /\ Fits' <=> Fits
  BY <1>1 DEF table, Present, Content, RawGet, RawGetH, IsArrayKey, Fits
<1>3. TableInv'
  BY <1>1, InvSplit DEF IInv, table, TableInv, KeysIndexed, IsArrayKey
<1>4. Inv'
  <2>1. traversal' \in {"none", "going on", "done"}
    BY DEF Start
  <2> QED
    BY <1>1, <1>2, <1>3, <2>1 DEF Inv, TypeOK, TableInv
<1>5. VisitedInOrder'
  BY <1>1, <1>2 DEF VisitedInOrder
<1>6. Fits => Abstract!Start
  BY <1>1, <1>2, SameNames DEF Abstract!Start, Start, Content
<1>7. ~Fits => UNCHANGED Abstract!vars
  BY <1>2 DEF Abstract!vars, Content
<1> QED
  BY <1>4, <1>5, <1>6, <1>7 DEF IInv

\* Next in a list of any length: the traversal goes to some key or ends.
LEMMA AdvanceTypes ==
  ASSUME IInv, Advance
  PROVE  Inv'
<1>1. UNCHANGED table /\ NextKey(last) \in Key \cup {LNil}
  BY NextKeyType DEF Advance, IInv
<1>2. TableInv'
  BY <1>1, InvSplit DEF IInv, table, TableInv, KeysIndexed, IsArrayKey
<1>3. CASE NextKey(last) = LNil
  <2>1. Ends("done")
    BY <1>3 DEF Advance
  <2> QED
    BY <1>2, <2>1, EndsKeepsInv DEF IInv
<1>4. CASE NextKey(last) # LNil
  <2>1. /\ last' = NextKey(last) /\ visited' = visited \cup {last'}
        /\ pending' = pending \ {last'} /\ traversal' = traversal
    BY <1>4 DEF Advance
  <2> QED
    BY <1>1, <1>2, <1>4, <2>1 DEF IInv, Inv, TypeOK, TableInv
<1> QED
  BY <1>3, <1>4

LEMMA AdvanceTooLong ==
  ASSUME IInv, Advance, ~Fits
  PROVE  IInv' /\ UNCHANGED Abstract!vars
<1>1. UNCHANGED table
  BY DEF Advance
<1>2. Content' = Content /\ ~Fits'
  BY <1>1 DEF table, Content, RawGet, RawGetH, IsArrayKey, Fits
<1>3. VisitedInOrder'
  BY <1>2 DEF VisitedInOrder
<1> QED
  BY <1>2, <1>3, AdvanceTypes DEF IInv, Abstract!vars, Content

LEMMA AdvanceStep ==
  ASSUME IInv, Advance, Fits
  PROVE  IInv' /\ (Abstract!Finish \/ \E k \in Key : Abstract!Visit(k))
<1>1. UNCHANGED table /\ GoingOn
  BY DEF Advance, GoingOn
<1>2. Present' = Present /\ Content' = Content /\ Present \subseteq Key /\ Fits'
  BY <1>1 DEF table, Present, Content, RawGet, RawGetH, IsArrayKey, Fits
<1>3. TableInv'
  BY <1>1, InvSplit DEF IInv, table, TableInv, KeysIndexed, IsArrayKey
<1>4. pending = Present \ visited
  BY <1>1 DEF IInv, VisitedInOrder, GoingOn
<1>5. CASE NextKey(last) = LNil
  <2>1. Ends("done")
    BY <1>5 DEF Advance
  <2>2. pending = {}
    BY <1>1, <1>4, <1>5, NextKeyIsNext
  <2>3. Abstract!Finish
    BY <1>1, <1>2, <2>1, <2>2 DEF Abstract!Finish, Abstract!Ends, Ends, Content, GoingOn
  <2> QED
    BY <1>3, <2>1, <2>3, EndsKeepsInv
<1>6. CASE NextKey(last) # LNil
  <2> DEFINE m == NextKey(last)
  <2>1. /\ last' = m /\ visited' = visited \cup {m} /\ pending' = pending \ {m}
        /\ traversal' = traversal
    BY <1>6 DEF Advance
  <2>2. /\ m \in Present \ visited
        /\ \A x \in visited : NotAfter(x, m)
        /\ \A x \in Present : NotAfter(x, m) => x \in visited \cup {m}
    BY <1>1, <1>6, NextKeyIsNext
  <2> HIDE DEF m
  <2>3. m \in Key
    BY <1>2, <2>2
  <2>4. Abstract!Visit(m)
    BY <1>1, <1>2, <2>1, <2>2, SameNames DEF Abstract!Visit, Content, GoingOn
  <2>5. Inv'
    BY AdvanceTypes
  <2>6. IF IsArrayKey(m) THEN m <= Len(array) ELSE m \in DOMAIN k2i
    <3>1. Len(array) \in Nat
      BY ArrayTypes, InvSplit DEF IInv
    <3> QED
      BY <2>2, <2>3, <3>1, PresentKeys DEF IInv, IsArrayKey
  <2>7. \A x \in visited \cup {m} : NotAfter(x, m) /\ (IsArrayKey(x) \/ x \in DOMAIN k2i)
    <3>1. \A x \in visited : IsArrayKey(x) \/ x \in DOMAIN k2i
      BY <1>1 DEF IInv, VisitedInOrder, GoingOn
    <3>2. NotAfter(m, m)
      BY <2>6, KeyTypes, K2iProperties DEF NotAfter, IsArrayKey, IInv
    <3> QED
      BY <2>2, <2>6, <3>1, <3>2
  <2>8. VisitedInOrder'
    <3>1. last' # LNil /\ array' = array /\ k2i' = k2i
      BY <1>1, <2>1, <2>3, KeyTypes DEF table
    <3>2. pending' = Present' \ visited'
      BY <1>2, <1>4, <2>1
    <3>3. IF IsArrayKey(last') THEN last' <= Len(array') ELSE last' \in DOMAIN k2i'
      BY <2>1, <2>6, <3>1
    <3>4. \A x \in visited' : NotAfter(x, last)' /\ (IsArrayKey(x) \/ x \in DOMAIN k2i')
      BY <2>1, <2>7, <3>1 DEF NotAfter
    <3>5. \A x \in Present' : NotAfter(x, last)' => x \in visited'
      BY <1>2, <2>1, <2>2, <3>1 DEF NotAfter
    <3> QED
      BY <3>1, <3>2, <3>3, <3>4, <3>5 DEF VisitedInOrder, NotAfter, IsArrayKey
  <2> QED
    BY <2>3, <2>4, <2>5, <2>8 DEF IInv
<1> QED
  BY <1>5, <1>6
-----------------------------------------------------------------------------
(* The theorems. *)

LEMMA InitInv == Init => IInv /\ Abstract!Init
<1> SUFFICES ASSUME Init
             PROVE  IInv /\ Abstract!Init
  OBVIOUS
<1>1. /\ array = <<>> /\ hash = <<>> /\ keys = <<>> /\ k2i = <<>>
      /\ last = LNil /\ visited = {} /\ pending = {}
  BY DEF Init
<1>2. DOMAIN hash = {} /\ DOMAIN k2i = {} /\ DOMAIN keys = {} /\ Len(array) = 0
  BY <1>1
<1>3. traversal = "none"
  BY DEF Init
<1>4. VisitedInOrder
  BY <1>3 DEF VisitedInOrder
<1>5. KeysIndexed
  BY <1>2 DEF KeysIndexed
<1>6. Inv
  <2>1. array \in Seq(LValue) /\ keys \in Seq(Key)
    BY <1>1
  <2> QED
    BY <1>1, <1>2, <1>3, <1>5, <2>1, KeyTypes DEF Inv, TypeOK
<1>7. \A k \in Key : RawGet(k) = LNil
  BY <1>2, KeyTypes DEF RawGet, RawGetH
<1>8. Fits
  BY <1>2, KeyTypes DEF Fits
<1>9. Abstract!Init
  BY <1>1, <1>3, <1>7, <1>8 DEF Abstract!Init, Abstract!Key, Key
<1> QED
  BY <1>4, <1>6, <1>9 DEF IInv

LEMMA StutterInv ==
  ASSUME IInv, UNCHANGED vars
  PROVE  IInv' /\ UNCHANGED Abstract!vars
<1>1. UNCHANGED table /\ UNCHANGED program
  BY DEF vars
<1>2. Content' = Content /\ Present' = Present /\ (Fits' <=> Fits)
  BY <1>1 DEF table, Present, Content, RawGet, RawGetH, IsArrayKey, Fits
<1>3. Inv'
  BY <1>1, ZenonT(60) DEF IInv, Inv, TypeOK, KeysIndexed, IsArrayKey, table, program
<1>4. VisitedInOrder'
  BY <1>1, <1>2 DEF IInv, VisitedInOrder, NotAfter, IsArrayKey, table, program
<1>5. UNCHANGED Abstract!vars
  BY <1>1, <1>2 DEF Abstract!vars, Content, program
<1> QED
  BY <1>3, <1>4, <1>5 DEF IInv

LEMMA PositionsAreNumbers ==
  ASSUME IInv, NEW i \in 1 .. Len(array)
  PROVE  i \in Number /\ Len(array) \in Number
<1>1. TableInv
  BY InvSplit DEF IInv
<1>2. Len(array) \in Nat /\ \A j \in 1 .. Len(array) : j \in Number
  BY <1>1, ArrayTypes
<1> QED
  BY <1>2

LEMMA StepRefines == IInv /\ [Next]_vars => IInv' /\ [Abstract!Next]_(Abstract!vars)
<1> SUFFICES ASSUME IInv, [Next]_vars
             PROVE  IInv' /\ [Abstract!Next]_(Abstract!vars)
  OBVIOUS
<1>1. ASSUME NEW k \in Key, NEW v \in LValue, Set(k, v)
      PROVE  IInv' /\ Abstract!Next
  <2>1. IInv' /\ Abstract!Set(k, v)
    BY <1>1, SetStep
  <2> QED
    BY <2>1, SameNames DEF Abstract!Next, LValue
<1>2. ASSUME NEW v \in LValue, Push(v)
      PROVE  IInv' /\ Abstract!Next
  <2>1. /\ IInv'
        /\ IF IsArrayKey(TableLen + 1) THEN Abstract!Add(TableLen + 1, v) ELSE Abstract!Exceed
    BY <1>2, PushStep
  <2>2. IsArrayKey(TableLen + 1) => TableLen + 1 \in Key
    BY KeyTypes
  <2> QED
    BY <2>1, <2>2, SameNames DEF Abstract!Next, LValue
<1>3. ASSUME NEW i \in Number, NEW v \in LValue, Insert(i, v)
      PROVE  IInv' /\ Abstract!Next
  <2>1. /\ IInv'
        /\ IF i \notin 1 .. Len(array) THEN Abstract!Add(i, v)
           ELSE IF IsArrayKey(Len(array) + 1) THEN Abstract!InsertAt(i, Len(array), v)
           ELSE Abstract!Exceed
    BY <1>3, InsertStep
  <2>2. CASE i \in 1 .. Len(array)
    <3>1. Len(array) \in Number
      BY <2>2, PositionsAreNumbers
    <3> QED
      BY <2>1, <2>2, <3>1 DEF Abstract!Next, LValue
  <2>3. CASE i \notin 1 .. Len(array)
    <3>1. i \in Key
      BY KeyTypes
    <3> QED
      BY <2>1, <2>3, <3>1, SameNames DEF Abstract!Next, LValue
  <2> QED
    BY <2>2, <2>3
<1>4. ASSUME NEW pos \in Number, Remove(pos)
      PROVE  IInv' /\ Abstract!Next
  <2> DEFINE i == IF pos < 1 THEN Len(array) ELSE pos
  <2>1. /\ IInv' /\ i \in 1 .. Len(array)
        /\ IF Fits THEN Abstract!RemoveAt(i, Len(array)) ELSE Abstract!Exceed
    BY <1>4, RemoveStep
  <2> HIDE DEF i
  <2>2. i \in Number /\ Len(array) \in Number
    BY <2>1, PositionsAreNumbers
  <2> QED
    BY <2>1, <2>2 DEF Abstract!Next
<1>5. ASSUME Start
      PROVE  IInv' /\ [Abstract!Next]_(Abstract!vars)
  BY <1>5, StartStep DEF Abstract!Next
<1>6. ASSUME Advance
      PROVE  IInv' /\ [Abstract!Next]_(Abstract!vars)
  <2>1. CASE Fits
    BY <1>6, <2>1, AdvanceStep, SameNames DEF Abstract!Next
  <2>2. CASE ~Fits
    BY <1>6, <2>2, AdvanceTooLong
  <2> QED
    BY <2>1, <2>2
<1>7. CASE UNCHANGED vars
  BY <1>7, StutterInv
<1> QED
  BY <1>1, <1>2, <1>3, <1>4, <1>5, <1>6, <1>7 DEF Next

LEMMA Invariant == Spec => []IInv
<1>1. Init => IInv
  BY InitInv
<1>2. IInv /\ [Next]_vars => IInv'
  BY StepRefines
<1> QED
  BY <1>1, <1>2, PTL DEF Spec

\* The hash holds no array key and no nil, whatever the array keys are and however
\* long Append and Insert make the array (table.go, RawSet).
THEOREM TypeCorrect == Spec => []TypeOK
<1>1. IInv => TypeOK
  BY DEF IInv, Inv
<1> QED
  BY <1>1, Invariant, PTL

\* keys and k2i list every key of the hash, once, for ever (RawSetH).
THEOREM KeysStayIndexed == Spec => []KeysIndexed
<1>1. IInv => KeysIndexed
  BY DEF IInv, Inv
<1> QED
  BY <1>1, Invariant, PTL

\* What a traversal returned, and what it has still to return, follows from the key
\* it returned last, whatever was changed and cleared on the way, in every table whose
\* list is shorter than MaxArrayIndex, one that was longer before included (Next).
THEOREM TraversalInOrder == Spec => []VisitedInOrder
<1>1. IInv => VisitedInOrder
  BY DEF IInv
<1> QED
  BY <1>1, Invariant, PTL

\* A traversal returns no field twice, none that is gone, and misses none, as long as
\* the list is shorter than MaxArrayIndex (Next).
THEOREM NextReturnsNew == Spec => []NextIsNew
<1>1. IInv => NextIsNew
  <2> SUFFICES ASSUME IInv, Fits, GoingOn
               PROVE  IF NextKey(last) = LNil THEN pending = {} ELSE NextKey(last) \in pending
    BY DEF NextIsNew, GoingOn
  <2>1. pending = Present \ visited
    BY DEF IInv, VisitedInOrder, GoingOn
  <2> QED
    BY <2>1, NextKeyIsNext
<1> QED
  BY <1>1, Invariant, PTL

\* LTable is a map: its list operations shift fields, and every traversal returns
\* each field once, until Append or Insert makes the list MaxArrayIndex long and again
\* when Remove made it shorter; meanwhile the fields of the hash stay (table.go).
THEOREM ImplementsMap == Spec => ImplementsLuaTable
<1>1. Init => Abstract!Init
  BY InitInv
<1>2. IInv /\ [Next]_vars => [Abstract!Next]_(Abstract!vars)
  BY StepRefines
<1> QED
  BY <1>1, <1>2, Invariant, PTL DEF Spec, ImplementsLuaTable, Abstract!Spec

\* Every operation acts at the key or position it was given, list operations as long
\* as they stay at array keys, and next in a list that fits returns only fields not
\* visited (table.go).
THEOREM OperationsAgreeWithMap == Spec => OperationsAgree
<1> DEFINE Agree ==
      /\ \A k \in Key, v \in LValue : Set(k, v) => Abstract!Set(k, v)
      /\ \A v \in Value : Push(v) =>
           IF IsArrayKey(TableLen + 1) THEN Abstract!Add(TableLen + 1, v) ELSE Abstract!Exceed
      /\ \A i \in Number, v \in LValue : Insert(i, v) =>
           IF i \notin 1 .. Len(array) THEN Abstract!Add(i, v)
           ELSE IF IsArrayKey(Len(array) + 1) THEN Abstract!InsertAt(i, Len(array), v)
           ELSE Abstract!Exceed
      /\ \A pos \in Number : Remove(pos) =>
           IF Fits THEN Abstract!RemoveAt(IF pos < 1 THEN Len(array) ELSE pos, Len(array))
           ELSE Abstract!Exceed
      /\ Advance /\ Fits => Abstract!Finish \/ \E k \in Key : Abstract!Visit(k)
<1>1. IInv => Agree
  <2> SUFFICES ASSUME IInv
               PROVE  Agree
    OBVIOUS
  <2>1. \A v \in Value : v \in LValue
    BY DEF LValue
  <2> QED
    BY <2>1, SetStep, PushStep, InsertStep, RemoveStep, AdvanceStep
<1>2. Agree => [Agree]_vars
  OBVIOUS
<1> QED
  BY <1>1, <1>2, Invariant, PTL DEF OperationsAgree
=============================================================================
