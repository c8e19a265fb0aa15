-------------------------- MODULE PatternCacheProofs --------------------------
(***************************************************************************)
(* The caches of pm.Find, for every searcher that finds matches in order,  *)
(* all programs, goroutines and sizes.                                     *)
(***************************************************************************)
EXTENDS PatternCache, SequenceTheorems, WellFoundedInduction, TLAPS

-----------------------------------------------------------------------------
(* Numbers and sequences. *)

\* Every set of natural numbers has a least element.
LEMMA SmallestExists ==
  ASSUME NEW T, T \subseteq Nat, T # {}
  PROVE  \E x \in T : \A y \in T : x <= y
<1> DEFINE R == OpToRel(<, Nat)
<1>1. IsWellFoundedOn(R, Nat)
  BY NatLessThanWellFounded
<1>2. \A x, y \in Nat : x < y => <<x, y>> \in R
  BY DEF OpToRel
<1> HIDE DEF R
<1>3. PICK x \in T : \A y \in T : ~ (<<y, x>> \in R)
  BY ONLY <1>1, T \subseteq Nat, T # {}, WFMin, ZenonT(60)
<1>4. \A y \in T : ~ (y < x)
  BY <1>2, <1>3, Zenon
<1> QED
  BY <1>4

\* Induction up to n, over the set of the numbers that have the property.
LEMMA UpTo ==
  ASSUME NEW n \in Nat, NEW T, 0 \in T, \A k \in 0 .. n - 1 : k \in T => k + 1 \in T
  PROVE  \A k \in 0 .. n : k \in T
<1> DEFINE Others == {k \in 0 .. n : k \notin T}
<1>1. ASSUME Others # {}
      PROVE  FALSE
  <2>1. PICK x \in Others : \A y \in Others : x <= y
    <3>1. Others \subseteq Nat
      OBVIOUS
    <3> HIDE DEF Others
    <3> QED
      BY <1>1, <3>1, SmallestExists
  <2>2. x # 0 /\ x - 1 \in 0 .. n - 1 /\ x - 1 \notin Others
    BY <2>1
  <2> QED
    BY <2>1, <2>2
<1> QED
  BY <1>1

LEMMA RemoveAtProperties ==
  ASSUME NEW S, NEW s \in Seq(S), NEW i \in 1 .. Len(s)
  PROVE  /\ RemoveAt(s, i) \in Seq(S)
         /\ Len(RemoveAt(s, i)) = Len(s) - 1
         /\ \A k \in 1 .. Len(s) - 1 : RemoveAt(s, i)[k] = s[IF k < i THEN k ELSE k + 1]
<1> DEFINE n == Len(s)
           front == SubSeq(s, 1, i - 1)
           back == SubSeq(s, i + 1, n)
<1>1. n \in Nat /\ i \in 1 .. n /\ \A k \in 1 .. n : s[k] \in S
  BY LenProperties, ElementOfSeq
<1>2. /\ front \in Seq(S)
      /\ Len(front) = i - 1
      /\ \A k \in 1 .. i - 1 : front[k] = s[k]
  <2>1. 1 \in Int /\ i - 1 \in Int /\ \A k \in 1 .. i - 1 : s[k] \in S
    BY <1>1
  <2>2. /\ front \in Seq(S)
        /\ Len(front) = IF 1 <= i - 1 THEN (i - 1) - 1 + 1 ELSE 0
        /\ \A k \in 1 .. (i - 1) - 1 + 1 : front[k] = s[1 + k - 1]
    BY <2>1, SubSeqProperties
  <2> HIDE DEF front, n
  <2> QED
    BY <1>1, <2>2
<1>3. /\ back \in Seq(S)
      /\ Len(back) = n - i
      /\ \A k \in 1 .. n - i : back[k] = s[i + k]
  <2>1. i + 1 \in Int /\ n \in Int /\ \A k \in i + 1 .. n : s[k] \in S
    BY <1>1
  <2>2. /\ back \in Seq(S)
        /\ Len(back) = IF i + 1 <= n THEN n - (i + 1) + 1 ELSE 0
        /\ \A k \in 1 .. n - (i + 1) + 1 : back[k] = s[(i + 1) + k - 1]
    BY <2>1, SubSeqProperties
  <2> HIDE DEF back, n
  <2> QED
    BY <1>1, <2>2
<1> HIDE DEF front, back
<1>4. /\ front \o back \in Seq(S)
      /\ Len(front \o back) = Len(front) + Len(back)
      /\ \A k \in 1 .. Len(front) + Len(back) :
            (front \o back)[k] = IF k <= Len(front) THEN front[k] ELSE back[k - Len(front)]
  BY <1>2, <1>3, ConcatProperties
<1>5. RemoveAt(s, i) = front \o back
  BY DEF RemoveAt, front, back
<1> HIDE DEF n
<1>6. ASSUME NEW k \in 1 .. n - 1
      PROVE  (front \o back)[k] = s[IF k < i THEN k ELSE k + 1]
  <2>1. CASE k < i
    BY <1>1, <1>2, <1>3, <1>4, <2>1
  <2>2. CASE ~ (k < i)
    <3>1. k - (i - 1) \in 1 .. n - i /\ i + (k - (i - 1)) = k + 1 /\ k \in 1 .. (i - 1) + (n - i) /\ ~ (k <= i - 1)
      BY <1>1, <2>2
    <3>2. (front \o back)[k] = back[k - (i - 1)]
      BY <1>2, <1>3, <1>4, <3>1
    <3>3. back[k - (i - 1)] = s[i + (k - (i - 1))]
      BY <1>3, <3>1
    <3> QED
      BY <2>2, <3>1, <3>2, <3>3
  <2> QED
    BY <2>1, <2>2
<1>7. Len(front \o back) = n - 1
  BY <1>1, <1>2, <1>3, <1>4
<1> QED
  BY <1>4, <1>5, <1>6, <1>7 DEF n

-----------------------------------------------------------------------------
(* What a store does to the entries. *)

NoneTwice(entries) ==
    \A i, j \in DOMAIN entries : entries[i].pattern = entries[j].pattern => i = j

\* Every entry of one sequence is an entry of the other.
AllFrom(entries, others) ==
    \A i \in DOMAIN entries : \E j \in DOMAIN others : entries[i] = others[j]

NoneOf(entries, p) == \A i \in DOMAIN entries : entries[i].pattern # p

\* The oldest entry is the only one an eviction drops.
LEMMA EvictedProperties ==
  ASSUME MaxSizeAssumption, NEW S, cache \in Seq(S), Len(cache) <= MaxSize, NoneTwice(cache)
  PROVE  /\ Evicted \in Seq(S)
         /\ Len(Evicted) < MaxSize
         /\ NoneTwice(Evicted)
         /\ AllFrom(Evicted, cache)
<1>1. Len(cache) \in Nat /\ MaxSize \in Nat \ {0} /\ DOMAIN cache = 1 .. Len(cache)
  BY LenProperties DEF MaxSizeAssumption
<1>2. CASE Len(cache) < MaxSize
  BY <1>1, <1>2 DEF Evicted, AllFrom
<1>3. CASE ~ (Len(cache) < MaxSize)
  <2>1. cache # <<>> /\ Len(cache) = MaxSize /\ Evicted = Tail(cache)
    <3> DEFINE n == Len(cache)
    <3>1. n \in Nat /\ MaxSize \in Nat /\ n <= MaxSize /\ ~ (n < MaxSize) /\ MaxSize # 0
      BY <1>1, <1>3
    <3> HIDE DEF n
    <3>2. n >= MaxSize /\ n = MaxSize
      BY ONLY <3>1
    <3>3. cache # <<>>
      BY <3>1, <3>2, EmptySeq DEF n
    <3> QED
      BY <3>2, <3>3 DEF Evicted, n
  <2>2. /\ Tail(cache) \in Seq(S)
        /\ Len(Tail(cache)) = Len(cache) - 1
        /\ \A i \in 1 .. Len(Tail(cache)) : Tail(cache)[i] = cache[i + 1]
    BY <2>1, HeadTailProperties
  <2>3. DOMAIN Tail(cache) = 1 .. Len(cache) - 1
    BY <2>2, LenProperties
  <2>4. \A i \in 1 .. Len(cache) - 1 : i + 1 \in DOMAIN cache /\ Tail(cache)[i] = cache[i + 1]
    BY <1>1, <2>2
  <2>5. NoneTwice(Tail(cache))
    <3> SUFFICES ASSUME NEW i \in 1 .. Len(cache) - 1, NEW j \in 1 .. Len(cache) - 1,
                        Tail(cache)[i].pattern = Tail(cache)[j].pattern
                 PROVE  i = j
      BY <2>3 DEF NoneTwice
    <3>1. i + 1 = j + 1
      BY <2>4 DEF NoneTwice
    <3> QED
      BY <1>1, <3>1
  <2>6. AllFrom(Tail(cache), cache)
    BY <2>3, <2>4 DEF AllFrom
  <2> QED
    <3>1. Len(Evicted) < MaxSize
      BY <1>1, <2>1, <2>2
    <3> QED
      BY <2>1, <2>2, <2>5, <2>6, <3>1
<1> QED
  BY <1>2, <1>3

\* Without a pattern, the other entries are left, each once.
LEMMA WithoutProperties ==
  ASSUME NEW S, NEW entries \in Seq(S), NEW p, NoneTwice(entries)
  PROVE  /\ Without(entries, p) \in Seq(S)
         /\ Len(Without(entries, p)) <= Len(entries)
         /\ NoneTwice(Without(entries, p))
         /\ NoneOf(Without(entries, p), p)
         /\ AllFrom(Without(entries, p), entries)
<1> DEFINE at == {i \in DOMAIN entries : entries[i].pattern = p}
           rest == Without(entries, p)
           n == Len(entries)
<1>1. n \in Nat /\ DOMAIN entries = 1 .. n
  BY LenProperties
<1>2. CASE at = {}
  <2>1. rest = entries
    BY <1>2 DEF Without
  <2> QED
    BY <1>1, <1>2, <2>1 DEF AllFrom, NoneOf
<1>3. CASE at # {}
  <2>1. PICK i \in at : rest = RemoveAt(entries, i)
    BY <1>3 DEF Without
  <2>2. i \in 1 .. n
    BY <1>1
  <2> HIDE DEF n, rest
  <2>3. /\ rest \in Seq(S)
        /\ Len(rest) = n - 1
        /\ \A k \in 1 .. n - 1 : rest[k] = entries[IF k < i THEN k ELSE k + 1]
    BY <2>1, <2>2, RemoveAtProperties DEF n
  <2>4. DOMAIN rest = 1 .. n - 1
    BY <2>3, LenProperties
  <2> DEFINE Place(k) == IF k < i THEN k ELSE k + 1
  <2>5. ASSUME NEW k \in 1 .. n - 1
        PROVE  Place(k) \in 1 .. n /\ Place(k) # i /\ rest[k] = entries[Place(k)]
    BY <1>1, <2>2, <2>3
  <2>6. ASSUME NEW k \in 1 .. n - 1, NEW m \in 1 .. n - 1, Place(k) = Place(m)
        PROVE  k = m
    BY <1>1, <2>2, <2>6
  <2> HIDE DEF Place
  <2>7. NoneTwice(rest)
    BY <1>1, <2>4, <2>5, <2>6 DEF NoneTwice
  <2>8. NoneOf(rest, p)
    BY <1>1, <2>4, <2>5 DEF NoneTwice, NoneOf
  <2>9. AllFrom(rest, entries)
    BY <1>1, <2>4, <2>5 DEF AllFrom
  <2>10. Len(rest) <= n
    BY <1>1, <2>3
  <2> QED
    BY <2>3, <2>7, <2>8, <2>9, <2>10 DEF n, rest
<1> QED
  BY <1>2, <1>3

\* After a store the pattern's entry is the newest, and all others were there.
LEMMA PutProperties ==
  ASSUME MaxSizeAssumption, NEW S, cache \in Seq(S), Len(cache) <= MaxSize, NoneTwice(cache),
         NEW p, NEW matches, [pattern |-> p, matches |-> matches] \in S, Put(p, matches)
  PROVE  /\ cache' \in Seq(S)
         /\ Len(cache') <= MaxSize
         /\ NoneTwice(cache')
         /\ \A i \in DOMAIN cache' :
              \/ cache'[i] = [pattern |-> p, matches |-> matches]
              \/ \E j \in DOMAIN cache : cache'[i] = cache[j]
<1> DEFINE kept == Evicted
           rest == Without(kept, p)
           entry == [pattern |-> p, matches |-> matches]
           n == Len(rest)
<1>1. kept \in Seq(S) /\ Len(kept) < MaxSize /\ NoneTwice(kept) /\ AllFrom(kept, cache)
  BY EvictedProperties
<1> HIDE DEF kept
<1>2. rest \in Seq(S) /\ n <= Len(kept) /\ NoneTwice(rest) /\ NoneOf(rest, p) /\ AllFrom(rest, kept)
  BY <1>1, WithoutProperties
<1>3. cache' = Append(rest, entry)
  BY DEF Put, kept
<1>4. n \in Nat /\ Len(kept) \in Nat /\ MaxSize \in Nat /\ DOMAIN rest = 1 .. n
  BY <1>1, <1>2, LenProperties DEF MaxSizeAssumption
<1> HIDE DEF rest
<1>5. /\ cache' \in Seq(S)
      /\ Len(cache') = n + 1
      /\ \A i \in 1 .. n : cache'[i] = rest[i]
      /\ cache'[n + 1] = entry
  BY <1>2, <1>3, AppendProperties
<1> HIDE DEF n
<1>6. DOMAIN cache' = 1 .. n + 1
  BY <1>5, LenProperties
<1>7. ASSUME NEW i \in 1 .. n + 1
      PROVE  i = n + 1 \/ i \in 1 .. n
  BY <1>4
<1>8. entry.pattern = p
  OBVIOUS
<1> HIDE DEF entry
<1>9. NoneTwice(cache')
  BY <1>2, <1>4, <1>5, <1>6, <1>7, <1>8 DEF NoneTwice, NoneOf
<1>10. ASSUME NEW i \in 1 .. n
       PROVE  \E j \in DOMAIN cache : cache'[i] = cache[j]
  BY <1>1, <1>2, <1>4, <1>5 DEF AllFrom
<1>11. Len(cache') <= MaxSize
  BY <1>1, <1>2, <1>4, <1>5
<1> QED
  BY <1>5, <1>6, <1>7, <1>9, <1>10, <1>11 DEF entry

-----------------------------------------------------------------------------
(* What an answer takes of an entry. *)

\* One turn of the loop: what is taken after match k, by what was before.
Turn(matches, offset, limit, before, k) ==
    IF StartOf(matches[k]) >= offset /\ (before = <<>> \/ Len(before) < limit)
    THEN Append(before, matches[k])
    ELSE before

Turned(matches, offset, limit, taken, n) ==
    taken = [k \in 0 .. n |-> IF k = 0 THEN <<>> ELSE Turn(matches, offset, limit, taken[k - 1], k)]

\* The loop can be run up to every n.
LEMMA TurnedExists ==
  ASSUME NEW matches, NEW offset, NEW limit, NEW n \in Nat
  PROVE  \E taken : Turned(matches, offset, limit, taken, n)
<1> DEFINE T == {k \in 0 .. n : \E taken : Turned(matches, offset, limit, taken, k)}
<1>1. 0 \in T
  <2> DEFINE taken == [k \in 0 .. 0 |-> <<>>]
  <2>1. taken = [k \in 0 .. 0 |-> IF k = 0 THEN <<>> ELSE Turn(matches, offset, limit, taken[k - 1], k)]
    OBVIOUS
  <2>2. Turned(matches, offset, limit, taken, 0)
    BY <2>1 DEF Turned
  <2> QED
    BY <2>2
<1>2. ASSUME NEW k \in 0 .. n - 1, k \in T
      PROVE  k + 1 \in T
  <2>1. PICK taken : Turned(matches, offset, limit, taken, k)
    BY <1>2
  <2> DEFINE more == [i \in 0 .. k + 1 |->
                        IF i = k + 1 THEN Turn(matches, offset, limit, taken[k], k + 1) ELSE taken[i]]
  <2>2. ASSUME NEW i \in 0 .. k + 1
        PROVE  more[i] = IF i = 0 THEN <<>> ELSE Turn(matches, offset, limit, more[i - 1], i)
    <3>1. CASE i = k + 1
      <4>1. i - 1 = k /\ i # 0 /\ more[i] = Turn(matches, offset, limit, taken[k], k + 1) /\ more[i - 1] = taken[k]
        BY <3>1
      <4> QED
        BY <3>1, <4>1
    <3>2. CASE i # k + 1
      <4>1. i \in 0 .. k /\ (i # 0 => i - 1 \in 0 .. k /\ i - 1 # k + 1)
        BY <3>2
      <4>2. taken[i] = IF i = 0 THEN <<>> ELSE Turn(matches, offset, limit, taken[i - 1], i)
        BY <2>1, <4>1 DEF Turned
      <4>3. more[i] = taken[i] /\ (i # 0 => more[i - 1] = taken[i - 1])
        BY <3>2, <4>1
      <4> QED
        BY <4>2, <4>3
    <3> QED
      BY <3>1, <3>2
  <2>3. more = [i \in 0 .. k + 1 |-> more[i]]
    OBVIOUS
  <2> HIDE DEF more
  <2>4. Turned(matches, offset, limit, more, k + 1)
    BY <2>2, <2>3 DEF Turned
  <2>5. k + 1 \in 0 .. n
    OBVIOUS
  <2> QED
    BY <2>4, <2>5
<1> HIDE DEF T
<1>3. n \in T
  BY <1>1, <1>2, UpTo
<1> QED
  BY <1>3 DEF T

LEMMA TakenUnfolds ==
  ASSUME NEW S, NEW matches \in Seq(S), NEW offset, NEW limit
  PROVE  LET taken == Taken(matches, offset, limit)
         IN  /\ taken[0] = <<>>
             /\ \A k \in 1 .. Len(matches) : taken[k] = Turn(matches, offset, limit, taken[k - 1], k)
<1> DEFINE n == Len(matches)
           taken == Taken(matches, offset, limit)
           Body(f, k) == CASE k = 0 -> <<>>
                           [] k > 0 /\ StartOf(matches[k]) >= offset
                                    /\ (f[k - 1] = <<>> \/ Len(f[k - 1]) < limit) -> Append(f[k - 1], matches[k])
                           [] OTHER -> f[k - 1]
<1>1. n \in Nat
  BY LenProperties
<1>2. taken = CHOOSE f : f = [k \in 0 .. n |-> Body(f, k)]
  BY DEF Taken
<1>3. ASSUME NEW f, NEW k \in 0 .. n
      PROVE  Body(f, k) = IF k = 0 THEN <<>> ELSE Turn(matches, offset, limit, f[k - 1], k)
  <2>1. CASE k = 0
    BY <2>1
  <2>2. CASE k # 0
    <3>1. k > 0
      BY <1>1, <2>2
    <3> QED
      BY <2>2, <3>1 DEF Turn
  <2> QED
    BY <2>1, <2>2
<1> HIDE DEF Body, taken
<1>4. PICK f : Turned(matches, offset, limit, f, n)
  BY <1>1, TurnedExists
<1> HIDE DEF n
<1>5. f = [k \in 0 .. n |-> Body(f, k)]
  BY <1>3, <1>4 DEF Turned
<1>6. taken = [k \in 0 .. n |-> Body(taken, k)]
  BY <1>2, <1>5
<1>7. \A k \in 0 .. n : taken[k] = Body(taken, k)
  BY <1>6
<1>8. taken[0] = <<>>
  <2>1. 0 \in 0 .. n
    BY <1>1
  <2> QED
    BY <1>3, <1>7, <2>1
<1>9. ASSUME NEW k \in 1 .. n
      PROVE  taken[k] = Turn(matches, offset, limit, taken[k - 1], k)
  <2>1. k \in 0 .. n /\ k # 0
    BY <1>1
  <2> QED
    BY <1>3, <1>7, <2>1
<1> QED
  BY <1>8, <1>9 DEF taken, n

Bounded(matches) == \A i \in DOMAIN matches : Len(matches[i]) >= 2

\* Capture arrays with both bounds start somewhere.
LEMMA StartTyped ==
  ASSUME NEW matches \in Seq(Captured), Bounded(matches)
  PROVE  \A i \in 1 .. Len(matches) : StartOf(matches[i]) \in Int
<1> TAKE i \in 1 .. Len(matches)
<1>1. matches[i] \in Captured
  BY ElementOfSeq
<1>2. Len(matches[i]) >= 2
  BY LenProperties DEF Bounded
<1>3. 1 \in 1 .. Len(matches[i])
  BY <1>1, <1>2, LenProperties DEF Captured
<1>4. matches[i][1] \in [at : Nat, here : BOOLEAN]
  BY <1>1, <1>3, ElementOfSeq DEF Captured
<1> QED
  BY <1>4 DEF StartOf

\* The invariant of the loop after match k.
TakenSoFar(matches, offset, limit, t, k) ==
    /\ t \in Seq(Captured)
    /\ Len(t) <= IF limit < 1 THEN 1 ELSE limit
    /\ \A i \in 1 .. Len(t) : StartOf(t[i]) >= offset
    /\ \A i \in 1 .. Len(t) : \E j \in 1 .. k : t[i] = matches[j]
    /\ \A i, j \in 1 .. Len(t) : i < j => StartOf(t[i]) < StartOf(t[j])

LEMMA TurnKeeps ==
  ASSUME NEW matches \in Seq(Captured), Bounded(matches), NEW low, InOrderFrom(low, matches),
         NEW offset \in Int, NEW limit \in Int,
         NEW k \in 1 .. Len(matches), NEW t, TakenSoFar(matches, offset, limit, t, k - 1)
  PROVE  TakenSoFar(matches, offset, limit, Turn(matches, offset, limit, t, k), k)
<1> DEFINE u == Turn(matches, offset, limit, t, k)
           n == Len(t)
           most == IF limit < 1 THEN 1 ELSE limit
<1>1. n \in Nat /\ k \in Nat /\ Len(matches) \in Nat /\ DOMAIN matches = 1 .. Len(matches)
  BY LenProperties DEF TakenSoFar
<1>2. \A i \in 1 .. n : \E j \in 1 .. k : t[i] = matches[j]
  <2>1. \A j \in 1 .. k - 1 : j \in 1 .. k
    BY <1>1
  <2> QED
    BY <2>1 DEF TakenSoFar
<1>3. CASE u = t
  BY <1>2, <1>3 DEF TakenSoFar
<1>4. CASE u # t
  <2>1. u = Append(t, matches[k]) /\ StartOf(matches[k]) >= offset /\ (t = <<>> \/ n < limit)
    BY <1>4 DEF Turn
  <2>2. matches[k] \in Captured
    BY ElementOfSeq
  <2> HIDE DEF u
  <2>3. /\ u \in Seq(Captured)
        /\ Len(u) = n + 1
        /\ \A i \in 1 .. n : u[i] = t[i]
        /\ u[n + 1] = matches[k]
    BY <2>1, <2>2, AppendProperties DEF TakenSoFar
  <2>4. n + 1 <= most
    <3>1. CASE t = <<>>
      <4>1. n = 0
        BY <3>1, EmptySeq
      <4> QED
        BY <4>1
    <3>2. CASE n < limit
      BY <1>1, <3>2
    <3> QED
      BY <2>1, <3>1, <3>2
  <2>5. ASSUME NEW i \in 1 .. n
        PROVE  StartOf(u[i]) < StartOf(matches[k])
    <3>1. PICK j \in 1 .. k - 1 : t[i] = matches[j]
      BY DEF TakenSoFar
    <3>2. j \in DOMAIN matches /\ k \in DOMAIN matches /\ j < k
      BY <1>1
    <3> QED
      BY <2>3, <3>1, <3>2 DEF InOrderFrom
  <2> HIDE DEF n
  <2>6. ASSUME NEW i \in 1 .. n + 1
        PROVE  i = n + 1 \/ i \in 1 .. n
    BY <1>1
  <2>7. ASSUME NEW i \in 1 .. n + 1, NEW j \in 1 .. n + 1, i < j
        PROVE  StartOf(u[i]) < StartOf(u[j])
    <3>1. i \in 1 .. n
      BY <1>1, <2>7
    <3>2. CASE j = n + 1
      BY <2>3, <2>5, <3>1, <3>2
    <3>3. CASE j \in 1 .. n
      BY <2>3, <2>7, <3>1, <3>3 DEF TakenSoFar, n
    <3> QED
      BY <2>6, <3>2, <3>3
  <2>8. \A i \in 1 .. n + 1 : StartOf(u[i]) >= offset
    BY <2>1, <2>3, <2>6 DEF TakenSoFar, n
  <2>9. \A i \in 1 .. n + 1 : \E j \in 1 .. k : u[i] = matches[j]
    <3>1. k \in 1 .. k
      BY <1>1
    <3> QED
      BY <1>2, <2>3, <2>6, <3>1 DEF n
  <2> HIDE DEF most
  <2>10. TakenSoFar(matches, offset, limit, u, k)
    <3>1. \A i, j \in 1 .. n + 1 : i < j => StartOf(u[i]) < StartOf(u[j])
      BY <2>7
    <3>2. Len(u) <= IF limit < 1 THEN 1 ELSE limit
      BY <2>3, <2>4 DEF most
    <3> QED
      BY <2>3, <2>8, <2>9, <3>1, <3>2 DEF TakenSoFar
  <2> QED
    BY <2>10 DEF u
<1> HIDE DEF u
<1> QED
  BY <1>3, <1>4 DEF u

\* An answer from an entry is in order, begins at the call's offset or later,
\* and keeps within a positive limit.
LEMMA FilteredInOrder ==
  ASSUME NEW matches \in Seq(Captured), Bounded(matches), NEW low, InOrderFrom(low, matches),
         NEW offset \in Int, NEW limit \in Int
  PROVE  /\ InOrderFrom(offset, Filtered(matches, offset, limit))
         /\ WithinLimit(limit, Filtered(matches, offset, limit))
<1> DEFINE n == Len(matches)
           taken == Taken(matches, offset, limit)
           t == taken[n]
           T == {k \in 0 .. n : TakenSoFar(matches, offset, limit, taken[k], k)}
<1>1. n \in Nat
  BY LenProperties
<1>2. taken[0] = <<>> /\ \A k \in 1 .. n : taken[k] = Turn(matches, offset, limit, taken[k - 1], k)
  BY TakenUnfolds
<1> HIDE DEF taken
<1>3. 0 \in T
  <2>1. TakenSoFar(matches, offset, limit, <<>>, 0)
    <3>1. Len(<<>>) = 0 /\ <<>> \in Seq(Captured)
      BY EmptySeq
    <3> QED
      BY <3>1 DEF TakenSoFar
  <2> QED
    BY <1>1, <1>2, <2>1
<1>4. ASSUME NEW k \in 0 .. n - 1, k \in T
      PROVE  k + 1 \in T
  <2>1. k + 1 \in 1 .. n /\ k + 1 \in 0 .. n /\ (k + 1) - 1 = k
    BY <1>1
  <2>2. TakenSoFar(matches, offset, limit, taken[(k + 1) - 1], (k + 1) - 1)
    BY <1>4, <2>1
  <2>3. TakenSoFar(matches, offset, limit, Turn(matches, offset, limit, taken[(k + 1) - 1], k + 1), k + 1)
    BY <2>1, <2>2, TurnKeeps
  <2> QED
    BY <1>2, <2>1, <2>3
<1>5. n \in T
  <2> HIDE DEF T, n
  <2>1. \A k \in 0 .. n - 1 : k \in T => k + 1 \in T
    BY <1>4
  <2>2. \A k \in 0 .. n : k \in T
    BY ONLY <1>1, <1>3, <2>1, UpTo
  <2>3. n \in 0 .. n
    BY <1>1
  <2> QED
    BY <2>2, <2>3
<1>6. TakenSoFar(matches, offset, limit, t, n)
  BY <1>5
<1>7. t = Filtered(matches, offset, limit)
  BY DEF Filtered, taken
<1> HIDE DEF t
<1>8. DOMAIN t = 1 .. Len(t) /\ Len(t) \in Nat
  BY <1>6, LenProperties DEF TakenSoFar
<1>9. InOrderFrom(offset, t)
  BY <1>6, <1>8 DEF TakenSoFar, InOrderFrom
<1>10. WithinLimit(limit, t)
  <2>1. Len(t) <= IF limit < 1 THEN 1 ELSE limit
    BY <1>6 DEF TakenSoFar
  <2> QED
    BY <1>8, <2>1 DEF WithinLimit
<1> QED
  BY <1>7, <1>9, <1>10

\* A call that asks again what was asked when the entry was stored, with a limit,
\* gets all of the entry.
LEMMA FilteredWhole ==
  ASSUME NEW matches \in Seq(Captured), NEW offset, InOrderFrom(offset, matches),
         NEW limit \in Int, limit > 0, WithinLimit(limit, matches)
  PROVE  Filtered(matches, offset, limit) = matches
<1> DEFINE n == Len(matches)
           taken == Taken(matches, offset, limit)
           T == {k \in 0 .. n : /\ taken[k] \in Seq(Captured)
                                /\ Len(taken[k]) = k
                                /\ \A i \in 1 .. k : taken[k][i] = matches[i]}
<1>1. n \in Nat /\ n <= limit /\ DOMAIN matches = 1 .. n
  BY LenProperties DEF WithinLimit
<1>2. taken[0] = <<>> /\ \A k \in 1 .. n : taken[k] = Turn(matches, offset, limit, taken[k - 1], k)
  BY TakenUnfolds
<1>3. taken[n] = Filtered(matches, offset, limit)
  BY DEF Filtered
<1> HIDE DEF taken
<1>4. 0 \in T
  <2>1. Len(<<>>) = 0 /\ <<>> \in Seq(Captured)
    BY EmptySeq
  <2>2. taken[0] \in Seq(Captured) /\ Len(taken[0]) = 0
    BY <1>2, <2>1
  <2>3. \A i \in 1 .. 0 : taken[0][i] = matches[i]
    OBVIOUS
  <2>4. 0 \in 0 .. n
    BY <1>1
  <2> QED
    BY <2>2, <2>3, <2>4
<1>5. ASSUME NEW k \in 0 .. n - 1, k \in T
      PROVE  k + 1 \in T
  <2> DEFINE t == taken[k]
  <2>1. t \in Seq(Captured) /\ Len(t) = k /\ \A i \in 1 .. k : t[i] = matches[i]
    BY <1>5
  <2>2. k + 1 \in 1 .. n /\ k + 1 \in 0 .. n /\ (k + 1) - 1 = k /\ k < limit
    BY <1>1
  <2>3. StartOf(matches[k + 1]) >= offset /\ matches[k + 1] \in Captured
    BY <1>1, <2>2, ElementOfSeq DEF InOrderFrom
  <2>4. taken[k + 1] = Append(t, matches[k + 1])
    BY <1>2, <2>1, <2>2, <2>3 DEF Turn
  <2> HIDE DEF t
  <2>5. /\ taken[k + 1] \in Seq(Captured)
        /\ Len(taken[k + 1]) = k + 1
        /\ \A i \in 1 .. k : taken[k + 1][i] = t[i]
        /\ taken[k + 1][k + 1] = matches[k + 1]
    BY <2>1, <2>3, <2>4, AppendProperties
  <2>6. ASSUME NEW i \in 1 .. k + 1
        PROVE  taken[k + 1][i] = matches[i]
    <3>1. CASE i = k + 1
      BY <2>5, <3>1
    <3>2. CASE i # k + 1
      <4>1. i \in 1 .. k
        BY <3>2
      <4> QED
        BY <2>1, <2>5, <4>1
    <3> QED
      BY <3>1, <3>2
  <2>7. /\ taken[k + 1] \in Seq(Captured)
        /\ Len(taken[k + 1]) = k + 1
        /\ \A i \in 1 .. k + 1 : taken[k + 1][i] = matches[i]
    BY <2>5, <2>6
  <2> QED
    BY <2>2, <2>7
<1>6. n \in T
  <2> HIDE DEF T, n
  <2>1. \A k \in 0 .. n - 1 : k \in T => k + 1 \in T
    BY <1>5
  <2>2. \A k \in 0 .. n : k \in T
    BY ONLY <1>1, <1>4, <2>1, UpTo
  <2>3. n \in 0 .. n
    BY <1>1
  <2> QED
    BY <2>2, <2>3
<1>7. taken[n] \in Seq(Captured) /\ Len(taken[n]) = Len(matches)
      /\ \A i \in 1 .. Len(matches) : taken[n][i] = matches[i]
  BY <1>6
<1>8. taken[n] = matches
  <2> DEFINE whole == taken[n]
  <2>1. whole \in Seq(Captured) /\ Len(whole) = Len(matches) /\ \A i \in 1 .. Len(matches) : whole[i] = matches[i]
    BY <1>7
  <2> HIDE DEF whole
  <2> QED
    BY <2>1, SeqEqual DEF whole
<1> QED
  BY <1>3, <1>8

-----------------------------------------------------------------------------
(* The invariant: every entry is what a call of the program found for the  *)
(* entry's pattern, what a call has to store it found, and an answer was   *)
(* searched for or taken of an entry of its pattern.                       *)

Searching(req) == [state |-> "storing", req |-> req, result |-> Searched(req)]

WasFound(prog, p, matches) ==
    \E req \in prog.requests :
        req.p = p /\ Searched(req).outcome = "ok" /\ Searched(req).matches = matches

OfAnEntry(prog, req, outcome) ==
    \E matches \in Seq(Captured) :
        /\ WasFound(prog, req.p, matches)
        /\ outcome = [outcome |-> "ok", matches |-> Filtered(matches, req.offset, req.limit)]

Answered(prog, req, outcome) == outcome = Searched(req) \/ OfAnEntry(prog, req, outcome)

EntriesFound ==
    /\ cache \in Seq([pattern : Patterns, matches : Seq(Captured)])
    /\ CacheBounded
    /\ \A i \in DOMAIN cache : WasFound(program, cache[i].pattern, cache[i].matches)

Storing(prog, call) ==
    \E req \in prog.requests : Searched(req).outcome = "ok" /\ call = Searching(req)

PendingFound ==
    /\ pending = [c \in Callers |-> pending[c]]
    /\ \A c \in Callers : pending[c] = Idle \/ Storing(program, pending[c])

AnswerFound ==
    \/ answer = NoAnswer
    \/ \E req \in program.requests :
        /\ answer = [state |-> "returned", req |-> req, outcome |-> answer.outcome]
        /\ Answered(program, req, answer.outcome)

Inv ==
    /\ program \in Programs
    /\ dfas \subseteq Patterns
    /\ EntriesFound
    /\ PendingFound
    /\ AnswerFound

\* A search of the program that succeeds finds capture arrays, in order.
LEMMA SearchProperties ==
  ASSUME program \in Programs, NEW req \in Request
  PROVE  /\ req.offset \in Int /\ req.limit \in Int
         /\ Searched(req).outcome \in {"ok", "error", "panic"}
         /\ Searched(req).outcome = "ok" =>
              /\ Searched(req) \in Result
              /\ Searched(req).matches \in Seq(Captured)
              /\ Bounded(Searched(req).matches)
              /\ InOrderFrom(req.offset, Searched(req).matches)
              /\ WithinLimit(req.limit, Searched(req).matches)
              /\ AreMatches(program, req.p, Searched(req).matches)
<1>1. req \in program.requests
  BY DEF Request
<1>2. req.offset \in Int /\ req.limit \in Int
  BY <1>1, RequestAssumption
<1>3. Searched(req) \in Result \cup Failure
  BY <1>1, SearchAssumption
<1>4. Searched(req).outcome \in {"ok", "error", "panic"}
  BY <1>3 DEF Result, Failure
<1>5. ASSUME Searched(req).outcome = "ok"
      PROVE  /\ Searched(req) \in Result
             /\ Searched(req).matches \in Seq(Captured)
             /\ Bounded(Searched(req).matches)
             /\ InOrderFrom(req.offset, Searched(req).matches)
             /\ WithinLimit(req.limit, Searched(req).matches)
             /\ AreMatches(program, req.p, Searched(req).matches)
  <2>1. Searched(req) \in Result
    BY <1>3, <1>5 DEF Failure
  <2>2. Searched(req).matches \in Seq(Captured)
    BY <2>1 DEF Result
  <2> QED
    BY <1>1, <1>5, <2>1, <2>2, SearchAssumption DEF Bounded
<1> QED
  BY <1>2, <1>4, <1>5

-----------------------------------------------------------------------------
(* The invariant holds at first, and every step keeps it. *)

LEMMA Initially == Init => Inv
<1> SUFFICES ASSUME Init
             PROVE  Inv
  OBVIOUS
<1>1. program \in Programs /\ dfas \subseteq Patterns /\ AnswerFound
  BY DEF Init, AnswerFound
<1>2. EntriesFound
  <2>1. Len(<<>>) = 0 /\ <<>> \in Seq([pattern : Patterns, matches : Seq(Captured)])
    BY EmptySeq
  <2>2. cache = <<>> /\ DOMAIN cache = {}
    BY <2>1 DEF Init
  <2>3. Len(cache) <= MaxSize
    BY <2>1, <2>2, MaxSizeAssumption DEF MaxSizeAssumption
  <2> QED
    BY <2>1, <2>2, <2>3 DEF EntriesFound, CacheBounded
<1>3. PendingFound
  BY DEF Init, PendingFound
<1> QED
  BY <1>1, <1>2, <1>3 DEF Inv

\* A call of the program that returns as it should.
LEMMA Returned ==
  ASSUME NEW req \in program.requests, NEW outcome, program' = program,
         Returns(req, outcome), Answered(program, req, outcome)
  PROVE  AnswerFound'
BY DEF Returns, AnswerFound

LEMMA HitKeeps ==
  ASSUME Inv, NEW c \in Callers, NEW req \in Request, Hit(c, req)
  PROVE  Inv'
<1>1. program' = program /\ cache' = cache /\ dfas' = dfas /\ pending' = pending
  BY DEF Hit
<1>2. program' \in Programs /\ (dfas \subseteq Patterns)' /\ EntriesFound' /\ PendingFound'
  BY <1>1 DEF Inv, Patterns, Request, EntriesFound, CacheBounded, PendingFound
<1>3. AnswerFound'
  <2>1. PICK i \in Entries(req.p) :
          Returns(req, [outcome |-> "ok", matches |-> Filtered(cache[i].matches, req.offset, req.limit)])
    BY DEF Hit
  <2> DEFINE matches == cache[i].matches
             outcome == [outcome |-> "ok", matches |-> Filtered(matches, req.offset, req.limit)]
  <2>2. i \in DOMAIN cache /\ cache[i].pattern = req.p
    BY DEF Entries
  <2>3. WasFound(program, req.p, matches)
    BY <2>2 DEF Inv, EntriesFound
  <2>4. matches \in Seq(Captured)
    <3>1. i \in 1 .. Len(cache) /\ cache \in Seq([pattern : Patterns, matches : Seq(Captured)])
      BY <2>2, LenProperties DEF Inv, EntriesFound
    <3>2. cache[i] \in [pattern : Patterns, matches : Seq(Captured)]
      BY <3>1, ElementOfSeq
    <3> QED
      BY <3>2
  <2> HIDE DEF matches
  <2>5. Answered(program, req, outcome)
    BY <2>3, <2>4 DEF Answered, OfAnEntry
  <2>6. Returns(req, outcome)
    BY <2>1 DEF matches
  <2> HIDE DEF outcome
  <2> QED
    BY <1>1, <2>5, <2>6, Returned DEF Request
<1> QED
  BY <1>2, <1>3 DEF Inv

LEMMA MissKeeps ==
  ASSUME Inv, NEW c \in Callers, NEW req \in Request, Miss(c, req)
  PROVE  Inv'
<1>1. program' = program /\ cache' = cache
  BY DEF Miss
<1>2. program' \in Programs /\ EntriesFound'
  BY <1>1 DEF Inv, Patterns, Request, EntriesFound, CacheBounded
<1>3. (dfas \subseteq Patterns)'
  BY <1>1 DEF Miss, Inv, Patterns, Request
<1>4. CASE Searched(req).outcome = "ok"
  <2>1. answer' = answer /\ pending' = [pending EXCEPT ![c] = Searching(req)]
    BY <1>4 DEF Miss, Searching
  <2>2. AnswerFound'
    BY <1>1, <2>1 DEF Inv, AnswerFound
  <2>3. Storing(program, Searching(req))
    BY <1>4 DEF Storing, Request
  <2>4. PendingFound'
    BY <1>1, <2>1, <2>3 DEF Inv, PendingFound
  <2> QED
    BY <1>2, <1>3, <2>2, <2>4 DEF Inv
<1>5. CASE Searched(req).outcome # "ok"
  <2>1. Returns(req, Searched(req)) /\ pending' = pending
    BY <1>5 DEF Miss
  <2>2. Answered(program, req, Searched(req))
    BY DEF Answered
  <2>3. AnswerFound'
    BY <1>1, <2>1, <2>2, Returned DEF Request
  <2>4. PendingFound'
    BY <1>1, <2>1 DEF Inv, PendingFound
  <2> QED
    BY <1>2, <1>3, <2>3, <2>4 DEF Inv
<1> QED
  BY <1>4, <1>5

LEMMA StoreKeeps ==
  ASSUME Inv, NEW c \in Callers, Store(c)
  PROVE  Inv'
<1>1. program' = program /\ dfas' = dfas /\ pending' = [pending EXCEPT ![c] = Idle]
  BY DEF Store
<1>2. program' \in Programs /\ (dfas \subseteq Patterns)' /\ PendingFound'
  BY <1>1 DEF Inv, Patterns, Request, PendingFound
<1>3. PICK req \in program.requests : Searched(req).outcome = "ok" /\ pending[c] = Searching(req)
  BY DEF Inv, PendingFound, Storing, Store, Idle
<1> DEFINE matches == Searched(req).matches
           entry == [pattern |-> req.p, matches |-> matches]
           Entry == [pattern : Patterns, matches : Seq(Captured)]
<1>4. Put(req.p, matches) /\ Returns(req, Searched(req))
  BY <1>3 DEF Store, Searching
<1>5. AnswerFound'
  <2>1. Answered(program, req, Searched(req))
    BY DEF Answered
  <2> QED
    BY <1>1, <1>4, <2>1, Returned
<1>6. EntriesFound'
  <2>1. entry \in Entry
    <3>1. matches \in Seq(Captured)
      BY <1>3, SearchProperties DEF Inv, Request
    <3>2. req.p \in Patterns
      BY DEF Patterns, Request
    <3> HIDE DEF matches
    <3> QED
      BY <3>1, <3>2
  <2>2. WasFound(program, req.p, matches)
    BY <1>3 DEF WasFound
  <2> HIDE DEF matches
  <2>3. cache \in Seq(Entry) /\ Len(cache) <= MaxSize /\ NoneTwice(cache)
    BY DEF Inv, EntriesFound, CacheBounded, NoneTwice
  <2> HIDE DEF Entry
  <2>4. /\ cache' \in Seq(Entry)
        /\ Len(cache') <= MaxSize
        /\ NoneTwice(cache')
        /\ \A i \in DOMAIN cache' : cache'[i] = entry \/ \E j \in DOMAIN cache : cache'[i] = cache[j]
    BY <1>4, <2>1, <2>3, PutProperties, MaxSizeAssumption
  <2>5. ASSUME NEW i \in DOMAIN cache'
        PROVE  WasFound(program, cache'[i].pattern, cache'[i].matches)
    <3>1. CASE cache'[i] = entry
      BY <2>2, <3>1
    <3>2. CASE \E j \in DOMAIN cache : cache'[i] = cache[j]
      BY <3>2 DEF Inv, EntriesFound
    <3> QED
      BY <2>4, <3>1, <3>2
  <2>6. Patterns' = Patterns
    BY <1>1 DEF Patterns, Request
  <2> QED
    BY <1>1, <2>4, <2>5, <2>6 DEF EntriesFound, CacheBounded, NoneTwice, Entry
<1> QED
  BY <1>2, <1>5, <1>6 DEF Inv

LEMMA StepKeeps == Inv /\ [Next]_vars => Inv'
<1> SUFFICES ASSUME Inv, [Next]_vars
             PROVE  Inv'
  OBVIOUS
<1>1. CASE Next
  BY <1>1, HitKeeps, MissKeeps, StoreKeeps DEF Next
<1>2. CASE UNCHANGED vars
  BY <1>2 DEF vars, Inv, Patterns, Request, EntriesFound, CacheBounded, PendingFound, AnswerFound
<1> QED
  BY <1>1, <1>2

\* In every behaviour the invariant holds.
THEOREM Invariant == Spec => []Inv
BY Initially, StepKeeps, PTL DEF Spec

-----------------------------------------------------------------------------
(* What follows from the invariant. *)

LEMMA FoundIsReal ==
  ASSUME program \in Programs, NEW p, NEW matches, WasFound(program, p, matches)
  PROVE  /\ matches \in Seq(Captured)
         /\ Bounded(matches)
         /\ \E low \in Int : InOrderFrom(low, matches)
         /\ AreMatches(program, p, matches)
<1>1. PICK req \in Request : req.p = p /\ Searched(req).outcome = "ok" /\ Searched(req).matches = matches
  BY DEF WasFound, Request
<1> QED
  BY <1>1, SearchProperties

\* The cache holds at most maxSize patterns, none twice, complete capture arrays,
\* and what goroutines have under way are requests of the program: whatever
\* searches, lookups and stores interleave.
THEOREM TypeCorrect == Spec => []TypeOK
<1>1. ASSUME Inv
      PROVE  TypeOK
  <2>1. ASSUME NEW c \in Callers
        PROVE  \/ pending[c] = Idle
               \/ pending[c] \in [state : {"storing"}, req : Request, result : Result]
    <3>1. CASE Storing(program, pending[c])
      <4>1. PICK req \in Request : Searched(req).outcome = "ok" /\ pending[c] = Searching(req)
        BY <3>1 DEF Storing, Request
      <4>2. Searched(req) \in Result
        BY <1>1, <4>1, SearchProperties DEF Inv
      <4> QED
        BY <4>1, <4>2 DEF Searching
    <3> QED
      BY <1>1, <3>1 DEF Inv, PendingFound
  <2>2. answer = NoAnswer \/ (answer.req \in Request /\ answer.outcome.outcome \in {"ok", "error", "panic"})
    <3>1. SUFFICES ASSUME answer # NoAnswer
                   PROVE  answer.req \in Request /\ answer.outcome.outcome \in {"ok", "error", "panic"}
      OBVIOUS
    <3> DEFINE outcome == answer.outcome
    <3>2. PICK req \in Request : /\ answer = [state |-> "returned", req |-> req, outcome |-> outcome]
                                 /\ Answered(program, req, outcome)
      BY <1>1, <3>1 DEF Inv, AnswerFound, Request
    <3>3. outcome.outcome \in {"ok", "error", "panic"}
      BY <1>1, <3>2, SearchProperties DEF Inv, Answered, OfAnEntry
    <3> QED
      BY <3>2, <3>3
  <2> QED
    BY <1>1, <2>1, <2>2 DEF Inv, EntriesFound, TypeOK
<1> QED
  BY <1>1, Invariant, PTL

\* No goroutine's result gets under another's pattern: the matches of an entry
\* are matches its pattern has, also while goroutines evict each other's entries
\* and store the same pattern again.
THEOREM EntriesAreReal == Spec => []CachedAreReal
<1>1. ASSUME Inv
      PROVE  CachedAreReal
  BY <1>1, FoundIsReal DEF Inv, EntriesFound, CachedAreReal
<1> QED
  BY <1>1, Invariant, PTL

\* A call answers with matches from its offset on, in order and within a positive
\* limit, whether it searched or took them of what another call found.
THEOREM AnswersAreInOrder == Spec => []AnswersInOrder
<1>1. ASSUME Inv, answer # NoAnswer, answer.outcome.outcome = "ok"
      PROVE  /\ InOrderFrom(answer.req.offset, answer.outcome.matches)
             /\ WithinLimit(answer.req.limit, answer.outcome.matches)
  <2> DEFINE outcome == answer.outcome
  <2>1. PICK req \in Request : /\ answer = [state |-> "returned", req |-> req, outcome |-> outcome]
                               /\ Answered(program, req, outcome)
    BY <1>1 DEF Inv, AnswerFound, Request
  <2>2. answer.req = req /\ answer.outcome = outcome /\ outcome.outcome = "ok"
    BY <1>1, <2>1
  <2>3. CASE outcome = Searched(req)
    BY <1>1, <2>2, <2>3, SearchProperties DEF Inv
  <2>4. CASE OfAnEntry(program, req, outcome)
    <3>1. PICK matches \in Seq(Captured) :
            /\ WasFound(program, req.p, matches)
            /\ outcome = [outcome |-> "ok", matches |-> Filtered(matches, req.offset, req.limit)]
      BY <2>4 DEF OfAnEntry
    <3>2. PICK low \in Int : InOrderFrom(low, matches)
      BY <1>1, <3>1, FoundIsReal DEF Inv
    <3>3. Bounded(matches) /\ req.offset \in Int /\ req.limit \in Int
      BY <1>1, <3>1, FoundIsReal, SearchProperties DEF Inv
    <3>4. /\ InOrderFrom(req.offset, Filtered(matches, req.offset, req.limit))
          /\ WithinLimit(req.limit, Filtered(matches, req.offset, req.limit))
      BY <3>2, <3>3, FilteredInOrder
    <3> QED
      BY <2>2, <3>1, <3>4
  <2> QED
    BY <2>1, <2>3, <2>4 DEF Answered
<1>2. Inv => AnswersInOrder
  BY <1>1 DEF AnswersInOrder
<1> QED
  BY <1>2, Invariant, PTL

\* Calls that share a pattern are the same call, and all calls give a limit.
OneCallPerPattern ==
    \A prog \in Programs : \A req, other \in prog.requests :
        req.limit > 0 /\ (req.p = other.p => req = other)

\* The cache shows in no answer of a process that uses every pattern with one
\* source, offset and limit only: the stale answers of HistoryFree's run need a
\* pattern that is used twice.
THEOREM OneCallHistoryFree ==
  ASSUME OneCallPerPattern
  PROVE  Spec => []HistoryFree
<1>1. ASSUME Inv, answer # NoAnswer
      PROVE  answer.outcome = Searched(answer.req)
  <2> DEFINE outcome == answer.outcome
  <2>1. PICK req \in program.requests :
          /\ answer = [state |-> "returned", req |-> req, outcome |-> outcome]
          /\ Answered(program, req, outcome)
    BY <1>1 DEF Inv, AnswerFound
  <2>2. CASE OfAnEntry(program, req, outcome)
    <3>1. PICK matches \in Seq(Captured) :
            /\ WasFound(program, req.p, matches)
            /\ outcome = [outcome |-> "ok", matches |-> Filtered(matches, req.offset, req.limit)]
      BY <2>2 DEF OfAnEntry
    <3>2. req.limit > 0 /\ Searched(req).outcome = "ok" /\ Searched(req).matches = matches
      BY <1>1, <3>1, OneCallPerPattern DEF Inv, WasFound, OneCallPerPattern
    <3>3. /\ Searched(req) \in Result
          /\ req.limit \in Int
          /\ InOrderFrom(req.offset, matches)
          /\ WithinLimit(req.limit, matches)
      BY <1>1, <3>2, SearchProperties DEF Inv, Request
    <3>4. Filtered(matches, req.offset, req.limit) = matches
      BY <3>2, <3>3, FilteredWhole
    <3>5. Searched(req) = [outcome |-> "ok", matches |-> matches]
      BY <3>2, <3>3 DEF Result
    <3> QED
      BY <2>1, <3>1, <3>4, <3>5
  <2> QED
    BY <2>1, <2>2 DEF Answered
<1>2. Inv => HistoryFree
  BY <1>1 DEF HistoryFree
<1> QED
  BY <1>2, Invariant, PTL
===============================================================================
