------------------------------- MODULE LTable -------------------------------
(* LTable (table.go): an array for the keys 1 .. MaxArrayIndex - 1, a hash    *)
(* for all others, and the list of hash keys, in the order they were first    *)
(* set, that next follows.  Append and Insert look at no limit: they make the *)
(* array as long as they are asked to, past the keys that are looked up in    *)
(* it.  The two maps strdict and dict of the code, for strings and for the    *)
(* rest, are one function here: no operation treats a key of one differently  *)
(* from a key of the other.  A nil array and an empty one are the same.       *)
EXTENDS Integers, Sequences, FiniteSets, FiniteSetsExt

CONSTANTS
  Number,         \* the integers used as keys
  Other,          \* the keys that are no integers
  Value,
  LNil,
  MaxArrayIndex,
  MaxLength       \* bound: no list operation makes the array longer

ASSUME LTableAssumption ==
  /\ Number \subseteq Int
  /\ LNil \notin Value \cup Number \cup Other
  /\ Number \cap Other = {}
  /\ MaxArrayIndex \in Nat \ {0}
  /\ 1 .. MaxArrayIndex - 1 \subseteq Number
  /\ MaxLength \in Nat
  /\ 1 .. MaxLength \subseteq Number

Key == Number \cup Other
LValue == Value \cup {LNil}

VARIABLES
  array,   \* the values of the keys 1, 2, ...
  hash,    \* dict and strdict: the values of the other keys that are not nil
  keys,    \* every key that was ever in hash
  k2i,     \* the index, from 0, of each of them
  \* the program that traverses the table
  last,       \* the key next returned last, LNil at first
  traversal,  \* "none", "going on" or "done"
  visited,    \* what it returned
  pending     \* what it has to return still

table == <<array, hash, keys, k2i>>
program == <<last, traversal, visited, pending>>
vars == <<table, program>>

-----------------------------------------------------------------------------
(* Reading. *)

IsArrayKey(k) == k \in 1 .. MaxArrayIndex - 1

RawGetH(k) == IF k \in DOMAIN hash THEN hash[k] ELSE LNil

RawGet(k) ==
  IF IsArrayKey(k)
  THEN IF k <= Len(array) THEN array[k] ELSE LNil
  ELSE RawGetH(k)

RawGetInt(i) == IF i \in DOMAIN array THEN array[i] ELSE LNil

Present == {k \in Key : RawGet(k) # LNil}

\* Len and MaxN: the last array slot that is not nil.
TableLen == IF \E i \in DOMAIN array : array[i] # LNil
            THEN Max({i \in DOMAIN array : array[i] # LNil}) ELSE 0

\* Every element of the array is at an array key.
Fits == Len(array) < MaxArrayIndex

-----------------------------------------------------------------------------
(* Next. *)

\* The first position from p on whose key is in the hash still, none for LNil.
KeyFrom(p) ==
  LET live == {i \in p .. Len(keys) - 1 : RawGetH(keys[i + 1]) # LNil}
  IN  IF live = {} THEN LNil ELSE keys[Min(live) + 1]

\* A Go map gives 0 for a key it does not hold.
Index(k) == IF k \in DOMAIN k2i THEN k2i[k] ELSE 0

NextInArray(k) == LET index == IF k = LNil THEN 0 ELSE k IN
  {i \in DOMAIN array : i > index /\ array[i] # LNil}

\* Whether the key is looked up as an index of the array.
InArrayRange(k) == k = LNil \/ IsArrayKey(k)

\* Mutant: the first key of the hash is forgotten.
NextKeyAfterFirst(k) ==
  IF InArrayRange(k) /\ NextInArray(k) # {} THEN Min(NextInArray(k))
  ELSE IF InArrayRange(k) THEN KeyFrom(1)
  ELSE KeyFrom(Index(k) + 1)

\* Mutant: the index of the key given is not stepped over.
NextKeyAgain(k) ==
  IF InArrayRange(k) /\ NextInArray(k) # {} THEN Min(NextInArray(k))
  ELSE IF k = LNil \/ (IsArrayKey(k) /\ k <= Len(array)) THEN KeyFrom(0)
  ELSE KeyFrom(Index(k))

\* After the array comes keys[0], unless the key given is past the array.
NextKey(k) ==
  IF InArrayRange(k) /\ NextInArray(k) # {} THEN Min(NextInArray(k))
  ELSE IF k = LNil \/ (IsArrayKey(k) /\ k <= Len(array)) THEN KeyFrom(0)
  ELSE KeyFrom(Index(k) + 1)

-----------------------------------------------------------------------------
(* Writing. *)

Padding(n) == [i \in 1 .. n |-> LNil]

SetArray(i, v) ==
  /\ array' = IF i <= Len(array) THEN [array EXCEPT ![i] = v]
              ELSE array \o Append(Padding(i - Len(array) - 1), v)
  /\ UNCHANGED <<hash, keys, k2i>>

\* Mutant: the key is listed again.
RelistingRawSetH(k, v) ==
  /\ UNCHANGED array
  /\ IF v = LNil
     THEN /\ hash' = [x \in DOMAIN hash \ {k} |-> hash[x]]
          /\ UNCHANGED <<keys, k2i>>
     ELSE /\ hash' = [x \in DOMAIN hash \cup {k} |-> IF x = k THEN v ELSE hash[x]]
          /\ keys' = IF k \in DOMAIN hash THEN keys ELSE Append(keys, k)
          /\ k2i' = [x \in DOMAIN k2i \cup {k} |-> IF x = k THEN Len(keys') - 1 ELSE k2i[x]]

\* RawSetH and RawSetString: a cleared key stays in keys and k2i.
RawSetH(k, v) ==
  /\ UNCHANGED array
  /\ IF v = LNil
     THEN /\ hash' = [x \in DOMAIN hash \ {k} |-> hash[x]]
          /\ UNCHANGED <<keys, k2i>>
     ELSE /\ hash' = [x \in DOMAIN hash \cup {k} |-> IF x = k THEN v ELSE hash[x]]
          /\ IF k \in DOMAIN k2i
             THEN UNCHANGED <<keys, k2i>>
             ELSE /\ keys' = Append(keys, k)
                  /\ k2i' = [x \in DOMAIN k2i \cup {k} |-> IF x = k THEN Len(keys) ELSE k2i[x]]

\* Mutant: a key past the next free slot goes to the hash.
DenseRawSet(k, v) ==
  IF IsArrayKey(k) /\ k <= Len(array) + 1 THEN SetArray(k, v) ELSE RawSetH(k, v)

RawSet(k, v) == IF IsArrayKey(k) THEN SetArray(k, v) ELSE RawSetH(k, v)

-----------------------------------------------------------------------------
(* What the program does to the table.  It knows of its traversal what the    *)
(* Lua manual tells it: fields may be changed and cleared, not added.         *)

Ends(how) == last' = LNil /\ traversal' = how /\ visited' = {} /\ pending' = {}

Set(k, v) ==
  /\ RawSet(k, v)
  /\ IF k \in Present \/ v = LNil
     THEN /\ pending' = IF v = LNil THEN pending \ {k} ELSE pending
          /\ UNCHANGED <<last, traversal, visited>>
     ELSE Ends("none")

\* Bound: list operations stop at MaxLength, below MaxArrayIndex or above it.
HasRoom == Len(array) < MaxLength

\* table.insert(t, v): behind the last element, whatever its key.
Push(v) ==
  /\ v # LNil
  /\ HasRoom \/ TableLen < Len(array)
  /\ SetArray(TableLen + 1, v)
  /\ Ends("none")

\* Mutant: inserted behind the position.
InsertedAfter(i, v) == SubSeq(array, 1, i) \o <<v>> \o SubSeq(array, i + 1, Len(array))

Inserted(i, v) == SubSeq(array, 1, i - 1) \o <<v>> \o SubSeq(array, i, Len(array))

\* table.insert(t, i, v): positions past the array and before 1 are set.
Insert(i, v) ==
  /\ IF i \in 1 .. Len(array)
     THEN /\ HasRoom
          /\ array' = Inserted(i, v)
          /\ UNCHANGED <<hash, keys, k2i>>
     ELSE RawSet(i, v)
  /\ Ends("none")

\* Mutant: the element before the position is removed.
RemovedBefore(pos) ==
  IF pos < 1 \/ pos = Len(array) THEN SubSeq(array, 1, Len(array) - 1)
  ELSE SubSeq(array, 1, pos - 1) \o SubSeq(array, pos + 2, Len(array))

\* The array without position pos; a position before 1 means the last one.
Removed(pos) ==
  IF pos < 1 \/ pos = Len(array) THEN SubSeq(array, 1, Len(array) - 1)
  ELSE SubSeq(array, 1, pos - 1) \o SubSeq(array, pos + 1, Len(array))

\* table.remove(t, pos), and pos = -1 for table.remove(t).
Remove(pos) ==
  /\ array # <<>>
  /\ pos <= Len(array)
  /\ array' = Removed(pos)
  /\ UNCHANGED <<hash, keys, k2i>>
  /\ Ends("none")

RemovedValue(pos) ==
  IF array = <<>> \/ pos > Len(array) THEN LNil
  ELSE IF pos < 1 THEN array[Len(array)] ELSE array[pos]

-----------------------------------------------------------------------------
(* The traversal: for k, v = next, t, nil. *)

Start ==
  /\ last' = LNil
  /\ traversal' = "going on"
  /\ visited' = {}
  /\ pending' = Present
  /\ UNCHANGED table

Advance ==
  /\ traversal = "going on"
  /\ IF NextKey(last) = LNil
     THEN Ends("done")
     ELSE /\ last' = NextKey(last)
          /\ visited' = visited \cup {last'}
          /\ pending' = pending \ {last'}
          /\ UNCHANGED traversal
  /\ UNCHANGED table

Init ==
  /\ array = <<>>
  /\ hash = <<>>
  /\ keys = <<>>
  /\ k2i = <<>>
  /\ last = LNil /\ traversal = "none" /\ visited = {} /\ pending = {}

Next ==
  \/ \E k \in Key, v \in LValue : Set(k, v)
  \/ \E v \in LValue : Push(v)
  \/ \E i \in Number, v \in LValue : Insert(i, v)
  \/ \E pos \in Number : Remove(pos)
  \/ Start \/ Advance

Spec == Init /\ [][Next]_vars

-----------------------------------------------------------------------------
\* The hash holds no array key and no nil; the array may hold more than the array
\* keys (Append, Insert).
TypeOK ==
  /\ array \in Seq(LValue)
  /\ DOMAIN array \subseteq Number
  /\ DOMAIN hash \subseteq {k \in Key : ~IsArrayKey(k)}
  /\ \A k \in DOMAIN hash : hash[k] \in Value
  /\ keys \in Seq(Key)
  /\ last \in Key \cup {LNil}
  /\ traversal \in {"none", "going on", "done"}
  /\ visited \subseteq Key /\ pending \subseteq Key

\* keys and k2i are inverse to each other and list every key of the hash once
\* (RawSetH, RawSetString): next neither repeats nor misses one.
KeysIndexed ==
  /\ DOMAIN k2i = {keys[i] : i \in DOMAIN keys}
  /\ \A i \in DOMAIN keys : k2i[keys[i]] = i - 1
  /\ DOMAIN hash \subseteq DOMAIN k2i

\* The order of a traversal: the array first, then the hash keys as listed.
NotAfter(k, l) ==
  IF IsArrayKey(l) THEN IsArrayKey(k) /\ k <= l
  ELSE IsArrayKey(k) \/ k2i[k] <= k2i[l]

\* While the traversal goes on, what it returned is what comes up to the key last
\* returned, cleared or not, and all other fields are pending; that key keeps its
\* place although fields are changed and cleared (Next finds it by k2i).  Of a list
\* that reached MaxArrayIndex next loses its place (table.go:359).
VisitedInOrder ==
  Fits /\ traversal = "going on" =>
    /\ pending = Present \ visited
    /\ last = LNil => visited = {}
    /\ last # LNil =>
         /\ IF IsArrayKey(last) THEN last <= Len(array) ELSE last \in DOMAIN k2i
         /\ \A k \in visited : NotAfter(k, last) /\ (IsArrayKey(k) \/ k \in DOMAIN k2i)
         /\ \A k \in Present : NotAfter(k, last) => k \in visited

\* As long as the list is shorter than MaxArrayIndex, next returns a field that was
\* not returned yet and is there still, and nil only when none is left (table.go:351).
NextIsNew ==
  Fits /\ traversal = "going on" =>
    IF NextKey(last) = LNil THEN pending = {} ELSE NextKey(last) \in pending

\* The table is a map, its list operations shift, its traversal is complete and
\* returns nothing twice, until Append or Insert makes the list MaxArrayIndex long;
\* from then on list operations leave the fields of the hash alone, and once Remove
\* made the list shorter the table is a map with a traversal again (table.go).
Abstract == INSTANCE LuaTable WITH
  content <- [k \in Key |-> RawGet(k)],
  overfull <- ~Fits,
  traversal <- IF Fits THEN traversal ELSE "none",
  visited <- IF Fits THEN visited ELSE {},
  pending <- IF Fits THEN pending ELSE {}

ImplementsLuaTable == Abstract!Spec

\* Every operation does what its name says, at the key or position it was given: a
\* key is set in a list of any length, a list is shifted between the position and
\* the end of the array as long as all of it is at array keys, and next goes to a
\* key not visited, or ends when none is left out (table.go).
OperationsAgree == [][
  /\ \A k \in Key, v \in LValue : Set(k, v) => Abstract!Set(k, v)
  /\ \A v \in Value : Push(v) =>
       IF IsArrayKey(TableLen + 1) THEN Abstract!Add(TableLen + 1, v) ELSE Abstract!Exceed
  /\ \A i \in Number, v \in LValue : Insert(i, v) =>
       IF i \notin 1 .. Len(array) THEN Abstract!Add(i, v)
       ELSE IF IsArrayKey(Len(array) + 1) THEN Abstract!InsertAt(i, Len(array), v)
       ELSE Abstract!Exceed
  /\ \A pos \in Number : Remove(pos) =>
       IF Fits THEN Abstract!RemoveAt(IF pos < 1 THEN Len(array) ELSE pos, Len(array))
       ELSE Abstract!Exceed
  /\ Advance /\ Fits => Abstract!Finish \/ \E k \in Key : Abstract!Visit(k)]_vars

-----------------------------------------------------------------------------
(* What the code does not keep: each of these fails.                          *)

\* table.remove(t) takes away the last element, at position #t ("Remove removes
\* from this table the element at a given position", table.go:118).
RemovesLast == [][Remove(-1) /\ TableLen > 0 => RemovedValue(-1) # LNil]_vars

\* What was appended is found behind the list ("Append appends a given LValue to
\* this LTable", table.go:65): not at MaxArrayIndex, which RawGet takes for a key of
\* the hash.
PushIsFound == [][\A k \in Key, v \in Value : k = TableLen + 1 /\ Push(v) => RawGet(k)' = v]_vars

\* Next visits every field of a list of any length ("This function is equivalent to
\* lua_next", table.go:350): after MaxArrayIndex it goes on behind keys[0].
NextMissesNothing ==
  traversal = "going on" /\ NextKey(last) = LNil => pending = {}

\* RawGetInt and RawGet answer alike ("RawGetInt returns an LValue at position
\* `key`", table.go:282): RawGetInt looks in the array alone.
GetsAgree == \A i \in Number : RawGetInt(i) = RawGet(i)
=============================================================================
