------------------------------ MODULE LuaTable ------------------------------
(* What a Lua table promises: a map from keys to values, list operations that *)
(* shift fields, and a traversal with next that returns every field once      *)
(* although fields are changed and cleared while it goes on.  It promises the *)
(* last two of lists shorter than MaxArrayIndex only.                         *)
EXTENDS Integers

CONSTANTS
  Number,  \* the integers used as keys
  Other,   \* the other keys
  Value,
  LNil,
  MaxArrayIndex

Key == Number \cup Other

VARIABLES
  content,     \* the value of every key, LNil when it is absent
  overfull,    \* whether the list is MaxArrayIndex long or longer
  traversal,   \* "none", "going on" or "done"
  visited,     \* the keys it returned
  pending      \* the keys it still has to return

vars == <<content, overfull, traversal, visited, pending>>

Present == {k \in Key : content[k] # LNil}

Ends(how) == traversal' = how /\ visited' = {} /\ pending' = {}

Init ==
  /\ content = [k \in Key |-> LNil]
  /\ ~overfull
  /\ traversal = "none"
  /\ visited = {}
  /\ pending = {}

\* Fields may be changed and cleared during a traversal.
Change(k, v) ==
  /\ content' = [content EXCEPT ![k] = v]
  /\ pending' = IF v = LNil THEN pending \ {k} ELSE pending
  /\ UNCHANGED <<overfull, traversal, visited>>

\* A new field, or an insertion, ends the traversal: what next returns after it is
\* not defined.
Add(k, v) ==
  /\ content' = [content EXCEPT ![k] = v]
  /\ Ends("none")
  /\ UNCHANGED overfull

Set(k, v) == IF content[k] # LNil \/ v = LNil THEN Change(k, v) ELSE Add(k, v)

\* The fields i .. n move up by one.
InsertAt(i, n, v) ==
  /\ ~overfull
  /\ content' = [k \in Key |-> IF k = i THEN v
                               ELSE IF k \in i + 1 .. n + 1 THEN content[k - 1] ELSE content[k]]
  /\ Ends("none")
  /\ UNCHANGED overfull

\* The fields i + 1 .. n move down by one.
RemoveAt(i, n) ==
  /\ ~overfull
  /\ content' = [k \in Key |-> IF k = n THEN LNil
                               ELSE IF k \in i .. n - 1 THEN content[k + 1] ELSE content[k]]
  /\ Ends("none")
  /\ UNCHANGED overfull

\* A list operation on a list that is too long, or gets so: what becomes of the
\* fields of the list is not said; the others stay, and nothing is traversed.
Exceed ==
  /\ overfull \/ overfull'
  /\ overfull' \in BOOLEAN
  /\ content' \in [Key -> Value \cup {LNil}]
  /\ \A k \in Key \ (1 .. MaxArrayIndex - 1) : content'[k] = content[k]
  /\ Ends("none")

Start ==
  /\ ~overfull
  /\ traversal' = "going on"
  /\ visited' = {}
  /\ pending' = Present
  /\ UNCHANGED <<content, overfull>>

\* next returns a field that it did not return before.
Visit(k) ==
  /\ traversal = "going on"
  /\ k \in Present \ visited
  /\ visited' = visited \cup {k}
  /\ pending' = pending \ {k}
  /\ UNCHANGED <<content, overfull, traversal>>

\* next returns nil: nothing was left out.
Finish ==
  /\ traversal = "going on"
  /\ pending = {}
  /\ Ends("done")
  /\ UNCHANGED <<content, overfull>>

Next ==
  \/ Start \/ Finish \/ Exceed
  \/ \E k \in Key : Visit(k)
  \/ \E k \in Key, v \in Value \cup {LNil} : Set(k, v) \/ Add(k, v)
  \/ \E i, n \in Number, v \in Value \cup {LNil} : i \in 1 .. n /\ InsertAt(i, n, v)
  \/ \E i, n \in Number : i \in 1 .. n /\ RemoveAt(i, n)

Spec == Init /\ [][Next]_vars
=============================================================================
