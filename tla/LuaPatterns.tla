----------------------------- MODULE LuaPatterns -----------------------------
(***************************************************************************)
(* What a Lua pattern matches, stated without an algorithm: among all ways *)
(* to give every repetition of the pattern a count, the one Lua's rules    *)
(* prefer (a greedy item as many as possible, a lazy one as few, the       *)
(* earlier item first).  PatternMatcher, the translation of pm/pm.go, is   *)
(* compared with these definitions.                                        *)
(*                                                                         *)
(* Sources and pattern texts are sequences of characters.  A pattern is    *)
(* [head, tail, items]; an item is a class of characters with its text and *)
(* a repetition, an opening or closing parenthesis, a position capture, a  *)
(* back reference or a balanced pair.  Positions count the characters      *)
(* before them.                                                            *)
(***************************************************************************)
EXTENDS Integers, Sequences, FiniteSets, SequencesExt

Class(text, chars, rep) == [kind |-> "class", text |-> text, chars |-> chars, rep |-> rep]
Open == [kind |-> "open"]
Close == [kind |-> "close"]
Here == [kind |-> "here"]
BackRef(n) == [kind |-> "back", n |-> n]
Balanced(b, e) == [kind |-> "balanced", begin |-> b, end |-> e]

Digit == <<"1", "2", "3", "4", "5", "6", "7", "8", "9">>

ItemText(item) ==
    CASE item.kind = "class"    -> item.text \o (IF item.rep = "once" THEN <<>> ELSE <<item.rep>>)
      [] item.kind = "open"     -> <<"(">>
      [] item.kind = "close"    -> <<")">>
      [] item.kind = "here"     -> <<"(", ")">>
      [] item.kind = "back"     -> <<"%", Digit[item.n]>>
      [] item.kind = "balanced" -> <<"%", "b", item.begin, item.end>>

(* The text a program passes to string.find.                               *)
Text(pat) ==
    (IF pat.head THEN <<"^">> ELSE <<>>)
        \o FlattenSeq([k \in DOMAIN pat.items |-> ItemText(pat.items[k])])
        \o (IF pat.tail THEN <<"$">> ELSE <<>>)

-----------------------------------------------------------------------------
(* The captures of a pattern: the items that open them, in order, and the  *)
(* parenthesis that closes an opening one.                                 *)
Opening(items) == {k \in DOMAIN items : items[k].kind \in {"open", "here"}}
OpenerOf(items, n) == CHOOSE k \in Opening(items) : Cardinality({j \in Opening(items) : j <= k}) = n

Count(items, kind, from, to) == Cardinality({j \in from..to : items[j].kind = kind})

CloserOf(items, k) ==
    IF items[k].kind = "here" THEN k
    ELSE CHOOSE j \in k..Len(items) :
            /\ Count(items, "open", k, j) = Count(items, "close", k, j)
            /\ \A i \in k..(j - 1) : Count(items, "open", k, i) > Count(items, "close", k, i)

Occurrences(src, ch, from, to) == Cardinality({j \in (from + 1)..to : src[j] = ch})

(* The ends of the balanced part that begins at position from: none or one.*)
BalancedEnds(src, from, item) ==
    LET Even(to) == \/ item.begin = item.end /\ Occurrences(src, item.end, from, to) = 2
                    \/ item.begin # item.end /\ Occurrences(src, item.begin, from, to)
                                                = Occurrences(src, item.end, from, to)
    IN {to \in (from + 2)..Len(src) :
            /\ src[from + 1] = item.begin
            /\ Even(to)
            /\ \A early \in (from + 2)..(to - 1) : ~Even(early)}

Repeated(items) == {k \in DOMAIN items : items[k].kind = "class" /\ items[k].rep # "once"}

Counts(rep, n) == CASE rep \in {"*", "-"} -> 0..n [] rep = "+" -> 1..n [] rep = "?" -> 0..1

None == -1

(* Where each item ends, item k after k - 1, if the repetitions have the   *)
(* counts of choice; None when an item does not match.                     *)
EndsOf(items, src, start, choice) ==
    LET ends[k \in 0..Len(items)] ==
        IF k = 0 THEN start
        ELSE LET from == ends[k - 1]
                 item == items[k]
             IN  IF from = None THEN None
                 ELSE CASE item.kind = "class" ->
                             LET to == from + (IF item.rep = "once" THEN 1 ELSE choice[k])
                             IN  IF to <= Len(src) /\ \A j \in (from + 1)..to : src[j] \in item.chars
                                 THEN to ELSE None
                        [] item.kind = "balanced" ->
                             IF BalancedEnds(src, from, item) = {} THEN None
                             ELSE CHOOSE to \in BalancedEnds(src, from, item) : TRUE
                        [] item.kind = "back" ->
                             LET k0 == OpenerOf(items, item.n)
                                 captured == SubSeq(src, ends[k0] + 1, ends[CloserOf(items, k0) - 1])
                                 to == from + Len(captured)
                             IN  IF to <= Len(src) /\ SubSeq(src, from + 1, to) = captured
                                 THEN to ELSE None
                        [] OTHER -> from
    IN ends

Prefers(items, c, d) ==
    \E k \in Repeated(items) :
        /\ IF items[k].rep = "-" THEN c[k] < d[k] ELSE c[k] > d[k]
        /\ \A j \in Repeated(items) : j < k => c[j] = d[j]

ChoicesOf(items, n) ==
    {c \in [Repeated(items) -> 0..n] : \A k \in Repeated(items) : c[k] \in Counts(items[k].rep, n)}

(* The match of pat that begins at start, as a sequence with no or one     *)
(* element: where it starts and ends, and where its captures do.           *)
MatchAt(pat, src, start) ==
    LET items == pat.items
        Ends(c) == EndsOf(items, src, start, c)
        valid == {c \in ChoicesOf(items, Len(src)) :
                    /\ Ends(c)[Len(items)] # None
                    /\ pat.tail => Ends(c)[Len(items)] = Len(src)}
    IN  IF valid = {} THEN <<>>
        ELSE LET ends == Ends(CHOOSE c \in valid : \A d \in valid \ {c} : Prefers(items, c, d))
                 Captured(n) ==
                    LET k == OpenerOf(items, n)
                    IN  [from |-> ends[k], to |-> ends[CloserOf(items, k)], here |-> items[k].kind = "here"]
             IN  << [start |-> start, end |-> ends[Len(items)],
                     captures |-> [n \in 1..Cardinality(Opening(items)) |-> Captured(n)]] >>

(* All matches a search from offset on finds, each begun where the one     *)
(* before it ended, or one further if that one was empty.                  *)
AllMatches(pat, src, offset) ==
    LET from[i \in 0..(Len(src) + 1)] ==
        LET Followed(m) ==
                IF pat.head THEN m
                ELSE IF m = <<>> THEN from[i + 1]
                ELSE m \o from[IF m[1].end > i THEN m[1].end ELSE i + 1]
        IN  IF i > Len(src) THEN <<>> ELSE Followed(MatchAt(pat, src, i))
    IN from[offset]
==============================================================================
