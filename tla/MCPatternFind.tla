--------------------------- MODULE MCPatternFind ----------------------------
(* Two families of programs: one pattern each, for the comparison of the   *)
(* machine with Lua's rules over many patterns and sources; and a few      *)
(* patterns with calls of two goroutines that meet in the caches.          *)
EXTENDS PatternFind

MCCharOrder == << "$", "%", "(", ")", "*", "+", "-", ".", "1", "?", "A", "[", "]", "^", "a", "b", "d", "w" >>
MCLetters == {"A", "a", "b", "d", "w"}
MCDigits == {"1"}
MCLimits == {-1, 0, 1, 2}

Strings(S, n) == UNION {[1..k -> S] : k \in 0..n}
Reps == {"once", "*", "+", "-", "?"}

a(rep) == Lua!Class(<<"a">>, {"a"}, rep)
any(rep) == Lua!Class(<<".">>, Chars, rep)
digit(rep) == Lua!Class(<<"%", "d">>, MCDigits, rep)
b == Lua!Class(<<"b">>, {"b"}, "once")

Pattern(head, items, tail) == [head |-> head, items |-> items, tail |-> tail]

Pairs == {Pattern(FALSE, <<a(r), x>>, t) : r \in Reps, x \in {any(q) : q \in Reps} \cup {b}, t \in BOOLEAN}
Heads == {Pattern(TRUE, <<any(r), x>>, t) : r \in Reps, x \in {a("once"), digit("*")}, t \in BOOLEAN}
Captures ==
    UNION {{ Pattern(FALSE, <<Lua!Open, a(r), Lua!Close, any(q)>>, TRUE),
             Pattern(FALSE, <<a(r), Lua!Here, any(q), Lua!Here>>, FALSE),
             Pattern(FALSE, <<Lua!Open, any(r), Lua!Open, a(q), Lua!Close, Lua!Close, b>>, FALSE),
             Pattern(FALSE, <<Lua!Open, any(r), Lua!Close, any(q), Lua!BackRef(1)>>, TRUE),
             Pattern(FALSE, <<any(r), Lua!Balanced("a", "b"), any(q)>>, FALSE) }
           : r \in Reps, q \in {"once", "*", "-"}}

Alone(p, sources) == [patterns |-> {p}, sources |-> sources, requests |-> {}]

Requests(patterns, sources, offsets, limits) ==
    {[p |-> Lua!Text(p), src |-> s, offset |-> o, limit |-> l] :
        p \in patterns, s \in sources, o \in offsets, l \in limits}

Together(patterns, sources, offsets, limits) ==
    [patterns |-> patterns, sources |-> sources, requests |-> Requests(patterns, sources, offsets, limits)]

ab == Pattern(FALSE, <<a("once"), b>>, FALSE)
as == Pattern(FALSE, <<a("+")>>, FALSE)
word == Pattern(FALSE, <<Lua!Open, any("-"), Lua!Close, b>>, FALSE)
aa == Pattern(FALSE, <<a("once"), a("once")>>, FALSE)

(* A pattern that is not closed: every call of it raises an error.         *)
Unfinished == [p |-> <<"(", "a">>, src |-> <<"a", "b">>, offset |-> 0, limit |-> 1]

MCPrograms ==
    {Alone(p, Strings({"a", "b"}, 3)) : p \in Pairs \cup Heads \cup Captures}
    \cup {Alone(Pattern(FALSE, <<digit(r)>>, t), Strings({"a", "1"}, 3)) : r \in Reps, t \in BOOLEAN}
    \cup { [Together({ab, as}, {<<"a", "a", "b", "a", "b">>, <<"b", "a", "b">>}, {0, 3, 4}, {1, -1})
                EXCEPT !.requests = @ \cup {Unfinished}],
           Together({as, word, aa}, {<<"a", "a", "a", "b">>}, {0, 2}, {1, -1}) }

(* The calls of _lua5.1-tests/pm.lua, lines 20 to 23.                      *)
MCTwoOffsets == {Together({ab}, {<<"a", "b", "a", "b">>}, {1, 2}, {1})}

(* One call each: literal texts, without a limit, captures, sets.          *)
MCLiterals == {Together({ab}, {s}, {0}, {1}) : s \in Strings({"a", "b"}, 6)}
MCUnlimited == {Together({as, ab}, {s}, {0}, {-1}) : s \in Strings({"a", "b"}, 3)}
MCCaptures == {Together({word}, {s}, {0}, {1}) : s \in Strings({"a", "b"}, 3)}
MCSets ==
    {Together({Pattern(FALSE, <<Lua!Class(<<"[", "a", "-", "d", "]">>, {"a", "b", "d"}, "once")>>, FALSE)}, {s}, {0}, {1}) :
        s \in Strings({"a", "b"}, 2)}
=============================================================================
