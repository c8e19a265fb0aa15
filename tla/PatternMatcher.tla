--------------------------- MODULE PatternMatcher ----------------------------
(***************************************************************************)
(* pm/pm.go, the algorithms: the parser of pattern texts, the compiler to  *)
(* instructions, the backtracking machine, and the Boyer-Moore table for   *)
(* texts without magic characters.  A class is the set of characters it    *)
(* matches.  CharOrder lists the characters in use by their codes; of the  *)
(* single classes %a, %d and %w and their complements stand for all.       *)
(***************************************************************************)
EXTENDS Integers, Sequences, FiniteSets, SequencesExt

CONSTANTS CharOrder,    \* the characters of sources and patterns, by code
          Letters,      \* those %a matches
          Digits        \* those %d matches

Chars == {CharOrder[i] : i \in DOMAIN CharOrder}
CodeOf(ch) == CHOOSE i \in DOMAIN CharOrder : CharOrder[i] = ch

EOS == "EOS"
Peek(p, k) == IF k < Len(p) THEN p[k + 1] ELSE EOS

-----------------------------------------------------------------------------
(* Parsing: k characters of the text p are consumed.                       *)
SingleClass(ch) ==
    CASE ch = "a" -> Letters
      [] ch = "A" -> Chars \ Letters
      [] ch = "d" -> Digits
      [] ch = "D" -> Chars \ Digits
      [] ch = "w" -> Letters \cup Digits
      [] ch = "W" -> Chars \ (Letters \cup Digits)
      [] OTHER    -> {ch}

CharRange(first, last) == {ch \in Chars : CodeOf(first) <= CodeOf(ch) /\ CodeOf(ch) <= CodeOf(last)}

(* The body of a set up to its closing bracket.  The character after a     *)
(* hyphen is remembered as the start of a range; the next one ends it.     *)
RECURSIVE SetBody(_, _, _, _)
SetBody(p, k, bits, start) ==
    LET ch == Peek(p, k)
        isrange == start # EOS
    IN  CASE ch = EOS -> [ok |-> FALSE]
          [] ch = "]" -> [ok |-> TRUE, k |-> k + 1, chars |-> bits \cup (IF isrange THEN {"-"} ELSE {})]
          [] ch = "-" /\ isrange -> SetBody(p, k, bits \cup {"-"}, EOS)
          [] ch = "-" /\ ~isrange -> SetBody(p, k + 2, bits, Peek(p, k + 1))
          [] OTHER -> IF isrange THEN SetBody(p, k, bits \cup CharRange(start, ch), EOS)
                      ELSE SetBody(p, k + 1, bits \cup {ch}, EOS)

ParseClassSet(p, k) ==
    IF Peek(p, k) = "^"
    THEN LET body == SetBody(p, k + 1, {}, EOS)
         IN  IF body.ok THEN [body EXCEPT !.chars = Chars \ @] ELSE body
    ELSE SetBody(p, k, {}, EOS)

ParseClass(p, k) ==
    CASE p[k + 1] = "%" -> [ok |-> TRUE, k |-> k + 2, chars |-> SingleClass(Peek(p, k + 1))]
      [] p[k + 1] = "." -> [ok |-> TRUE, k |-> k + 1, chars |-> Chars]
      [] p[k + 1] = "[" -> ParseClassSet(p, k + 1)
      [] OTHER          -> [ok |-> TRUE, k |-> k + 1, chars |-> {p[k + 1]}]

Single(chars) == [kind |-> "single", chars |-> chars]
Numeral == <<"1", "2", "3", "4", "5", "6", "7", "8", "9">>

Malformed == [ok |-> FALSE]
Item(item, k) == [ok |-> TRUE, item |-> item, k |-> k]

(* The item at k, but for groups and repetitions.                          *)
NextItem(p, k) ==
    LET ch == Peek(p, k)
        nxt == Peek(p, k + 1)
        OfClass(class) == IF class.ok THEN Item(Single(class.chars), class.k) ELSE Malformed
    IN  CASE ch = "%" /\ nxt = "0" -> Malformed
          [] ch = "%" /\ nxt \in Range(Numeral) ->
                Item([kind |-> "number", n |-> CHOOSE n \in DOMAIN Numeral : Numeral[n] = nxt], k + 2)
          [] ch = "%" /\ nxt = "b" -> Item([kind |-> "brace", begin |-> Peek(p, k + 2), end |-> Peek(p, k + 3)], k + 4)
          [] \/ ch = "%" /\ nxt \notin ({"0", "b"} \cup Range(Numeral))
             \/ ch \in {".", "[", "]"} -> OfClass(ParseClass(p, k))
          [] ch = "(" /\ nxt = ")" -> Item([kind |-> "posCap"], k + 2)
          [] OTHER -> Item(Single({ch}), k + 1)

(* parsePattern from k on, the parsed items before it given; a group is    *)
(* what it finds up to the parenthesis that closes it.                     *)
Group(p, inner) ==
    IF inner.ok /\ Peek(p, inner.k) = ")"
    THEN Item([kind |-> "cap", items |-> inner.items], inner.k + 1) ELSE Malformed

RECURSIVE ParsePattern(_, _, _, _)
ParsePattern(p, k, toplevel, items) ==
    LET ch == Peek(p, k)
        over == ch = EOS \/ (ch = ")" /\ ~toplevel)
        tail == toplevel /\ ch = "$" /\ k + 1 = Len(p)
        repeats == ch \in {"*", "+", "-", "?"} /\ items # <<>> /\ Last(items).kind = "single"
        before == IF repeats THEN Front(items) ELSE items
        GoOn(next) == IF next.ok THEN ParsePattern(p, next.k, toplevel, Append(before, next.item)) ELSE Malformed
    IN  IF over \/ tail THEN [ok |-> TRUE, k |-> IF tail THEN k + 1 ELSE k, items |-> items, tail |-> tail]
        ELSE GoOn(CASE ch = ")" -> Malformed
                    [] repeats -> Item([kind |-> "repeat", type |-> ch, chars |-> Last(items).chars], k + 1)
                    [] ch = "(" /\ Peek(p, k + 1) # ")" -> Group(p, ParsePattern(p, k + 1, FALSE, <<>>))
                    [] OTHER -> NextItem(p, k))

Parse(p) ==
    LET head == Peek(p, 0) = "^"
        body == ParsePattern(p, IF head THEN 1 ELSE 0, TRUE, <<>>)
    IN  IF body.ok THEN [ok |-> TRUE, head |-> head, items |-> body.items, tail |-> body.tail]
        ELSE [ok |-> FALSE]

-----------------------------------------------------------------------------
(* Compilation: instructions are numbered from 1, capture slots from 0, as *)
(* in the code; capture is the next free slot.                             *)
Char(chars) == [op |-> "char", chars |-> chars]
Split(x, y) == [op |-> "split", x |-> x, y |-> y]
Jmp(x) == [op |-> "jmp", x |-> x]
Save(slot) == [op |-> "save", slot |-> slot]

RepeatCodeGreedy(idx, type, chars) ==
    CASE type \in {"*", "-"} -> << Split(idx + 1, idx + 3), Char(chars), Jmp(idx) >>
      [] type = "+" -> << Char(chars), Split(idx, idx + 2) >>
      [] type = "?" -> << Split(idx + 1, idx + 2), Char(chars) >>

RepeatCode(idx, type, chars) ==
    CASE type = "*" -> << Split(idx + 1, idx + 3), Char(chars), Jmp(idx) >>
      [] type = "+" -> << Char(chars), Split(idx, idx + 2) >>
      [] type = "-" -> << Split(idx + 3, idx + 1), Char(chars), Jmp(idx) >>
      [] type = "?" -> << Split(idx + 1, idx + 2), Char(chars) >>

RECURSIVE CompileItems(_, _)
CompileItems(items, ptr) ==
    LET Emit(code) == [ptr EXCEPT !.insts = @ \o code]
        item == Head(items)
        slot == ptr.capture
        compiled ==
            CASE item.kind = "single" -> Emit(<<Char(item.chars)>>)
              [] item.kind = "repeat" -> Emit(RepeatCode(Len(ptr.insts) + 1, item.type, item.chars))
              [] item.kind = "posCap" -> [Emit(<<[op |-> "psave", slot |-> slot]>>) EXCEPT !.capture = slot + 2]
              [] item.kind = "cap" ->
                    LET inner == CompileItems(item.items, [Emit(<<Save(slot)>>) EXCEPT !.capture = slot + 2])
                    IN  [inner EXCEPT !.insts = Append(@, Save(slot + 1))]
              [] item.kind = "brace" -> Emit(<<[op |-> "brace", begin |-> item.begin, end |-> item.end]>>)
              [] item.kind = "number" -> Emit(<<[op |-> "number", n |-> item.n]>>)
    IN  IF items = <<>> THEN ptr ELSE CompileItems(Tail(items), compiled)

Compile(pat) ==
    CompileItems(pat.items, [insts |-> <<Save(0)>>, capture |-> 2]).insts
        \o (IF pat.tail THEN <<Save(1), [op |-> "tailMatch"]>> ELSE <<>>)
        \o <<Save(1), [op |-> "match"]>>

-----------------------------------------------------------------------------
(* MatchData: the capture array, slot s at index s + 1.  An array that is  *)
(* too short is doubled, or made just long enough if that is longer.       *)
Blank == [at |-> 0, here |-> FALSE]

Grown(captures, need) ==
    LET len == IF 2 * Len(captures) < need THEN need ELSE 2 * Len(captures)
    IN  [i \in 1..len |-> IF i <= Len(captures) THEN captures[i] ELSE Blank]

SetCapture(captures, slot, pos) ==
    [(IF slot >= Len(captures) THEN Grown(captures, slot + 1) ELSE captures)
        EXCEPT ![slot + 1] = [at |-> pos, here |-> FALSE]]

AddPosCapture(captures, slot, pos) ==
    [(IF slot + 1 >= Len(captures) THEN Grown(captures, slot + 2) ELSE captures)
        EXCEPT ![slot + 1] = [at |-> pos, here |-> TRUE], ![slot + 2] = [at |-> pos, here |-> TRUE]]

(* Where opBrace stops after the opening character, -1 at the end.         *)
RECURSIVE BraceEnd(_, _, _, _)
BraceEnd(src, inst, sp, count) ==
    IF sp >= Len(src) THEN -1
    ELSE LET ch == src[sp + 1]
             left == IF ch = inst.end THEN count - 1 ELSE count
         IN  IF left = 0 THEN sp + 1
             ELSE BraceEnd(src, inst, sp + 1, IF ch = inst.begin THEN left + 1 ELSE left)

(* The machine is at an instruction and a position, with the capture array *)
(* that every branch tried shares.  Step is what one instruction does      *)
(* before the machine goes on, or stops: the first choice of a split, the  *)
(* capture a save makes.  A back reference to a capture that does not      *)
(* exist raises an error.                                                  *)
At(outcome, pc, sp, captures) == [outcome |-> outcome, pc |-> pc, sp |-> sp, captures |-> captures]

Step(src, inst, at) ==
    LET sp == at.sp
        Stop(outcome) == [at EXCEPT !.outcome = outcome]
        Go(sp1) == [at EXCEPT !.pc = @ + 1, !.sp = sp1]
        GoIf(condition, sp1) == IF condition THEN Go(sp1) ELSE Stop("failed")
        Braced(end) == GoIf(end # -1, end)
        After(text) == sp + Len(text)
        Repeated(text) == GoIf(After(text) <= Len(src) /\ SubSeq(src, sp + 1, After(text)) = text, After(text))
    IN
    CASE inst.op = "char" -> GoIf(sp < Len(src) /\ src[sp + 1] \in inst.chars, sp + 1)
      [] inst.op = "match" -> Stop("matched")
      [] inst.op = "tailMatch" -> Stop(IF sp >= Len(src) THEN "matched" ELSE "failed")
      [] inst.op \in {"jmp", "split"} -> [at EXCEPT !.pc = inst.x]
      [] inst.op = "save" -> [Go(sp) EXCEPT !.captures = SetCapture(@, inst.slot, sp)]
      [] inst.op = "psave" -> [Go(sp) EXCEPT !.captures = AddPosCapture(@, inst.slot, sp + 1)]
      [] inst.op = "brace" ->
            IF sp >= Len(src) \/ src[sp + 1] # inst.begin THEN Stop("failed")
            ELSE Braced(BraceEnd(src, inst, sp + 1, 1))
      [] inst.op = "number" ->
            IF 2 * inst.n >= Len(at.captures) - 1 THEN Stop("error")
            ELSE Repeated(SubSeq(src, at.captures[2 * inst.n + 1].at + 1, at.captures[2 * inst.n + 2].at))

(* recursiveVM, from a state that goes on to one that stopped.  A split    *)
(* that fails is tried the other way, a save that leads to no match puts   *)
(* back what its slot held.                                                *)
Restored(captures, slot, old) ==
    [captures EXCEPT ![slot + 1] = IF slot < Len(old) THEN old[slot + 1] ELSE Blank]

RECURSIVE RecursiveVM(_, _, _)
RecursiveVM(src, insts, at) ==
    LET inst == insts[at.pc]
        Backtracked(rest) ==
            CASE rest.outcome = "failed" /\ inst.op = "split" ->
                    RecursiveVM(src, insts, At("goes on", inst.y, at.sp, rest.captures))
              [] rest.outcome = "failed" /\ inst.op = "save" ->
                    [rest EXCEPT !.captures = Restored(@, inst.slot, at.captures)]
              [] OTHER -> rest
        Run(next) == IF next.outcome = "goes on" THEN Backtracked(RecursiveVM(src, insts, next)) ELSE next
    IN  Run(Step(src, inst, at))

-----------------------------------------------------------------------------
(* The Boyer-Moore table.  Indices are the code's, the character at j is   *)
(* p[j + 1].                                                               *)
IsSimplePattern(p) ==
    Range(p) \cap {"*", "+", "?", "[", "]", "(", ")", "^", "$", ".", "%"} = {}

LastOf(S) == CHOOSE i \in S : \A j \in S : j <= i
FirstOf(S) == CHOOSE i \in S : \A j \in S : i <= j

BadChar(p, ch) ==
    LET at == {i \in 0..(Len(p) - 2) : p[i + 1] = ch}
    IN  IF at = {} THEN Len(p) ELSE Len(p) - 1 - LastOf(at)

IsPrefixFrom(p, from) == \A i \in from..(Len(p) - 1) : p[i + 1] = p[i - from + 1]

(* suffixLength compares the beginning of p with the characters before     *)
(* index i, read backwards.                                                *)
SuffixLength(p, i) ==
    LastOf({n \in 0..(i + 1) : \A a \in 0..(n - 1) : p[a + 1] = p[i - a + 1]})

GoodSuffix(p, j) ==
    LET m == Len(p)
        lastPrefix == FirstOf({i \in (j + 1)..m : IsPrefixFrom(p, i)})
        second == {i \in 0..(m - 2) : m - 1 - SuffixLength(p, i) = j}
    IN  IF second = {} THEN lastPrefix + m - 1 - j
        ELSE m - 1 - LastOf(second) + SuffixLength(p, LastOf(second))

(* Search from the window that ends at index i: the first mismatch from    *)
(* the right decides how far the window moves.                             *)
RECURSIVE SearchFrom(_, _, _)
SearchFrom(p, text, i) ==
    LET m == Len(p)
        differ == {j \in 0..(m - 1) : text[i - (m - 1) + j + 1] # p[j + 1]}
        Shifted(j) == i - (m - 1) + j + LastOf({BadChar(p, text[i - (m - 1) + j + 1]), GoodSuffix(p, j)})
    IN  IF i >= Len(text) THEN <<>>
        ELSE IF differ = {} THEN <<i - m + 1>> \o SearchFrom(p, text, i + 1)
        ELSE SearchFrom(p, text, Shifted(LastOf(differ)))

Search(p, text) == SearchFrom(p, text, Len(p) - 1)
=============================================================================
