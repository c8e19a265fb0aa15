----------------------------- MODULE PatternFind -----------------------------
(***************************************************************************)
(* pm.Find with its own searcher: the calls of PatternCache, which search  *)
(* for literal text with a jump table and otherwise run the machine of     *)
(* PatternMatcher from one start position after the other.  The            *)
(* configurations give the operators PatternCache leaves open the values   *)
(* SearchResult, NeedsDFA and AreLuaMatches.                               *)
(*                                                                         *)
(* A program comes with the patterns, as LuaPatterns has them, and the     *)
(* sources its calls use.                                                  *)
(***************************************************************************)
EXTENDS PatternMatcher, PatternCache

CONSTANT Limits         \* the limits callers give: 1, -1, and gsub's argument

Lua == INSTANCE LuaPatterns

-----------------------------------------------------------------------------
SimpleMatchesRelative(p, src, offset, limit) ==
    LET positions == Search(p, SubSeq(src, offset + 1, Len(src)))
        Match(pos) == AddPosCapture(AddPosCapture(<<>>, 0, pos), 1, pos + Len(p))
    IN  [found |-> positions # <<>>,
         matches |-> IF positions = <<>> \/ limit < 1 THEN <<>> ELSE <<Match(positions[1])>>]

(* The matches of a text without magic characters; the limit is looked at  *)
(* before a match is taken.                                                *)
SimpleMatches(p, src, offset, limit) ==
    LET positions == Search(p, SubSeq(src, offset + 1, Len(src)))
        taken == IF limit < 0 THEN <<>>
                 ELSE IF Len(positions) > limit THEN SubSeq(positions, 1, limit) ELSE positions
        Match(pos) == AddPosCapture(AddPosCapture(<<>>, 0, offset + pos), 1, offset + pos + Len(p))
    IN  [found |-> positions # <<>>, matches |-> [i \in DOMAIN taken |-> Match(taken[i])]]

(* The loop over start positions that runs the machine.                    *)
RECURSIVE Scan(_, _, _, _, _, _)
Scan(insts, mustHead, src, sp, limit, matches) ==
    LET GoOn(run, found) ==
            IF Len(found) = limit \/ mustHead THEN [outcome |-> "ok", matches |-> found]
            ELSE Scan(insts, mustHead, src,
                      IF run.outcome = "matched" /\ sp + 1 < run.sp THEN run.sp ELSE sp + 1, limit, found)
        Ran(run) ==
            CASE run.outcome = "error" -> [outcome |-> "error"]
              [] run.outcome = "matched" -> GoOn(run, Append(matches, run.captures))
              [] run.outcome = "failed" -> GoOn(run, matches)
    IN  IF sp > Len(src) THEN [outcome |-> "ok", matches |-> matches]
        ELSE Ran(RecursiveVM(src, insts, At("goes on", 1, sp, <<>>)))

VMMatches(p, src, offset, limit) ==
    LET Run(pat) == IF pat.ok THEN Scan(Compile(pat), pat.head, src, offset, limit, <<>>)
                    ELSE [outcome |-> "error"]
    IN  Run(Parse(p))

(* What Find does when the cache has nothing for it.  An offset behind the *)
(* end makes the slice src[offset:] panic.  The automaton built from the   *)
(* text of the pattern is cached, but both its verdicts lead to the same   *)
(* loop.                                                                   *)
SearchResult(req) ==
    LET simple == SimpleMatches(req.p, req.src, req.offset, req.limit)
    IN  CASE req.offset > Len(req.src) -> [outcome |-> "panic"]
          [] req.offset <= Len(req.src) /\ IsSimplePattern(req.p) /\ simple.found ->
                [outcome |-> "ok", matches |-> simple.matches]
          [] OTHER -> VMMatches(req.p, req.src, req.offset, req.limit)

NeedsDFA(req) ==
    ~ (IsSimplePattern(req.p)
        /\ (req.offset > Len(req.src) \/ SimpleMatches(req.p, req.src, req.offset, 1).found))

-----------------------------------------------------------------------------
(* Matches Lua's rules give the pattern in one of the program's sources:   *)
(* the machine and the Boyer-Moore table invent no occurrence.             *)
AreLuaMatches(prog, p, matches) ==
    \E pat \in prog.patterns, src \in prog.sources :
        /\ Lua!Text(pat) = p
        /\ \A k \in DOMAIN matches :
            LET m == matches[k]
            IN  /\ EndOf(m) <= Len(src)
                /\ Lua!MatchAt(pat, src, StartOf(m)) # <<>>
                /\ Lua!MatchAt(pat, src, StartOf(m))[1].end = EndOf(m)

(* The parser, the compiler and the machine find, from every offset of     *)
(* every source, exactly the matches Lua's rules prefer, in order and      *)
(* with their captures; a limit keeps the first of them.  (Checked once    *)
(* for each program.)                                                      *)
SameMatch(captures, match) ==
    /\ StartOf(captures) = match.start
    /\ EndOf(captures) = match.end
    /\ \A n \in DOMAIN match.captures :
        LET expected == match.captures[n]
            from == captures[2 * n + 1]
            to == captures[2 * n + 2]
        IN  /\ from.here = expected.here
            /\ IF expected.here THEN from.at = expected.from + 1
               ELSE from.at = expected.from /\ to.at = expected.to

AreTheFirst(limit, found, all) ==
    LET most == IF limit > 0 /\ Len(all) > limit THEN limit ELSE Len(all)
    IN  /\ found.outcome = "ok"
        /\ Len(found.matches) = most
        /\ \A i \in 1..most : SameMatch(found.matches[i], all[i])

MatcherAgrees ==
    cache = <<>> /\ answer = NoAnswer =>
    \A pat \in program.patterns, src \in program.sources :
    \A offset \in 0..Len(src), limit \in Limits \ {0} :
        AreTheFirst(limit, VMMatches(Lua!Text(pat), src, offset, limit), Lua!AllMatches(pat, src, offset))

(* The first call of a process, before anything is cached, returns the     *)
(* matches Lua prefers, and with each of them as many captures as the      *)
(* pattern has.                                                            *)
OfFirstCall(Holds(_, _, _)) ==
    answer # NoAnswer /\ Len(cache) < 2 /\ dfas \subseteq {answer.req.p} =>
    \A pat \in program.patterns : Lua!Text(pat) = answer.req.p =>
        LET all == Lua!AllMatches(pat, answer.req.src, answer.req.offset)
            limit == answer.req.limit
        IN  Holds(all, IF limit > 0 /\ Len(all) > limit THEN limit ELSE Len(all), answer.outcome.matches)

FirstCallFinds ==
    OfFirstCall(LAMBDA all, most, found :
        /\ Len(found) = most
        /\ \A i \in 1..most : StartOf(found[i]) = all[i].start /\ EndOf(found[i]) = all[i].end)

FirstCallCaptures ==
    OfFirstCall(LAMBDA all, most, found :
        \A i \in DOMAIN found : Len(found[i]) = 2 + 2 * Len(all[i].captures))

=============================================================================
