---------------------------- MODULE PatternCache -----------------------------
(***************************************************************************)
(* The two caches of pm.Find, which string.find, match, gmatch and gsub    *)
(* call and every LState of the process shares.  A call looks its pattern  *)
(* up in globalPatternCache; if there is an entry with matches, whatever   *)
(* source they were found in, it answers from it, and otherwise it         *)
(* searches and stores what it found.  Lookup and store take the lock of   *)
(* the cache separately, so that calls of several goroutines interleave.   *)
(*                                                                         *)
(* How a search works is left open here: Searched(req) is what it returns. *)
(* program is fixed at the start: the calls [p, src, offset, limit] its    *)
(* goroutines make.  answer is the call that returned last; the code keeps *)
(* no such thing.  Time stamps are the order of the cache, oldest first;   *)
(* entries stored in the same nanosecond are not modelled.                 *)
(***************************************************************************)
EXTENDS Integers, SequencesExt

CONSTANTS Callers,              \* the goroutines
          Programs,             \* records with the set of their requests
          MaxSize,              \* globalPatternCache.maxSize
          Searched(_),          \* how a call ends that searches
          BuildsDFA(_),         \* whether it builds an automaton on the way
          AreMatches(_, _, _)   \* whether matches are a pattern's, in a program

VARIABLES program, cache, dfas, pending, answer

vars == <<program, cache, dfas, pending, answer>>

Idle == [state |-> "idle"]
NoAnswer == [state |-> "none"]

-----------------------------------------------------------------------------
StartOf(captures) == captures[1].at
EndOf(captures) == captures[2].at

Captured == Seq([at : Nat, here : BOOLEAN])
Result == [outcome : {"ok"}, matches : Seq(Captured)]
Failure == [outcome : {"error", "panic"}]

(* From an offset on, each after the one before.                           *)
InOrderFrom(offset, matches) ==
    /\ \A i \in DOMAIN matches : StartOf(matches[i]) >= offset
    /\ \A i, j \in DOMAIN matches : i < j => StartOf(matches[i]) < StartOf(matches[j])

WithinLimit(limit, matches) == limit > 0 => Len(matches) <= limit

Request == program.requests

ASSUME MaxSizeAssumption == MaxSize \in Nat \ {0}

ASSUME RequestAssumption ==
    \A prog \in Programs : \A req \in prog.requests : req.offset \in Int /\ req.limit \in Int

(* A search finds matches of its pattern, in order, from its offset on, no *)
(* more than a positive limit, and records at least the bounds of each.    *)
ASSUME SearchAssumption ==
    \A prog \in Programs : \A req \in prog.requests :
        /\ Searched(req) \in Result \cup Failure
        /\ Searched(req).outcome = "ok" =>
            LET matches == Searched(req).matches
            IN  /\ \A i \in DOMAIN matches : Len(matches[i]) >= 2
                /\ InOrderFrom(req.offset, matches)
                /\ WithinLimit(req.limit, matches)
                /\ AreMatches(prog, req.p, matches)

-----------------------------------------------------------------------------
(* globalPatternCache.Get.                                                 *)
Entries(p) == {i \in DOMAIN cache : cache[i].pattern = p}

EvictedLate == IF Len(cache) > MaxSize THEN Tail(cache) ELSE cache

(* The oldest entry goes when the cache is full, also when the pattern has *)
(* an entry already.                                                       *)
Evicted == IF Len(cache) >= MaxSize THEN Tail(cache) ELSE cache

Without(entries, p) ==
    LET at == {i \in DOMAIN entries : entries[i].pattern = p}
    IN  IF at = {} THEN entries ELSE RemoveAt(entries, CHOOSE i \in at : TRUE)

PutOverOldest(p, matches) ==
    cache' = IF Len(cache) >= MaxSize THEN [cache EXCEPT ![1].matches = matches]
             ELSE Append(Without(cache, p), [pattern |-> p, matches |-> matches])

(* globalPatternCache.Put: the entry is the newest, and the only one of    *)
(* its pattern.                                                            *)
Put(p, matches) ==
    cache' = Append(Without(Evicted, p), [pattern |-> p, matches |-> matches])

FilteredByLimit(matches, offset, limit) ==
    LET most == IF limit < 1 THEN 1 ELSE limit
    IN  IF Len(matches) > most THEN SubSeq(matches, 1, most) ELSE matches

(* Of the first k matches of an entry those a call takes: from its offset  *)
(* on, until it has limit of them.  It looks at the limit after it took a  *)
(* match, and so takes one also when the limit is not positive.            *)
Taken(matches, offset, limit) ==
    LET taken[k \in 0..Len(matches)] ==
            CASE k = 0 -> <<>>
              [] k > 0 /\ StartOf(matches[k]) >= offset
                       /\ (taken[k - 1] = <<>> \/ Len(taken[k - 1]) < limit) -> Append(taken[k - 1], matches[k])
              [] OTHER -> taken[k - 1]
    IN  taken

Filtered(matches, offset, limit) == Taken(matches, offset, limit)[Len(matches)]

-----------------------------------------------------------------------------
Init ==
    /\ program \in Programs
    /\ cache = <<>>
    /\ dfas = {}
    /\ pending = [c \in Callers |-> Idle]
    /\ answer = NoAnswer

Returns(req, outcome) == answer' = [state |-> "returned", req |-> req, outcome |-> outcome]

(* A call that finds matches of its pattern in the cache.                  *)
Hit(c, req) ==
    /\ pending[c] = Idle
    /\ \E i \in Entries(req.p) :
        /\ cache[i].matches # <<>>
        /\ Returns(req, [outcome |-> "ok", matches |-> Filtered(cache[i].matches, req.offset, req.limit)])
    /\ UNCHANGED <<program, cache, dfas, pending>>

(* A call that does not: it searches, and returns with an error or has     *)
(* something to store.                                                     *)
Miss(c, req) ==
    /\ pending[c] = Idle
    /\ \A i \in Entries(req.p) : cache[i].matches = <<>>
    /\ dfas' = IF BuildsDFA(req) THEN dfas \cup {req.p} ELSE dfas
    /\ \E result \in {Searched(req)} :
           IF result.outcome = "ok"
           THEN /\ pending' = [pending EXCEPT ![c] = [state |-> "storing", req |-> req, result |-> result]]
                /\ UNCHANGED answer
           ELSE /\ Returns(req, result)
                /\ UNCHANGED pending
    /\ UNCHANGED <<program, cache>>

Store(c) ==
    /\ pending[c].state = "storing"
    /\ Put(pending[c].req.p, pending[c].result.matches)
    /\ Returns(pending[c].req, pending[c].result)
    /\ pending' = [pending EXCEPT ![c] = Idle]
    /\ UNCHANGED <<program, dfas>>

Next == \E c \in Callers : Store(c) \/ \E req \in Request : Hit(c, req) \/ Miss(c, req)

Spec == Init /\ [][Next]_vars

-----------------------------------------------------------------------------
Patterns == {req.p : req \in Request}

(* globalPatternCache never holds more than maxSize patterns, and none     *)
(* twice, however the goroutines' lookups and stores interleave.           *)
CacheBounded ==
    /\ Len(cache) <= MaxSize
    /\ \A i, j \in DOMAIN cache : cache[i].pattern = cache[j].pattern => i = j

(* The cache holds patterns of the program with complete capture arrays,   *)
(* within its bounds, and the requests under way are the program's.        *)
TypeOK ==
    /\ cache \in Seq([pattern : Patterns, matches : Seq(Captured)])
    /\ CacheBounded
    /\ dfas \subseteq Patterns
    /\ \A c \in Callers :
        \/ pending[c] = Idle
        \/ pending[c] \in [state : {"storing"}, req : Request, result : Result]
    /\ \/ answer = NoAnswer
       \/ answer.req \in Request /\ answer.outcome.outcome \in {"ok", "error", "panic"}

(* Whatever the cache holds for a pattern are matches that pattern has in  *)
(* one of the sources it was searched in: no goroutine's result gets under *)
(* another's pattern.                                                      *)
CachedAreReal ==
    \A i \in DOMAIN cache : AreMatches(program, cache[i].pattern, cache[i].matches)

(* A call returns matches that start at its offset or later, each after    *)
(* the one before, and no more than a positive limit asks for, also when   *)
(* it answers from what another call stored.                               *)
AnswersInOrder ==
    answer # NoAnswer /\ answer.outcome.outcome = "ok" =>
        /\ InOrderFrom(answer.req.offset, answer.outcome.matches)
        /\ WithinLimit(answer.req.limit, answer.outcome.matches)

(* What a call returns depends on its arguments only: not on the source    *)
(* and offset an earlier call searched the same pattern in.                *)
HistoryFree == answer # NoAnswer => answer.outcome = Searched(answer.req)

=============================================================================
