SPECIFICATION Spec
CONSTANTS
    CharOrder <- MCCharOrder
    Letters <- MCLetters
    Digits <- MCDigits
    Limits <- MCLimits
    Callers = {c1, c2}
    Programs <- MCPrograms
    MaxSize = 2
    Searched <- SearchResult
    BuildsDFA <- NeedsDFA
    AreMatches <- AreLuaMatches
CHECK_DEADLOCK FALSE
INVARIANTS
    TypeOK
    MatcherAgrees
    CachedAreReal
    AnswersInOrder
