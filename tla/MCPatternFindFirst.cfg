\* Single calls that do not find what Lua's patterns match. Choose Programs and
\* the property of one line.
\*   Programs <- MCLiterals    INVARIANTS FirstCallFinds
\*   Programs <- MCUnlimited   INVARIANTS FirstCallFinds
\*   Programs <- MCSets        INVARIANTS FirstCallFinds
\*   Programs <- MCCaptures    INVARIANTS FirstCallCaptures
SPECIFICATION Spec
CONSTANTS
    CharOrder <- MCCharOrder
    Letters <- MCLetters
    Digits <- MCDigits
    Limits <- MCLimits
    Callers = {c1, c2}
    Programs <- MCLiterals
    MaxSize = 2
    Searched <- SearchResult
    BuildsDFA <- NeedsDFA
    AreMatches <- AreLuaMatches
CHECK_DEADLOCK FALSE
INVARIANTS
    FirstCallFinds
