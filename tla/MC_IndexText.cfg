SPECIFICATION ITSpec
CONSTANTS
    Alphabet <- MCAlphabet
    Htmls <- MCHtmls
    MaxLen = 7
INVARIANT MatchesReference
CHECK_DEADLOCK FALSE
