CONSTANTS
  Idents <- MCIdents
  Ints <- MCInts
  Reals <- MCReals
  Characters <- MCCharacters
  TooLarge <- MCTooLarge
  Strings <- MCStrings
  Letters <- MCLetters
  KeywordLetters <- MCKeywordLetters
  Scenarios <- MCScenarios
  Texts <- MCTexts
SPECIFICATION Spec
INVARIANTS RereadTheSame ReadAsWritten LongestTokens
CHECK_DEADLOCK FALSE
