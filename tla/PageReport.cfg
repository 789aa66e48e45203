\* The advice for a page, followed in every order, and dates that age.
SPECIFICATION Spec
CONSTANTS
  Pages <- MCPages
  OwnPages = {}
  CharsPerWord = 6
CHECK_DEADLOCK FALSE
INVARIANTS
  AdviceIsMet

  
  
