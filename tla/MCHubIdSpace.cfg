CONSTANTS
  RESERVED_TERM_SIZE = 3
  MaxId = 7
  MaxTerms = 3
  MaxSize = 2
  Practices <- Disciplined
SPECIFICATION Spec
INVARIANTS TypeOK MembersAreIds TermsFound
PROPERTIES FreshIds
CHECK_DEADLOCK FALSE
