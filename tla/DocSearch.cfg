SPECIFICATION Spec
CONSTANTS
  Terms <- MCTerms
  Dotted <- MCDotted
  Found <- MCFound
  ReadBack <- MCReadBack
INVARIANTS
  TypeOK
  PageFollowsText
  AddressReopensTab
  OneTabIsShown
  RedirectIsNoTrap
  MenuIsCurrent
  MenuIsComplete
  NoneMeansNone
PROPERTIES
  TypingNeverRedirects
CHECK_DEADLOCK TRUE
