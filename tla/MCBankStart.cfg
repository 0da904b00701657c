\* Four branches (the even case of the dialing rule) of which two pay, once
\* and again when they were paid.
CONSTANTS
  N = 4
  Balance = 20
  Payers = {0, 1}
SPECIFICATION FairSpec
INVARIANTS
  TypeOK
  EachPairOnce
  PayerKnown
  MoneyAccounted
PROPERTIES
  AllConnected
\* A branch with less than 20 does not pay: the branches come to rest.
CHECK_DEADLOCK FALSE
