\* Two ETFs and two funds; 10 and 13 agree, 10 and 20 do not, 0 is missing.
SPECIFICATION FairSpec
CONSTANTS
  f1 = f1
  f2 = f2
  c1 = c1
  c2 = c2
  None = None
  Funds <- TwoFunds
  Codes <- TwoCodes
  Named <- EveryName
  Prices = {0, 10}
  Navs = {0, 13, 20}
  Quotes <- SomeQuotes
  MaxChanges = 1
INVARIANTS TypeOK OneFundPerCode BasisPlausible
PROPERTIES NotStolen WrongMappingsHeal FreeFundsAreFound MappingsSettle
