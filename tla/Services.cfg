SPECIFICATION ServicesSpec
CONSTANTS
  Thread = {t1, t2}
  Symbol = {s1, s2}
  NoSymbol = none
  MaxHold = 1
  First = t1
  FirstSymbol = s1
  User = {u1}
  Ticker = {s1, s2, s3}
  MaxItems = 1
  Owner = {u1, u2}
  Account = {a1, a2, a3}
  FreshTTL = 1
  StaleTTL = 2
  Market = {US, TW}
  US = US
  MaxTrade = 1
  FetchLimit = 4
  PageSize = 2
  MaxPages = 3
  MaxRelease = 5
  QuoteTTL = 1
  SimulationTTL = 2
  MaxQuote = 3
  MaxEvents = 4
  Attempts = 3
INVARIANTS
  WatchlistOverrun
  AccountsOnlyByRace
  ServedAgeBounded
  RedisIsOptional
  EquityExplained
  NewsWithoutGaps
  TradedQuotesCurrent
  RunnerAccounts
