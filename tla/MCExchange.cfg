\* Every kind of request and client, chains that leave the origin and return.
CONSTANTS
  Kinds <- EveryKind
  MaxSends = 3
  MaxHops = 2
SPECIFICATION ExchangeSpec
INVARIANTS
  ExchangeTypeOK
  NoWriteTwice
  SendsAreBounded
  RefreshEarnsSend
  CredentialsStayHome
PROPERTY RenewsWhatWasRefused
