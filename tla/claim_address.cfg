\* A browser behind proxies that add what headers they like.
SPECIFICATION ExchangeSpec
CONSTANTS
  Requests <- AnyHeaders
  Replies <- PlainReplies
  Treatments <- Untreated
  UrlScheme = "none"
  MaxHops = 2
INVARIANT
  PublicHostAlwaysTold
CHECK_DEADLOCK FALSE
