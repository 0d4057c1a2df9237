\* Any request headers with an application that redirects; any page, headers and
\* cookies of the reply to any browser.
SPECIFICATION FairExchangeSpec
CONSTANTS
  Requests <- AnyRequest
  Replies <- AnyReply
  Treatments <- AnyTreatment
  UrlScheme = "none"
  MaxHops = 2
INVARIANTS
  ExchangeTypeOK
  LocalLearnsPublicAddress
  OtherHeadersArrive
  PageOnlyGainsConsole
  CookiesSurvive
  OneAllowedOrigin
PROPERTY
  RedirectsEnd
CHECK_DEADLOCK FALSE
