SPECIFICATION RequestSpec
CONSTANTS
  Urls <- TheUrls
  Keys <- TheKeys
  Values <- TheValues
  Scope <- TheScope
  Commands <- TheCommands
  MaxEdits = 2
  MaxResources = 3
  MaxRedirects = 1
INVARIANTS CurlRoundTrip ExportsReplay HopsKeepTheRequest ImportsKeepRequests
CHECK_DEADLOCK FALSE
