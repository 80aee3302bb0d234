SPECIFICATION Spec
CONSTANTS
  Requests = {r1}
  NoUrl = NoUrl
  HostNames <- MCHostNames
  Paths <- MCPaths
  Urls <- MCUrls
  Pages <- MCPages
  SettingsValues <- MCSettings
  RuleLists <- MCRuleLists
  Whitelists <- MCWhitelists
  HttpsRuleLists <- MCHttpsRuleLists
  MaxRedirects = 1
INVARIANTS TypeOK PolicyHolds NoUrlRewrittenTwice RulesAreApplied
PROPERTIES BlockedIsJustified HttpsOnlyNeverInClear RewritingEnds
CHECK_DEADLOCK FALSE
