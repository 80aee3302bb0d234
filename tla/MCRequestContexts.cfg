SPECIFICATION Spec
CONSTANTS
  a = a
  wa = wa
  P = P
  Domains <- MCDomains
  RegisteredDomain <- MCRegisteredDomain
  NoDomain = NoDomain
  SessionDomains <- MCSessionDomains
  Contexts <- MCContexts
  Main = Main
  Fetch = Fetch
  NoContext = NoContext
  FavoriteLists <- MCFavoriteLists
  SettingsValues <- MCSettings
  DeleteScopes <- MCDeleteScopes
  MaxDeletions <- MCMaxDeletions
  MaxCookies = 2
INVARIANTS TypeOK PrivateStaysPrivate NoSplitIdentity ClearedIsGone
PROPERTY CookiesFollowTheList
