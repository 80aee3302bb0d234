SPECIFICATION Spec
CONSTANTS
  MaxDocs = 2
  MaxMessages = 2
  NoUrl = NoUrl
  HostNames <- MCHostNames
  Urls <- MCUrls
  Whitelists <- MCWhitelists
  Selectors <- MCSelectors
  NoSelector = NoSelector
  NoHost = "none"
  MaxSelectorsPerStylesheet = 2
  RuleLists <- MCRuleLists
  Icons <- MCIcons
  IconLists <- MCIconLists
  Unsized = 9
  NoIcon = NoIcon
INVARIANTS TypeOK SheetsAreRules FaviconOfSite TouchIconPreferred
PROPERTY StylesArrive
