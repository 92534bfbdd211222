\* Two entries of session history, two Sites, one update of the server.
CONSTANTS
  Paths = {"site", "other", "login", "posted"}
  Queries = {"", "range"}
  Fragments = {"", "map"}
  NoFragment = ""
  URLs <- MCURLs
  Home <- MCSite
  Login <- MCLogin
  Posted <- MCPosted
  Redirect <- MCRedirect
  MapPages = {"site", "other"}
  MaxHistory = 2
  MaxScripts = 2
  MaxRelease = 1
SPECIFICATION Spec
INVARIANTS AddressIsShown NewestRequestLands BusyHasAnswer OneRelease ViewOfThisPage
