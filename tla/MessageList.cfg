SPECIFICATION Spec
CONSTANTS
  PageSize = 1
  MaxDisplay = 2
  Filters = {"all", "idea", "search"}
  Uncached = {"idea"}
  Announcing = {"idea"}
  ListingOf <- MCListing
  Styles = {"unread", "newest"}
  MaxActs = 3
  MaxFailures = 1
INVARIANTS
  ListIsCurrent
  JumpLands
  ThreadsFromRoot
  PanelIInv
PROPERTIES
  PagingSkipsNothing
  RenderEnds
  JumpEnds
CHECK_DEADLOCK FALSE
