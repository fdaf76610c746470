\* One command at a time, each of which may raise or die at any step.
CONSTANTS
  Clients = {c1}
  Releases <- MCReleases
  RootExpires <- MCRootExpires
  Bundles = {"b1", "b2", "b3"}
  Digests = {1, 2, 3, 4, 5, 6, 7, 8, 9}
  Unset = Unset
  MaxRoot = 2
  Tolerance = 1
  Grace = 1
  Skew = 0
  MaxApprovals = 1
  MaxTime = 3
SPECIFICATION Spec
INVARIANTS
  OutcomeIsTrue
PROPERTIES
  NothingTrustedGoesBack
  LowerIsAuthorized
  OneDocumentPerVersion
CHECK_DEADLOCK FALSE
