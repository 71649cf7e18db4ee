\* Two verify requests; two requests per IP window and one per key window.
SPECIFICATION FairSpec
CONSTANTS
  h1 = h1  h2 = h2  h3 = h3
  IpMax = 2
  KeyMax = 1
  Handler = {h1, h2}
  CountBound = 4
  Max <- MCMax
INVARIANTS TypeOK WithinMax TtlComing
PROPERTIES WindowReopensUnlessLost
