SPECIFICATION ResolverSpec
CONSTANTS
  l1 = l1
  l2 = l2
  q1 = q1
  ads = ads
  more = more
  Queries = {q1}
  Loads = {l1, l2}
  Lists = {ads, more}
  Names <- AllNames
  Listed <- Blocks
  Excepted <- Releases
  Plain <- PlainServers
  Tor <- TorServers
  MaxListChanges = 1
SYMMETRY Symmetric
INVARIANTS
  WhitelistWins
  MatchesLists
  LateOnly
