CONSTANTS
  Authors = {ann, ben}
  Keys = {k1, k2}
  NoKey = nokey
  MaxLatest = 2
  MaxPosts = 4
SPECIFICATION PostsSpec
INVARIANTS
  PostsTypeOK
  IndexesOfAuthors
  LatestPosts
  KeyOpensPost
PROPERTY DeletedForGood
