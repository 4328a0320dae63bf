CONSTANTS
  ann = ann
  ben = ben
  cid = cid
  zoe = zoe
  Users <- People
  Strangers <- Others
  Fans <- TwoFans
  Payloads <- MCPayloads
  MaxList = 3
SPECIFICATION FollowsSpec
INVARIANT OneRelation
