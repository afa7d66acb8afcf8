SPECIFICATION Spec
CONSTANTS
  a1 = a1
  a2 = a2
  l1 = l1
  c1 = c1
  c2 = c2
  Artifacts <- TwoArtifacts
  Uploads <- OneUpload
  Listings <- OneListing
  Conversations <- TwoConversations
  Size <- OneByte
  MaxFile = 1
  Quota = 1
  MaxFaults = 2
INVARIANTS
  QuotaKept
  LiveFilesKept
  PurgedIsGone
CHECK_DEADLOCK FALSE
