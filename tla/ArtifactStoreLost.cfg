SPECIFICATION Spec
CONSTANTS
  a1 = a1
  a2 = a2
  l1 = l1
  c1 = c1
  c2 = c2
  Artifacts <- TwoArtifacts
  Uploads <- OneUpload
  Listings <- OneListing
  Conversations <- OneConversation
  Size <- OneByte
  MaxFile = 1
  Quota = 2
  MaxFaults = 0
INVARIANTS
  OnlyExpiredMissing
CHECK_DEADLOCK FALSE
