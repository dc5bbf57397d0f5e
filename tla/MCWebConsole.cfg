SPECIFICATION ConsoleSpec
CONSTANTS
  \* Three submits of drafts that differ in their reason, on a file that changes.
  Groups = {}
  Reasons = {"", "why"}
  MaxKeys = 2
  MaxBlobs = 2
  MaxForms = 1
  MaxPosts = 3
  WithBanner = FALSE
  \* Every provider and browser, two visits of the provider and a reload.
  Settings <- AllSettings
  MaxTokens = 2
  MaxTries = 2
  MaxAway = 2
  MaxReloads = 1
  i1 = i1
  i2 = i2
  t1 = t1
  t2 = t2
  Nil = Nil
INVARIANTS SessionSound FormSound
PROPERTIES ViewsFollow
CHECK_DEADLOCK FALSE
