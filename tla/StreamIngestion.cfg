\* Two process lives, one that may crash for good; two entries read in one batch.
SPECIFICATION FairSpec
CONSTANTS
  Nobody = Nobody
  event = event
  garbage = garbage
  Consumers = {c1, c2}
  Payload <- MCPayload
  Malformed <- MCMalformed
  MaxEntries = 2
  BatchSize = 2
  LiveLookStale = FALSE
INVARIANTS SettledIsStored DeletedIsDone
PROPERTIES CleanupDropsNothing DeliversDurably EventuallySettled
