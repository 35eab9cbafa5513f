SPECIFICATION PFairSpec
CONSTANTS
  batch = batch
  single1 = single1
  single2 = single2
  single3 = single3
  Calls = {batch, single1, single2, single3}
  MaxConcurrency = 2
  BatchConcurrency = 2
  Size <- Sizes
CHECK_DEADLOCK FALSE
INVARIANTS NoIdleSlot RepliesAligned
PROPERTIES ImplementsService EveryCallSettles
