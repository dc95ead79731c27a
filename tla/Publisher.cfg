CONSTANTS
  Feeds = {f1, f2}
  Foreign = foreign
  Blank = blank
  Budget = 3
SPECIFICATION PFairSpec
INVARIANTS PTypeOK PublishedInOrder
PROPERTIES RenderingsArePublished FeedArrives
