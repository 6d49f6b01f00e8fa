CONSTANTS
  one = one
  two = two
  three = three
  None = None
  Indexer = {one, two, three}
  Offers <- MCOffers
SPECIFICATION LiveSpec
INVARIANTS TypeOK NothingLost BestFirst
PROPERTIES EventuallyAnswered
