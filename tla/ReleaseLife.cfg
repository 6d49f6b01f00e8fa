CONSTANTS
  garbage = garbage
  page = page
  nzb = nzb
  magnet = magnet
  Garbage = garbage
  None = None
  MaxInt = 10
  Magnet = {magnet}
  YearWord <- MCYearWord
  Feed <- MCFeed
  Video <- MCVideo
  Ext = {"mkv", "ts"}
SPECIFICATION Spec
INVARIANTS NameRead OneQuality LibraryNameRead OffersUsable CountsKept
