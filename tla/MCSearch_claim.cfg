SPECIFICATION Spec
CONSTANTS
  Ids = {1, 2, 3, 4}
  Rows <- AllRows
  Tables <- SmallTables
  None = None
  Requests <- PlainRequests
  Matches <- Evaluate
  Selected <- Select
  Safe <- Reliable
  Trees <- AllTrees
  Height <- Tall
  Fields <- AllFields
  Texts <- Words
  Numbers = {9, 10}
  max_rows = 3
  max_page_size = 2
  default_page_size = 2
  MaxWrites = 0
  MaxPages = 4
  Kind <- Kinds
  Numeral <- Numerals
  Reading <- Readings
  Moment <- Moments
  Lower <- Folded
  SqlLower <- SqlFolded
  Inside <- Parts
  Prefix <- Starts
  Suffix <- Ends
  Rank <- Ranks
  Collation <- Collated
  NaN = NaN
INVARIANTS NoMatchLost
CHECK_DEADLOCK FALSE
