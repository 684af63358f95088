\* All three utilities over every file of up to two lines of up to four bytes;
\* ndn_get_url_array's second read may find one of three rewritten files.
CONSTANTS
  Chars = {97, 47}
  Files <- MCFiles
  Utilities <- MCUtilities
  MaxUrlLen = 4
  MaxComponents = 3
  MaxUrls = 3
  Rewrites <- MCRewrites
SPECIFICATION Spec
CHECK_DEADLOCK FALSE
INVARIANTS TypeOK ResultsMatchFile StatsAbortJustified ArrayHoldsReread
PROPERTIES Terminates
