SPECIFICATION RawSpec
CONSTANTS
  Missing = Missing
  Reach = 6
  Host <- MCHost
  Extension <- MCExtension
  Images <- MCImages
  Tails <- MCTails
INVARIANTS
  OwnContent
  EndsBeforePath
  SourceIsAFile
\* It stops when every path was looked at and the source was taken, or there is none.
CHECK_DEADLOCK FALSE
