\* Three fixed entries, one of them compound, two updates, one shout.
CONSTANTS
  s = s
  e = e
  h = h
  d = d
  c = c
  space = space
  dot = dot
  dollar = dollar
  bracket = bracket
  Capital = Capital
  t1 = t1
  t2 = t2
  Char <- Chars
  Space = space
  Plain <- Letters
  Pieces <- PiecesOf
  Broken <- BrokenEntries
  Fixed <- FixedEntries
  Typed <- TypedLists
  Text <- Texts
  Threshold <- LowAndHigh
  InitialThreshold = 34
  Tab <- TwoTabs
  NoPage = NoPage
  MaxVersion = 2
  MaxShouts = 1
SYMMETRY Tabs
SPECIFICATION Spec
INVARIANTS TypeOK FixedWordsSurvive PagesRoundTrip NoFalsePositives
PROPERTIES UpdatesReplaceWhatWasShown FixedWordsPassOnlyInOverlaps
