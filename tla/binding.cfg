SPECIFICATION Spec
CONSTANTS
  Parameters <- MCParameters
  Flags = {"-x"}
  Plain = "word"
  Groups <- AllGroups
  MaxGroups = 3
  MaxWords = 5
CHECK_DEADLOCK FALSE
INVARIANTS
  InBounds
  WordsBoundOnce
  SeveralWordsListed
  GroupsWhole
  NothingOfTheCaller
  AcceptsWhatFits
