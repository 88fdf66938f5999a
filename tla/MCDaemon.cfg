CONSTANTS
  short = short
  medium = medium
  longest = longest
  long = long
  path = path
  file = file
  Names = {short, medium, longest, long}
  Size <- MCSize
  ArgLists <- MCArgLists
  IdMaxSize = 30
  Unnamed = Unnamed
  None = None
SPECIFICATION Spec
INVARIANTS
  TypeOK
  ArgsMeaning
PROPERTIES
  StopsWhenTold
