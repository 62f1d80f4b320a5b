SPECIFICATION Spec
CONSTANTS
  Characters <- Chars
  Slash = "/"
  Lists <- SomeLists
  Paths <- AbsolutePaths
  NoService = none
PROPERTIES
  LongestMatch
  RemainderIsRest
