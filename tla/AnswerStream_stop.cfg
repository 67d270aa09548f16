CONSTANTS
  letA = letA
  letB = letB
  letT = letT
  letX = letX
  letE = letE
  Opening = o
  Closing = c
  Markers <- MCMarkers
  Clients = {"messages"}
  Sources = {"claude"}
  Fragments <- MCFragments
  Tagged <- MCTagged
  Thought <- MCThought
  Argument <- MCArgument
  Trouble <- MCTrouble
  MaxFragments = 3
  MaxStated = 2
  MaxCalls = 2
  MaxBlocks = 2
SPECIFICATION Spec
INVARIANT StopEndsStream
CHECK_DEADLOCK FALSE
