CONSTANTS
  Items <- MCItems
  Length = 2
  Heap = 2
  Wanted <- MCWanted
  Datagrams <- MCDatagrams
SPECIFICATION Spec
INVARIANT RequestsAnswered
