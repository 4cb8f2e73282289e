CONSTANTS
  Align = 8
  Header = 16
  MinSize = 12
  Size = 176
  Sizes = {0, 1, 20, 40, 64, 90}
SPECIFICATION HeapSpec
INVARIANTS HeapSound RoomIsFound
PROPERTIES HeapKept
