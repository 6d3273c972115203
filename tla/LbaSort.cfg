SPECIFICATION SortSpec
CONSTANTS
  SmallN = 4
  MaxLen = 7
  Keys = {0, 1, 2, 3}
INVARIANT
  AscendingPermutation
