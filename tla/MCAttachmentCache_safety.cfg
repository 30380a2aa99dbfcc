CONSTANTS
  Users = {ann, bob}
  Media = {pic, clip}
  Components = {left, right}
  MaxCalls = 3
  MaxFetches = 2
  MaxEntries = 1
  NoUser = NoUser
  NoMedia = NoMedia
SPECIFICATION Spec
SYMMETRY Symmetry
INVARIANTS SlotsAreCounted ShownIsTheirs OnlyEvictionKills FlightsAreShared
PROPERTY RefinesFetchPool
