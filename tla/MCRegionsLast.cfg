SPECIFICATION RegionsSpec
CONSTANTS
  c1 = c1  c2 = c2
  RegionCalls <- TwoCalls  Regions <- TwoRegions  Hoods <- ThreeHoods
  RegionOf <- HoodRegion  NoPlace = NoPlace
INVARIANT OneRegionActive
