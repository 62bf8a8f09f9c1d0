----------------------------- MODULE MCRegions ------------------------------
EXTENDS ServiceRegions

CONSTANTS c1, c2

TwoCalls == {c1, c2}
TwoRegions == {"r1", "r2"}
ThreeHoods == {"h1", "h2", "h3"}
HoodRegion == [h \in ThreeHoods |-> IF h = "h3" THEN "r2" ELSE "r1"]
=============================================================================
