SPECIFICATION Spec
CONSTANTS
  Width = 5
  Height = 4
  IntMax = 63
  Rects <- Nothing
  Frames <- Even
  Ends <- Nothing
  Corners <- Nothing
  Centers <- Nothing
  Radii <- MCRadii
  Thicknesses <- Nothing
  Cell = 2
  Font <- MCFont
  MaxScale = 2
  Texts <- Nothing
  Scales <- Nothing
  Origins <- Nothing
  Images <- Nothing
  Blends <- Nothing
INVARIANT RoundedInside
