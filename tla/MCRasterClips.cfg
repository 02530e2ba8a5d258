SPECIFICATION Spec
CONSTANTS
  Width = 5
  Height = 4
  IntMax = 63
  Rects <- MCRects
  Frames <- Nothing
  Ends <- Nothing
  Corners <- Nothing
  Centers <- Nothing
  Radii <- Nothing
  Thicknesses <- Nothing
  Cell = 2
  Font <- MCFont
  MaxScale = 2
  Texts <- Nothing
  Scales <- Nothing
  Origins <- Nothing
  Images <- Nothing
  Blends <- Nothing
INVARIANT RectsClipped
