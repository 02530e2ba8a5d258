SPECIFICATION Spec
CONSTANTS
  Width = 5
  Height = 4
  IntMax = 63
  Rects <- MCRects
  Frames <- MCFrames
  Ends <- MCEnds
  Corners <- MCCorners
  Centers <- MCCenters
  Radii <- MCRadii
  Thicknesses <- MCThicknesses
  Cell = 2
  Font <- MCFont
  MaxScale = 2
  Texts <- MCTexts
  Scales <- MCScales
  Origins <- MCOrigins
  Images <- MCImages
  Blends <- MCBlends
INVARIANTS TypeOK ShapesExact TextMeasured BlendsExact
PROPERTY ShapesEnd
