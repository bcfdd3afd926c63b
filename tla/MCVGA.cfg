\* A screen of 6 x 8 visible pixels.
SPECIFICATION VGASpec
CONSTANTS
  HActive = 6
  HSyncFirst = 7
  HSyncEnd = 9
  hpixels = 10
  VActive = 8
  VSyncFirst = 10
  vlines = 13
PROPERTY FrameEdge
