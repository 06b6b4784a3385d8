\* Every section of one or two schemas with up to two fields each, or of three
\* with up to one, compiled; four larger ones also viewed: one address, arrays
\* of up to two elements, three handles alive together.
CONSTANTS
  Images <- MCImages
  Viewed <- MCViewed
  PointerSize = 8
  SizeModulus = 256
  Bases = {40}
  MaxCount = 2
  MaxViews = 3

SPECIFICATION ViewsFairSpec

INVARIANTS
  CompiledOnCompiled
  LayoutsAreSound
  NullIsReported
  ViewsInside
  AccessInside
  SubviewsHit

PROPERTIES
  CompiledIsFinal
  RequestsReturn
