SPECIFICATION RingSpec
CONSTANTS
  Elements = {x, y}
  NoElement = NoElement
  maxSize = 5
PROPERTIES ImplementsBag
