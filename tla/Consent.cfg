SPECIFICATION FairSpec
CONSTANTS
  Apps = {zoom, meet}
  MaxRefires = 1
PROPERTIES
  
  NoAppIsPassedOver
  SuppressionEnds
