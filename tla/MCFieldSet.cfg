CONSTANTS
  Sets = {s1, s2}
  Names <- TwoNames
  Unnamed = ""
  Lower <- Spellings
  Meshes <- OneMesh
  Own <- OwnFields
  Addresses <- ThreeNodes
SYMMETRY AlikeSets
SPECIFICATION Spec
INVARIANTS
  AcceptedStaysValid
PROPERTIES
  ImplementsFieldMap
