SPECIFICATION Spec
CONSTANTS
  None = None
  Sources = {"button", "power"}
INVARIANTS
  SrTypeOK
  NoHiddenInterrupt
  StatusLeans
  MaskSurvives
PROPERTIES
  ButtonIsReported

