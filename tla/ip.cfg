SPECIFICATION Spec
CHECK_DEADLOCK FALSE
CONSTANTS
  Fields <- SmallFields
  BufLen = 16
  IntMod = 2048
PROPERTY ParsersAgree
