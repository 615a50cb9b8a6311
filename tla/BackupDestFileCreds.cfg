CONSTANTS
  Requests <- MCAllRequests
  FourArgs <- MCFourArgs
SPECIFICATION Spec
PROPERTY DeepCopyPreservesDest
