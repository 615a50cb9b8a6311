CONSTANTS
  Requests <- MCRequests
  FourArgs <- MCFourArgs
SPECIFICATION Spec
INVARIANT AcceptedRootTrimmed
PROPERTY DeepCopyPreservesDest InfoCopyPreservesDest
