CONSTANT MaxTs <- MCMaxTs
INIT Init
NEXT Next
PROPERTY RejectedUpdateLeavesStatus
