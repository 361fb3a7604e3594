SPECIFICATION KernelFairSpec
CONSTANTS
  Proc = {k1, k2, k3}
  None = None
  Failed = Failed
  Stale = Stale
  MaxFailures = 2
  ByHand = TRUE
  MaxKernelFaults = 2
INVARIANT SocketBelongsToLockHolder
PROPERTIES RestartsAreSafe KernelProgress
