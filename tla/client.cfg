CONSTANTS
  Conns = {k1, k2, k3, k4, k5, k6, k7, k8, k9, k10, k11, k12, k13, k14, k15, k16, k17,
           k18, k19, k20, k21, k22, k23, k24, k25, k26, k27, k28, k29, k30, k31, k32}
  First = k1
  MaxFaults = 3
  MaxSteps = 1
  MaxAway = 4
  Cost = 9
  NULL = NULL
SPECIFICATION FairSpec
INVARIANTS KeepsConnection DescriptorsLast
PROPERTIES StaysConnected StaysListed
\* The client may be stopped.
CHECK_DEADLOCK FALSE
