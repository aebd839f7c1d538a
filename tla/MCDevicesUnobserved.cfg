CONSTANTS
    Compiled = TRUE
    ComputeCapability <- ComputeCapabilities
    Memory = {3}
    CudaVersion = {12090, 12100}
    MaxDevices = 2
    MaxProfiles = 2
    MaxUint = 1023
    Mantissa = 4
    Double <- MachineCasts
SPECIFICATION Spec
INVARIANT UnobservedStaysUnknown
CHECK_DEADLOCK FALSE
