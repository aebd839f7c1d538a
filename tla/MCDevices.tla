----------------------------- MODULE MCDevices -----------------------------
(* An instance of DeviceDiscovery for TLC.                                    *)
EXTENDS DeviceDiscovery, Casts

ComputeCapabilities == {<<8, 6>>, <<8, 10>>}

MachineCasts == CastsUpTo(MaxUint, Mantissa)
=============================================================================
