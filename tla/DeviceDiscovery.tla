-------------------------- MODULE DeviceDiscovery --------------------------
(***************************************************************************)
(* The discovery of CUDA devices and the profiles made of them             *)
(* (src/compat/cuda.cpp), as rules read these profiles (Constraints.tla).  *)
(*                                                                         *)
(* An answer of CUDA is {} when the call fails and {x} when it yields x.   *)
(* A string is the sequence of the numbers between its dots, letters       *)
(* dropped, as in Constraints.tla: "sm_120" and "120" are <<120>>.         *)
(* The fields a profile has in every case alike are left out.              *)
(***************************************************************************)
EXTENDS Integers, Sequences

CONSTANTS Compiled,        \* COMPAT_HAVE_CUDA
          ComputeCapability,  \* major and minor compute capability of devices
          Memory,          \* their memory
          CudaVersion,     \* versions, 1000 * major + 10 * minor, as CUDA gives them
          MaxDevices,      \* bound on the devices of a machine
          MaxProfiles,     \* bound on the profiles made
          MaxUint, Mantissa, Double   \* of Constraints.tla

VARIABLES found,      \* what discover_cuda_devices returned last
          profiles    \* the payloads made, each with the info it was made of
                      \* and what CUDA had answered

deviceVars == <<found, profiles>>

C == INSTANCE Constraints
        WITH LeftPayload <- {}, RightPayload <- {}, ConstraintSet <- {}, StartsWith <- {},
             left <- <<>>, right <- <<>>

-----------------------------------------------------------------------------
(* What CUDA answers: the number of devices, the properties of each, and   *)
(* the versions of driver and runtime.                                     *)

Properties == [cc : ComputeCapability, memory : Memory]

\* The numbers are small enough to be read back from a text and as a double.
ConstantsTyped ==
    /\ C!CastsRound /\ MaxUint >= 999
    /\ ComputeCapability \subseteq (0 .. MaxUint) \X (0 .. MaxUint)
    /\ Memory \subseteq 0 .. Mantissa
    /\ \A v \in CudaVersion : v \in Nat /\ v \div 1000 <= MaxUint

Maybe(S) == {{}} \cup {{x} : x \in S}

Machine(n) == [1 .. n -> Maybe(Properties)] \X Maybe(CudaVersion) \X Maybe(CudaVersion)

-----------------------------------------------------------------------------
(* discover_cuda_devices.                                                  *)

\* Fault: the version is taken apart by hundreds.
FormatCudaVersionHundreds(v) == <<v \div 1000, v % 100>>

\* format_cuda_version.
FormatCudaVersion(v) == <<v \div 1000, v % 1000>>

\* A call that fails leaves 0, and 0 is written as no text.
VersionText(answer) ==
    IF answer \in {{}, {0}} THEN <<>> ELSE FormatCudaVersion(CHOOSE v \in answer : TRUE)

NoDevice == [initialized |-> FALSE, compute_capability |-> <<>>, total_memory |-> 0,
             driver_version |-> <<>>, runtime_version |-> <<>>]

\* The entry of one device.
Info(properties, driver, runtime) ==
    IF properties = {} THEN NoDevice
    ELSE LET prop == CHOOSE p \in properties : TRUE
         IN  [initialized |-> TRUE, compute_capability |-> prop.cc,
              total_memory |-> prop.memory, driver_version |-> VersionText(driver),
              runtime_version |-> VersionText(runtime)]

Entry(info, properties, driver, runtime) ==
    [info |-> info, properties |-> properties, driver |-> driver, runtime |-> runtime]

\* CUDA is not compiled in, has no devices, or fails to count them.
DiscoverNone == /\ Len(profiles) < MaxProfiles
                /\ found' = <<Entry(NoDevice, {}, {}, {})>>
                /\ UNCHANGED profiles

Discover(n) ==
    /\ Compiled /\ Len(profiles) < MaxProfiles
    /\ \E m \in Machine(n) :
          found' = [i \in 1 .. n |-> Entry(Info(m[1][i], m[2], m[3]), m[1][i], m[2], m[3])]
    /\ UNCHANGED profiles

-----------------------------------------------------------------------------
(* make_cuda_device_profile and to_canon.                                  *)

Text(s) == <<"Str", s>>

Always == {"architecture", "compute_capability", "runtime_min", "driver_min"}

\* The architecture is "sm_" and the compute capability, with its dot.  The
\* optional total_memory is the one field that can be missing.
MakeProfile(info) ==
    [f \in Always \cup (IF info.initialized THEN {"total_memory"} ELSE {}) |->
        CASE f \in {"architecture", "compute_capability"} -> Text(info.compute_capability)
          [] f = "runtime_min" -> Text(info.runtime_version)
          [] f = "driver_min" -> Text(info.driver_version)
          [] f = "total_memory" -> <<"Uint", info.total_memory>>]

Make(i) == /\ Len(profiles) < MaxProfiles
           /\ profiles' = Append(profiles, [entry |-> found[i],
                                            payload |-> MakeProfile(found[i].info)])
           /\ UNCHANGED found

Init == found = <<>> /\ profiles = <<>>

Next == \/ DiscoverNone
        \/ \E n \in 1 .. MaxDevices : Discover(n)
        \/ \E i \in DOMAIN found : Make(i)

Spec == Init /\ [][Next]_deviceVars

-----------------------------------------------------------------------------
(* Properties.                                                             *)

Against(op, field, other) ==
    [op |-> op, field |-> <<field>>, right_field |-> <<other>>, expected |-> Text(<<>>), set |-> {}]

Evaluate(op, field, p, other, q) == C!Evaluate(Against(op, field, other), p.payload, q.payload)

Payloads == {profiles[i] : i \in DOMAIN profiles}

Older(a, b) == \/ a[1] < b[1]
               \/ a[1] = b[1] /\ a[2] < b[2]

\* What rules take the answers for: what CUDA said, and zero where a call has
\* failed, for the code writes a text that is empty.
CapabilityRead(e) == IF e.properties = {} THEN <<0, 0>> ELSE (CHOOSE p \in e.properties : TRUE).cc

NumberRead(e, answer) ==
    IF e.properties = {} \/ answer = {} THEN 0 ELSE CHOOSE v \in answer : TRUE

\* A rule that compares the capabilities or the runtimes of two devices, or
\* the runtime of one with the driver of another, orders those that were
\* observed as CUDA does, whose versions are single numbers, and takes one that
\* was not observed, whichever call failed, for older than all that were.
DevicesCompareAsObserved ==
    \A p, q \in Payloads :
        LET runtime == NumberRead(p.entry, p.entry.runtime)
        IN  /\ Evaluate("VersionLt", "compute_capability", p, "compute_capability", q) = "holds"
                 <=> Older(CapabilityRead(p.entry), CapabilityRead(q.entry))
            /\ Evaluate("VersionLe", "runtime_min", p, "runtime_min", q) = "holds"
                 <=> runtime <= NumberRead(q.entry, q.entry.runtime)
            /\ Evaluate("VersionLe", "runtime_min", p, "driver_min", q) = "holds"
                 <=> runtime <= NumberRead(q.entry, q.entry.driver)

\* A device whose memory was not observed neither meets nor fails a bound on
\* it, however low: the verdict stays unknown.
MemoryIsObservedOrUnknown ==
    \A p \in Payloads, n \in Memory \cup {0} :
        LET c == [Against("Min", "total_memory", "") EXCEPT !.right_field = <<>>,
                                                              !.expected = <<"Uint", n>>]
            verdict == C!Verdict(c, p.payload, <<>>)
        IN  /\ p.entry.properties = {} => verdict = "unknown"
            /\ \A a \in p.entry.properties : a.memory >= n <=> verdict = "holds"

\* "Capabilities that were not observed are left unset (unknown), never
\* defaulted to false" (cuda.hpp:33-34): a rule that asks for a version of which
\* CUDA said nothing has an unknown constraint.
UnobservedStaysUnknown ==
    \A p \in Payloads :
        LET answer == [compute_capability |-> p.entry.properties,
                       runtime_min |-> p.entry.runtime, driver_min |-> p.entry.driver]
        IN  \A f \in DOMAIN answer :
                answer[f] = {} => C!Verdict(Against("VersionGe", f, f), p.payload, p.payload)
                                     = "unknown"

=============================================================================
