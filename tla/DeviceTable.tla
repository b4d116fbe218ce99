---------------------------- MODULE DeviceTable ----------------------------
(***************************************************************************)
(* What device discovery promises the rest of PG-Strom: given the output   *)
(* of `gpuinfo -md`, it either raises an ERROR or publishes the supported  *)
(* devices that output describes, in device-index order, together with    *)
(* the baseline compute capability and the baseline maximum block size,   *)
(* the minima over the published devices.  The reference reading of an    *)
(* input is declarative: the last line that sets an attribute of a device  *)
(* wins, an attribute no line sets is zero, and the number of devices is   *)
(* the last NUMBER_OF_DEVICES line.  DeviceInfo is shown to implement it. *)
(***************************************************************************)
EXTENDS DeviceLines

CONSTANTS Inputs    \* the possible outputs of gpuinfo, sequences of lines

VARIABLES input, status, table, baseCC, baseTPB

vars == <<input, status, table, baseCC, baseTPB>>

\* The value of the last line of in that satisfies P, or dflt.
LastVal(in, P(_), dflt) ==
    LET ks == {k \in DOMAIN in : P(in[k])}
    IN  IF ks = {} THEN dflt ELSE in[Max(ks)].val

DeviceCount(in) ==
    LastVal(in, LAMBDA l : l.tag = "PLATFORM" /\ l.attr = "NUMBER_OF_DEVICES", -1)

\* Device d as the input describes it, keyed by attribute name.
Described(in, d) ==
    [a \in DeviceAttrs |->
        LastVal(in, LAMBDA l : l.tag = "DEVICE" /\ l.dev = d /\ l.attr = a, 0)]

DescribedSeq(in) == [k \in 1..DeviceCount(in) |-> Described(in, k - 1)]

Published(in) == SelectSeq(DescribedSeq(in), Supported)

Init ==
    /\ input \in Inputs
    /\ status = "probing"
    /\ table = <<>>
    /\ baseCC = UIntMax
    /\ baseTPB = UIntMax

Publish ==
    LET t == Published(input) IN
    /\ status = "probing"
    /\ t # <<>>
    /\ status' = "ready"
    /\ table' = t
    /\ baseCC' = Min({ComputeCapability(t[k]) : k \in DOMAIN t})
    /\ baseTPB' = Min({t[k]["MAX_THREADS_PER_BLOCK"] : k \in DOMAIN t})
    /\ UNCHANGED input

Fail ==
    /\ status = "probing"
    /\ status' = "failed"
    /\ UNCHANGED <<input, table, baseCC, baseTPB>>

Next == Publish \/ Fail

Spec == Init /\ [][Next]_vars
=============================================================================
