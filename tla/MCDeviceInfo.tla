--------------------------- MODULE MCDeviceInfo ----------------------------
(***************************************************************************)
(* Outputs of `gpuinfo -md` for DeviceInfo: well-formed listings of one or *)
(* two devices of CC 5.x to 7.x, then one listing per error path of the   *)
(* parser, then listings cut short after the PLATFORM lines or with a     *)
(* device count that changes after the first DEVICE line.  Device d has    *)
(* 2 + d multiprocessors and sits on PCI bus 1 + d, so the entries of two *)
(* devices always differ.                                                  *)
(***************************************************************************)
EXTENDS DeviceInfo

Ln(tag, dev, attr, val) == [tag |-> tag, dev |-> dev, attr |-> attr, val |-> val]
Pf(attr, val) == Ln("PLATFORM", 0, attr, val)
Dv(d, attr, val) == Ln("DEVICE", d, attr, val)

Header(n) == <<Pf("CUDA_RUNTIME_VERSION", 1), Pf("NVIDIA_DRIVER_VERSION", 1),
               Pf("NUMBER_OF_DEVICES", n)>>

\* The lines gpuinfo prints for one device, c = <<major, minor, max threads>>.
DevLines(d, c) == <<Dv(d, "DEVICE_ID", d),
                    Dv(d, "COMPUTE_CAPABILITY_MAJOR", c[1]),
                    Dv(d, "COMPUTE_CAPABILITY_MINOR", c[2]),
                    Dv(d, "MAX_THREADS_PER_BLOCK", c[3]),
                    Dv(d, "MULTIPROCESSOR_COUNT", 2 + d),
                    Dv(d, "WARP_SIZE", 32),
                    Dv(d, "PCI_BUS_ID", 1 + d)>>

Cards == {<<maj, mnr, tpb>> : maj \in {5, 6, 7}, mnr \in {0, 1}, tpb \in {512, 1024}}

Pascal == <<6, 0, 1024>>

WellFormed ==
    {Header(1) \o DevLines(0, c) : c \in Cards}
    \cup {Header(2) \o DevLines(0, c1) \o DevLines(1, c2) : c1, c2 \in Cards}
    \cup {Header(2) \o DevLines(1, c) : c \in Cards}

\* One listing per branch of the parser that is not taken by WellFormed.
Malformed ==
    { Header(1) \o <<Ln("EMPTY", 0, "", 0)>> \o DevLines(0, Pascal),
      Header(1) \o <<Dv(0, "DEVICE_NAME", 3), Dv(0, "GLOBAL_MEMORY_SIZE", 8)>>
                \o DevLines(0, Pascal),
      Header(1) \o DevLines(0, Pascal) \o <<Dv(0, "COMPUTE_CAPABILITY_MAJOR", 5)>>,
      Header(1) \o <<Ln("NOCOLON", 0, "", 0)>>,
      Header(1) \o <<Ln("NOEQUAL", 0, "", 0)>>,
      Header(1) \o <<Ln("OTHER", 0, "X", 0)>>,
      Header(1) \o <<Pf("BOGUS", 0)>>,
      <<Pf("NUMBER_OF_DEVICES", -3)>>,
      Tail(Header(1)) \o DevLines(0, Pascal),
      Header(1) \o <<Dv(1, "DEVICE_ID", 1)>>,
      Header(1) \o <<Dv(-1, "DEVICE_ID", -1)>>,
      Header(1) \o <<Dv(0, "DEVICE_ID", 1)>>,
      Header(1) \o <<Dv(0, "BOGUS", 0)>>,
      Header(0),
      Header(0) \o <<Dv(0, "DEVICE_ID", 0)>> }

\* gpuinfo stopped after the PLATFORM lines.
Truncated == {Header(1), Header(2)}

\* NUMBER_OF_DEVICES raised after devAttrs was allocated.
LateCount ==
    {Header(1) \o DevLines(0, Pascal) \o <<Pf("NUMBER_OF_DEVICES", 2)>>
               \o DevLines(1, Pascal),
     Header(1) \o DevLines(0, Pascal) \o <<Pf("NUMBER_OF_DEVICES", 2)>>}

MCInputs == WellFormed \cup Malformed \cup Truncated \cup LateCount
=============================================================================
