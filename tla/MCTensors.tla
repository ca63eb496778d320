----------------------------- MODULE MCTensors -----------------------------
(***************************************************************************)
(* Instances of Tensors for TLC: two layers, models on the host and on a   *)
(* GPU, under every storage policy.                                        *)
(***************************************************************************)
EXTENDS Tensors

CONSTANTS fc1, fc2

TwoLayers == {fc1, fc2}
InOrder   == <<fc1, fc2>>
OneOrBoth == {{fc1}, {fc1, fc2}}

Form(dtype) == [dtype |-> dtype, shape |-> <<3, 2>>]
Scp(mode, storage, cuda, large, dtype, uses) ==
  [mode |-> mode, storage |-> storage, cuda |-> cuda, large |-> large,
   form |-> Form(dtype), uses |-> uses]

\* mode, storage, on a GPU, large
Placements ==
  { <<"REFERENCE", "CPU", FALSE, FALSE>>, <<"SNAPSHOT", "CPU", FALSE, FALSE>>,
    <<"REFERENCE", "CPU", TRUE, FALSE>>,  <<"REFERENCE", "GPU", TRUE, FALSE>>,
    <<"SNAPSHOT", "AUTO", TRUE, TRUE>>,   <<"REFERENCE", "AUTO", TRUE, FALSE>> }

\* Programs: blocks that nest and raise; blocks that capture; blocks that
\* reduce; attaches without a block, between which a reduction is registered,
\* without and with a seed.
Nesting   == {"track", "raise"}
Capturing == {"track", "write", "readback", "params"}
Blocks    == {"register", "track", "write", "readback"}
Attaches  == {"register", "attach", "write", "readback"}
Seeded    == {"register", "attach", "seed", "readback"}

OnHost == {p \in Placements : ~ p[3]}
Kept   == OnHost \cup {p \in Placements : p[2] = "GPU"}
Auto   == {p \in Placements : p[2] = "AUTO"}

InMemory ==
  {Scp(p[1], p[2], p[3], p[4], "float32", Seeded) : p \in Placements}
  \cup {Scp(p[1], p[2], p[3], p[4], "float32", Nesting) : p \in OnHost \cup Auto}
  \cup {Scp(p[1], p[2], p[3], p[4], "float32", Capturing) : p \in Kept}
  \cup {Scp(p[1], p[2], p[3], p[4], "float32", u) : p \in OnHost, u \in {Blocks, Attaches}}

\* amax knows no complex numbers: those are captured as they are.
OnDisk ==
  {Scp("REFERENCE", "DISK", FALSE, FALSE, d, {"register", "track"}) :
     d \in {"bool", "int64", "float16"}}
  \cup {Scp("REFERENCE", "DISK", FALSE, FALSE, d, {"track", "raise"}) :
          d \in {"complex128", "bfloat16"}}
  \cup {Scp(m, "DISK", m = "SNAPSHOT", FALSE, "float64", {"register", "attach", "seed"}) :
          m \in Modes}

AllScopes == InMemory \cup OnDisk

\* One scope for each claim of the repository that is put to the test.
OneBlock    == {Scp("REFERENCE", "CPU", FALSE, FALSE, "float32", {"track"})}
DiskReduced == {Scp("REFERENCE", "DISK", FALSE, FALSE, "float32", {"register", "track"})}
Snapshot    == {Scp("SNAPSHOT", "CPU", FALSE, FALSE, "float32",
                    {"register", "track", "readback"})}
LateReduced == {Scp("REFERENCE", "CPU", FALSE, FALSE, "float32", {"register", "attach"})}
=============================================================================
