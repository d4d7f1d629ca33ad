----------------------------- MODULE Lifecycle -----------------------------
(***************************************************************************)
(* How the drivers are bound to a device and unbound: edu_probe and        *)
(* edu_remove of edu_pci.c, which unwinds through a chain of labels, both  *)
(* probes of pcie_prototype_sim/kernel/proto_pcie.c, whose                 *)
(* proto_destroy_device goes by flags, and the simulation probe of         *)
(* pcie_prototype_ring, which allocates everything before it looks at what *)
(* it got (its PCI probe is that of pcie_prototype_sim).  Any step of a    *)
(* probe may fail.                                                         *)
(*                                                                         *)
(* The module is unloaded only when no file is open (.owner of edu_fops    *)
(* and proto_fops).                                                        *)
(***************************************************************************)
EXTENDS Naturals, Sequences

CONSTANT MaxFiles       \* bound on the files open at a time

ASSUME LifecycleAssumption == MaxFiles \in Nat

VARIABLES
    driver,     \* "edu_pci"; "proto_pci", and with simulate "proto_sim" or "ring_sim"
    phase,      \* "unbound", "probing", "bound" or "releasing"
    step,       \* the next step of a probe
    todo,       \* what is left to release, in order
    held,       \* what the driver has acquired
    files       \* how many times the device node is held open

vars == <<driver, phase, step, todo, held, files>>

\* What each probe acquires, in order; "mask" and "check" acquire nothing.
ProbeSteps ==
    [edu_pci   |-> <<"mem", "enabled", "regions", "mask", "bar", "dma", "vectors", "irq",
                     "node", "debugfs", "sysfs">>,
     proto_pci |-> <<"mem", "enabled", "regions", "bar", "mask", "dma", "vectors", "irq",
                     "node">>,
     proto_sim |-> <<"mem", "dma", "node">>,
     ring_sim  |-> <<"mem", "dma", "cmd_ring", "comp_ring", "payloads", "check", "node">>]

RingParts == {"dma", "cmd_ring", "comp_ring", "payloads"}

\* Steps whose failure edu_probe reports and ignores, and those that the simulation
\* probe of pcie_prototype_ring checks later.
Tolerated == IF driver = "ring_sim" THEN RingParts ELSE {"debugfs", "sysfs"}

\* What the labels of edu_probe release, each falling through to the next.
EduLabels == <<"irq", "vectors", "dma", "bar", "regions", "enabled", "mem">>

\* Deviations: without memory for the rings the mapping stays; a bar that is not
\* there is unmapped.
EduGotoSkipsBar ==
    [enabled |-> 7, regions |-> 6, mask |-> 5, bar |-> 5, dma |-> 5,
     vectors |-> 3, irq |-> 2, node |-> 1]
EduGotoUnmaps ==
    [enabled |-> 7, regions |-> 6, mask |-> 5, bar |-> 4, dma |-> 4,
     vectors |-> 3, irq |-> 2, node |-> 1]

\* The label edu_probe goes to when a step fails, counted in EduLabels.
EduGoto ==
    [enabled |-> 7, regions |-> 6, mask |-> 5, bar |-> 5, dma |-> 4,
     vectors |-> 3, irq |-> 2, node |-> 1]

\* proto_destroy_device, also where the probes of pcie_prototype_sim go.
ProtoDestroy == <<"node", "irq", "vectors", "dma", "bar", "regions", "enabled", "mem">>

\* err_free of the simulation probe of pcie_prototype_ring, and its
\* proto_destroy_device.
RingDestroy == <<"node", "dma", "cmd_ring", "comp_ring", "payloads", "mem">>

\* A probe that has no memory for its state returns at once.
Unwind(failed) ==
    IF failed = "mem" THEN <<>>
    ELSE CASE driver = "edu_pci"  -> SubSeq(EduLabels, EduGoto[failed], Len(EduLabels))
           [] driver = "ring_sim" -> RingDestroy
           [] OTHER               -> ProtoDestroy

\* Deviation: the buffer is freed before the handler that reads it.
EduRemoveDmaFirst ==
    <<"debugfs", "sysfs", "node", "dma", "irq", "vectors", "evt_ctx", "bar", "regions",
      "enabled", "mem">>

EduRemove ==
    <<"debugfs", "sysfs", "node", "irq", "vectors", "evt_ctx", "dma", "bar", "regions",
      "enabled", "mem">>

\* What is released only if a flag or a pointer says that it is there: in edu_remove
\* the directory and the context (it looks at dma_virt and bar0 too, which always
\* are), in proto_destroy_device all but the state itself.
Checked ==
    IF driver = "edu_pci" THEN {"debugfs", "evt_ctx"}
    ELSE {"node", "irq", "vectors", "bar", "regions", "enabled"} \cup RingParts

-----------------------------------------------------------------------------
Probe ==
    /\ phase = "unbound"
    /\ phase' = "probing" /\ step' = 1
    /\ UNCHANGED <<driver, todo, held, files>>

Steps == ProbeSteps[driver]

\* The driver is bound when its last step is done.
Advance ==
    IF step < Len(Steps) THEN step' = step + 1 /\ UNCHANGED phase
    ELSE phase' = "bound" /\ UNCHANGED step

ProbeStep ==
    /\ phase = "probing"
    /\ Steps[step] = "check" => RingParts \subseteq held
    /\ held' = held \cup ({Steps[step]} \ {"mask", "check"})
    /\ Advance
    /\ UNCHANGED <<driver, todo, files>>

ProbeStepFails ==
    /\ phase = "probing"
    /\ Steps[step] = "check" => ~(RingParts \subseteq held)
    /\ IF Steps[step] \in Tolerated
       THEN Advance /\ UNCHANGED todo
       ELSE phase' = "releasing" /\ todo' = Unwind(Steps[step]) /\ UNCHANGED step
    /\ UNCHANGED <<driver, held, files>>

Remove ==
    /\ phase = "bound" /\ files = 0
    /\ phase' = "releasing"
    /\ todo' = CASE driver = "edu_pci"  -> EduRemove
                 [] driver = "ring_sim" -> RingDestroy
                 [] OTHER               -> ProtoDestroy
    /\ UNCHANGED <<driver, step, held, files>>

Release ==
    /\ phase = "releasing"
    /\ IF todo = <<>>
       THEN phase' = "unbound" /\ UNCHANGED <<todo, held>>
       ELSE held' = held \ {Head(todo)} /\ todo' = Tail(todo) /\ UNCHANGED phase
    /\ UNCHANGED <<driver, step, files>>

\* The node can be opened as soon as it is there, before the probe has ended.
Open ==
    /\ phase \in {"probing", "bound"} /\ "node" \in held
    /\ files < MaxFiles
    /\ files' = files + 1
    /\ UNCHANGED <<driver, phase, step, todo, held>>

Close ==
    /\ files > 0
    /\ files' = files - 1
    /\ UNCHANGED <<driver, phase, step, todo, held>>

\* EDU_IOC_SET_EVENTFD takes a reference for the driver and gives back the one
\* before.
SetEventfd ==
    /\ driver = "edu_pci" /\ files > 0
    /\ held' = held \cup {"evt_ctx"}
    /\ UNCHANGED <<driver, phase, step, todo, files>>

Init ==
    /\ driver \in {"edu_pci", "proto_pci", "proto_sim", "ring_sim"}
    /\ phase = "unbound" /\ step = 1 /\ todo = <<>> /\ held = {} /\ files = 0

Next ==
    \/ Probe \/ ProbeStep \/ ProbeStepFails \/ Remove \/ Release
    \/ Open \/ Close \/ SetEventfd

Spec == Init /\ [][Next]_vars

-----------------------------------------------------------------------------
\* A failed probe and a remove give back everything the driver has acquired,
\* whichever step failed (the labels of edu_probe, edu_remove,
\* proto_destroy_device).
NothingLeft == phase = "unbound" => held = {}

\* What each way into the driver needs: the handler, the calls on the device
\* node, the debugfs file and the sysfs attribute.
Needed ==
    [irq |-> {"mem", "enabled", "bar", "dma"},
     node |-> {"mem", "dma"} \cup (IF driver = "ring_sim" THEN RingParts ELSE {}),
     debugfs |-> {"mem"}, sysfs |-> {"mem"}]

\* No way into the driver is open longer than what it works on: not while a probe
\* goes up, nor while anything comes down.
EntriesHaveDevice ==
    \A entry \in DOMAIN Needed : entry \in held => Needed[entry] \subseteq held

\* Nothing is released unseen that is not there; only the sysfs group is removed also
\* when its creation had failed (edu_remove).
ReleasedOnce ==
    [][(Release /\ todo # <<>>) => Head(todo) \in held \cup Checked \cup {"sysfs"}]_vars
=============================================================================
