-------------------------- MODULE EduHandlesProofs --------------------------
(***************************************************************************)
(* What is acquired is given back, for any number of objects, descriptors  *)
(* and eventfds.  A driver releases whatever its probe acquired, whichever *)
(* step of it failed, once and in an order in which no entry outlives what *)
(* it needs.  The destructor of EduDevice, both moves and the failures of  *)
(* the constructor close each descriptor of the class once, and none that  *)
(* is not theirs.  The references on eventfds and on the device node are   *)
(* those of the objects.                                                   *)
(***************************************************************************)
EXTENDS EduHandles, WellFoundedInduction, SequenceTheorems, FiniteSetTheorems, TLAPS

-----------------------------------------------------------------------------
(* The driver comes up and goes down.                                       *)

Drivers == {"edu_pci", "proto_pci", "proto_sim", "ring_sim"}
Thing   == {"mem", "enabled", "regions", "bar", "dma", "vectors", "irq", "node", "debugfs",
            "sysfs", "cmd_ring", "comp_ring", "payloads", "evt_ctx"}

LifeTypeOK ==
    /\ driver \in Drivers
    /\ phase \in {"unbound", "probing", "bound", "releasing"}
    /\ phase \in {"probing", "bound"} => step \in DOMAIN Steps
    /\ held \in SUBSET Thing
    /\ files \in Nat

\* The steps of the probe that have been taken.
Taken == {i \in DOMAIN Steps : i < step \/ phase = "bound"}

\* The driver holds what the steps up to here have acquired, but for those that may
\* fail; nothing of the steps to come, and a context only if it has a node to
\* be called through.
GoingUp ==
    phase \in {"probing", "bound"} =>
        /\ \A i \in DOMAIN Steps :
              /\ Steps[i] \in held => i \in Taken
              /\ i \in Taken => Steps[i] \in held \cup Tolerated \cup {"mask", "check"}
        /\ "evt_ctx" \in held => driver = "edu_pci" /\ "node" \in held
        /\ driver = "ring_sim" /\ 6 \in Taken => RingParts \subseteq held
        /\ \A r \in held \ {"evt_ctx"} : \E i \in DOMAIN Steps : Steps[i] = r

\* What an entry needs comes after it in the order of release.
EntriesFirst(seq) ==
    \A entry \in DOMAIN Needed : \A i \in DOMAIN seq :
        entry \in held /\ seq[i] \in Needed[entry] => \E j \in 1 .. (i - 1) : seq[j] = entry

Distinct(seq) == \A i, j \in DOMAIN seq : seq[i] = seq[j] => i = j

\* A sequence that releases what is held, once and in order.
Releases(seq) ==
    /\ seq \in Seq(Thing) /\ Distinct(seq)
    /\ \A r \in held : \E i \in DOMAIN seq : seq[i] = r
    /\ \A i \in DOMAIN seq : seq[i] \in held \cup Checked \cup {"sysfs"}
    /\ EntriesFirst(seq)

ComingDown == phase = "releasing" => Releases(todo) /\ EntriesHaveDevice

\* A file is open only while the node is there.
FilesPinned == files > 0 => phase \in {"probing", "bound"} /\ "node" \in held

LifeInv ==
    LifeTypeOK /\ NothingLeft /\ GoingUp /\ ComingDown /\ FilesPinned
-----------------------------------------------------------------------------
\* What the tables of the drivers say, once and for all.
LEMMA StepTables ==
    ASSUME driver \in Drivers
    PROVE  /\ Steps \in Seq(Thing \cup {"mask", "check"}) /\ Len(Steps) > 2
           /\ Distinct(Steps)
           /\ Tolerated \subseteq Thing
           /\ \A i \in DOMAIN Steps : Steps[i] # "evt_ctx"
           /\ driver = "ring_sim" => /\ 6 \in DOMAIN Steps
                                     /\ \A i \in DOMAIN Steps : Steps[i] = "check" <=> i = 6
<1> USE DEF Steps, ProbeSteps, Thing, Distinct, Tolerated, RingParts
<1>1. CASE driver = "edu_pci"
  BY <1>1
<1>2. CASE driver = "proto_pci"
  BY <1>2
<1>3. CASE driver = "proto_sim"
  BY <1>3
<1>4. CASE driver = "ring_sim"
  BY <1>4
<1> QED
  BY <1>1, <1>2, <1>3, <1>4 DEF Drivers

\* What each entry needs, whichever the driver.
LEMMA NeededBy ==
    /\ DOMAIN Needed = {"irq", "node", "debugfs", "sysfs"}
    /\ Needed["irq"] = {"mem", "enabled", "bar", "dma"}
    /\ Needed["node"] = {"mem", "dma"} \cup (IF driver = "ring_sim" THEN RingParts ELSE {})
    /\ Needed["debugfs"] = {"mem"} /\ Needed["sysfs"] = {"mem"}
  BY DEF Needed

\* While a driver comes up, an entry finds what it needs: it is opened after it.
LEMMA UpHasDevice ==
    ASSUME LifeTypeOK, GoingUp, phase \in {"probing", "bound"}
    PROVE  EntriesHaveDevice
<1> USE DEF GoingUp, LifeTypeOK, Taken, Steps, ProbeSteps
<1>1. CASE driver = "edu_pci"
  <2>1. Steps = <<"mem", "enabled", "regions", "mask", "bar", "dma", "vectors", "irq",
                  "node", "debugfs", "sysfs">>
    BY <1>1
  <2> QED
    BY <1>1, <2>1, NeededBy DEF EntriesHaveDevice, Tolerated
<1>2. CASE driver = "proto_pci"
  BY <1>2, NeededBy DEF EntriesHaveDevice, Tolerated
<1>3. CASE driver = "proto_sim"
  BY <1>3, NeededBy DEF EntriesHaveDevice, Tolerated
<1>4. CASE driver = "ring_sim"
  BY <1>4, NeededBy DEF EntriesHaveDevice, Tolerated, RingParts
<1> QED
  BY <1>1, <1>2, <1>3, <1>4 DEF Drivers

\* The driver starts with nothing.
LEMMA LifeInvInit == Init => LifeInv
  BY DEF Init, LifeInv, LifeTypeOK, Drivers, Thing, NothingLeft, GoingUp, ComingDown,
         FilesPinned

\* A step of a probe that is done, or that failed and may.
LEMMA StepTaken ==
    ASSUME LifeInv, phase = "probing", Advance, UNCHANGED <<driver, todo, files>>,
           held' \in {held, held \cup ({Steps[step]} \ {"mask", "check"})},
           held' = held => Steps[step] \in Tolerated \cup {"mask", "check"},
           driver = "ring_sim" /\ step = 6 => RingParts \subseteq held
    PROVE  LifeInv'
<1> USE DEF LifeInv, LifeTypeOK
<1>1. /\ Steps \in Seq(Thing \cup {"mask", "check"}) /\ Len(Steps) > 2
      /\ Distinct(Steps) /\ Steps' = Steps /\ Tolerated' = Tolerated
      /\ \A i \in DOMAIN Steps : Steps[i] # "evt_ctx"
      /\ step \in DOMAIN Steps
  BY StepTables DEF Steps, Tolerated
<1>2. /\ phase' \in {"probing", "bound"} /\ step' \in DOMAIN Steps
      /\ Taken' = Taken \cup {step} /\ step \notin Taken
  BY <1>1 DEF Advance, Taken
<1>3. Steps[step] \notin held
  BY <1>1, <1>2 DEF GoingUp
<1>4. LifeTypeOK'
  BY <1>1, <1>2
<1>5. GoingUp'
  <2>1. ASSUME NEW i \in DOMAIN Steps
        PROVE  /\ Steps[i] \in held' => i \in Taken'
               /\ i \in Taken' => Steps[i] \in held' \cup Tolerated \cup {"mask", "check"}
    BY <1>1, <1>2 DEF GoingUp, Distinct
  <2>2. "evt_ctx" \in held' => driver = "edu_pci" /\ "node" \in held'
    BY <1>1 DEF GoingUp
  <2>3. driver = "ring_sim" /\ 6 \in Taken' => RingParts \subseteq held'
    BY <1>2 DEF GoingUp
  <2>4. \A r \in held' \ {"evt_ctx"} : \E i \in DOMAIN Steps : Steps[i] = r
    BY <1>1 DEF GoingUp
  <2> QED
    BY <1>1, <2>1, <2>2, <2>3, <2>4 DEF GoingUp
<1>6. NothingLeft' /\ ComingDown' /\ FilesPinned'
  BY <1>2 DEF NothingLeft, ComingDown, FilesPinned
<1> QED
  BY <1>4, <1>5, <1>6

\* In every phase an entry finds what it needs.
LEMMA LifeInvDevice == LifeInv => EntriesHaveDevice
<1> SUFFICES ASSUME LifeInv PROVE EntriesHaveDevice
  OBVIOUS
<1> USE DEF LifeInv
<1>1. CASE phase \in {"probing", "bound"}
  BY <1>1, UpHasDevice
<1>2. CASE phase = "releasing"
  BY <1>2 DEF ComingDown
<1>3. CASE phase = "unbound"
  BY <1>3 DEF NothingLeft, EntriesHaveDevice
<1> QED
  BY <1>1, <1>2, <1>3 DEF LifeTypeOK

\* The labels from one on release what stands after them.
LEMMA LabelsRelease ==
    ASSUME driver = "edu_pci", NEW g \in 1 .. 7, held = {EduLabels[j] : j \in g .. 7}
    PROVE  Releases(SubSeq(EduLabels, g, 7))
<1> DEFINE seq == SubSeq(EduLabels, g, 7)
<1>1. /\ \A j \in 1 .. 7 : EduLabels[j] \in Thing
      /\ \A i, j \in 1 .. 7 : EduLabels[i] = EduLabels[j] => i = j
      /\ EduLabels[1] = "irq"
      /\ \A j \in 1 .. 7 : EduLabels[j] \notin {"node", "debugfs", "sysfs"}
  BY DEF EduLabels, Thing
<1>2. /\ seq \in Seq(Thing) /\ Len(seq) = 8 - g /\ DOMAIN seq = 1 .. (8 - g)
      /\ \A i \in 1 .. (8 - g) : seq[i] = EduLabels[i + g - 1] /\ i + g - 1 \in 1 .. 7
  <2>1. \A i \in g .. 7 : EduLabels[i] \in Thing
    BY <1>1
  <2>2. /\ seq \in Seq(Thing) /\ Len(seq) = IF g <= 7 THEN 7 - g + 1 ELSE 0
        /\ \A i \in 1 .. 7 - g + 1 : seq[i] = EduLabels[g + i - 1]
    BY <2>1, SubSeqProperties
  <2> HIDE DEF seq
  <2>3. Len(seq) = 8 - g /\ 7 - g + 1 = 8 - g
    BY <2>2
  <2>4. DOMAIN seq = 1 .. (8 - g)
    BY <2>2, <2>3
  <2>5. \A i \in 1 .. (8 - g) : g + i - 1 = i + g - 1 /\ i + g - 1 \in 1 .. 7
    OBVIOUS
  <2> QED
    BY <2>2, <2>3, <2>4, <2>5
<1> HIDE DEF seq
<1>3. Distinct(seq)
  <2> SUFFICES ASSUME NEW i \in 1 .. (8 - g), NEW j \in 1 .. (8 - g), seq[i] = seq[j]
               PROVE  i = j
    BY <1>2 DEF Distinct
  <2>1. /\ EduLabels[i + g - 1] = EduLabels[j + g - 1]
        /\ i + g - 1 \in 1 .. 7 /\ j + g - 1 \in 1 .. 7
    BY <1>2
  <2>2. i + g - 1 = j + g - 1
    BY <1>1, <2>1, Zenon
  <2> QED
    BY <2>2
<1>4. \A r \in held : \E i \in DOMAIN seq : seq[i] = r
  <2> SUFFICES ASSUME NEW r \in held PROVE \E i \in DOMAIN seq : seq[i] = r
    OBVIOUS
  <2>1. PICK j \in g .. 7 : r = EduLabels[j]
    OBVIOUS
  <2>2. j - g + 1 \in DOMAIN seq /\ seq[j - g + 1] = r
    BY <1>2, <2>1
  <2> QED
    BY <2>2
<1>5. \A i \in DOMAIN seq : seq[i] \in held
  BY <1>2
<1>6. EntriesFirst(seq)
  <2> SUFFICES ASSUME NEW entry \in DOMAIN Needed, NEW i \in 1 .. (8 - g),
                      entry \in held, seq[i] \in Needed[entry]
               PROVE  \E j \in 1 .. (i - 1) : seq[j] = entry
    BY <1>2 DEF EntriesFirst
  <2>1. PICK k \in g .. 7 : entry = EduLabels[k]
    OBVIOUS
  <2>2. entry = "irq" /\ k = 1 /\ g = 1
    BY <1>1, <2>1, NeededBy
  <2>3. seq[1] = "irq" /\ i # 1
    BY <1>1, <1>2, <2>2, NeededBy
  <2> QED
    BY <2>2, <2>3
<1> QED
  BY <1>2, <1>3, <1>4, <1>5, <1>6 DEF Releases, seq

\* proto_destroy_device releases whatever a prototype driver holds.
LEMMA ProtoReleases ==
    ASSUME LifeTypeOK, GoingUp, phase \in {"probing", "bound"},
           driver \in {"proto_pci", "proto_sim"}, "mem" \in held
    PROVE  Releases(ProtoDestroy)
<1>1. held \subseteq {"mem", "enabled", "regions", "bar", "dma", "vectors", "irq", "node"}
  BY DEF LifeTypeOK, Thing, GoingUp, Steps, ProbeSteps, Tolerated
<1>2. ProtoDestroy \in Seq(Thing) /\ Distinct(ProtoDestroy)
  BY DEF ProtoDestroy, Thing, Distinct
<1>3. \A r \in held : \E i \in DOMAIN ProtoDestroy : ProtoDestroy[i] = r
  BY <1>1 DEF ProtoDestroy
<1>4. \A i \in DOMAIN ProtoDestroy : ProtoDestroy[i] \in held \cup Checked \cup {"sysfs"}
  BY DEF ProtoDestroy, Checked, RingParts
<1>5. EntriesFirst(ProtoDestroy)
  BY <1>1, NeededBy DEF EntriesFirst, ProtoDestroy
<1> QED
  BY <1>2, <1>3, <1>4, <1>5 DEF Releases

\* The simulation of pcie_prototype_ring, too.
LEMMA RingReleases ==
    ASSUME LifeTypeOK, GoingUp, phase \in {"probing", "bound"},
           driver = "ring_sim", "mem" \in held
    PROVE  Releases(RingDestroy)
<1>1. held \subseteq {"mem", "dma", "cmd_ring", "comp_ring", "payloads", "node"}
  BY DEF LifeTypeOK, Thing, GoingUp, Steps, ProbeSteps, Tolerated
<1>2. RingDestroy \in Seq(Thing) /\ Distinct(RingDestroy)
  BY DEF RingDestroy, Thing, Distinct
<1>3. \A r \in held : \E i \in DOMAIN RingDestroy : RingDestroy[i] = r
  BY <1>1 DEF RingDestroy
<1>4. \A i \in DOMAIN RingDestroy : RingDestroy[i] \in held \cup Checked \cup {"sysfs"}
  BY DEF RingDestroy, Checked, RingParts
<1>5. EntriesFirst(RingDestroy)
  BY <1>1, NeededBy DEF EntriesFirst, RingDestroy, RingParts
<1> QED
  BY <1>2, <1>3, <1>4, <1>5 DEF Releases

\* edu_remove releases what edu_probe has acquired.
LEMMA EduReleases ==
    ASSUME LifeTypeOK, GoingUp, phase = "bound", driver = "edu_pci"
    PROVE  Releases(EduRemove)
<1>1. /\ held \subseteq {"mem", "enabled", "regions", "bar", "dma", "vectors", "irq", "node",
                         "debugfs", "sysfs", "evt_ctx"}
      /\ {"mem", "enabled", "regions", "bar", "dma", "vectors", "irq", "node"} \subseteq held
  <2>1. Steps = <<"mem", "enabled", "regions", "mask", "bar", "dma", "vectors", "irq",
                  "node", "debugfs", "sysfs">>
    BY DEF Steps, ProbeSteps
  <2> QED
    BY <2>1 DEF LifeTypeOK, Thing, GoingUp, Tolerated, Taken
<1>2. EduRemove \in Seq(Thing) /\ Distinct(EduRemove)
  BY DEF EduRemove, Thing, Distinct
<1>3. \A r \in held : \E i \in DOMAIN EduRemove : EduRemove[i] = r
  BY <1>1 DEF EduRemove
<1>4. \A i \in DOMAIN EduRemove : EduRemove[i] \in held \cup Checked \cup {"sysfs"}
  BY <1>1 DEF EduRemove, Checked
<1>5. EntriesFirst(EduRemove)
  BY <1>1, NeededBy DEF EntriesFirst, EduRemove
<1> QED
  BY <1>2, <1>3, <1>4, <1>5 DEF Releases

\* A failed step goes to the label that releases what the steps before it have
\* acquired.
LEMMA UnwindReleases ==
    ASSUME LifeInv, phase = "probing", Steps[step] \notin Tolerated
    PROVE  Releases(Unwind(Steps[step]))
<1> USE DEF LifeInv, LifeTypeOK, Taken
<1>1. step \in DOMAIN Steps /\ Taken = {i \in DOMAIN Steps : i < step}
  OBVIOUS
<1>2. CASE driver = "edu_pci"
  <2>1. Steps = <<"mem", "enabled", "regions", "mask", "bar", "dma", "vectors", "irq",
                  "node", "debugfs", "sysfs">>
    BY <1>2 DEF Steps, ProbeSteps
  <2>2. step \in 1 .. 9 /\ Tolerated = {"debugfs", "sysfs"}
    BY <1>1, <1>2, <2>1 DEF Tolerated
  <2>3. "node" \notin held /\ "evt_ctx" \notin held
    BY <1>1, <2>1, <2>2 DEF GoingUp
  <2>4. held \subseteq {Steps[i] : i \in 1 .. (step - 1)}
    BY <1>1, <2>1, <2>2, <2>3 DEF GoingUp
  <2>5. {Steps[i] : i \in 1 .. (step - 1)} \subseteq held \cup {"mask"}
    BY <1>1, <2>1, <2>2, <2>3 DEF GoingUp
  <2>6. CASE step = 1
    BY <1>2, <2>1, <2>4, <2>6, NeededBy DEF Unwind, Releases, Distinct, EntriesFirst
  <2>7. CASE step \in 2 .. 9
    <3>1. PICK g \in 1 .. 7 : /\ Unwind(Steps[step]) = SubSeq(EduLabels, g, 7)
                             /\ held = {EduLabels[j] : j \in g .. 7}
      <4>1. Unwind(Steps[step]) = SubSeq(EduLabels, EduGoto[Steps[step]], 7)
        <5>1. Steps[step] # "mem"
          BY <2>1, <2>7
        <5>2. Len(EduLabels) = 7
          BY DEF EduLabels
        <5> QED
          BY ONLY <1>2, <5>1, <5>2, Zenon DEF Unwind
      <4>2. EduGoto[Steps[step]] \in 1 .. 7
        BY <2>1, <2>7 DEF EduGoto
      <4>3. held = {EduLabels[j] : j \in EduGoto[Steps[step]] .. 7}
        <5>1. held = {Steps[i] : i \in 1 .. (step - 1)} \ {"mask"}
          BY <2>1, <2>3, <2>4, <2>5, <2>7 DEF Thing
        <5>2. {Steps[i] : i \in 1 .. (step - 1)} \ {"mask"}
                = {EduLabels[j] : j \in EduGoto[Steps[step]] .. 7}
          BY <2>1, <2>7 DEF EduGoto, EduLabels
        <5> QED
          BY <5>1, <5>2
      <4> QED
        BY <4>1, <4>2, <4>3
    <3> QED
      BY <1>2, <3>1, LabelsRelease
  <2> QED
    BY <2>2, <2>6, <2>7
<1>3. CASE driver \in {"proto_pci", "proto_sim"}
  <2>1. CASE step = 1
    <3>1. Steps[step] = "mem" /\ held = {}
      BY <1>3, <2>1 DEF Steps, ProbeSteps, GoingUp
    <3> QED
      BY <3>1, NeededBy DEF Unwind, Releases, Distinct, EntriesFirst
  <2>2. CASE step # 1
    <3>1. "mem" \in held /\ Steps[step] # "mem" /\ "evt_ctx" \notin held
      BY <1>3, <2>2 DEF Steps, ProbeSteps, GoingUp, Tolerated
    <3>2. Unwind(Steps[step]) = ProtoDestroy
      BY <1>3, <3>1 DEF Unwind
    <3> QED
      BY <1>3, <3>1, <3>2, ProtoReleases
  <2> QED
    BY <2>1, <2>2
<1>4. CASE driver = "ring_sim"
  <2>1. CASE step = 1
    <3>1. Steps[step] = "mem" /\ held = {}
      BY <1>4, <2>1 DEF Steps, ProbeSteps, GoingUp
    <3> QED
      BY <3>1, NeededBy DEF Unwind, Releases, Distinct, EntriesFirst
  <2>2. CASE step # 1
    <3>1. "mem" \in held /\ Steps[step] # "mem"
      BY <1>4, <2>2 DEF Steps, ProbeSteps, GoingUp, Tolerated, RingParts
    <3>2. Unwind(Steps[step]) = RingDestroy
      BY <1>4, <3>1 DEF Unwind
    <3> QED
      BY <1>4, <3>1, <3>2, RingReleases
  <2> QED
    BY <2>1, <2>2
<1> QED
  BY <1>2, <1>3, <1>4 DEF Drivers

\* A step of a release takes one thing, and the rest is still to be released.
LEMMA ReleaseGoesOn ==
    ASSUME LifeInv, Release
    PROVE  LifeInv'
<1> USE DEF LifeInv, LifeTypeOK
<1>1. CASE todo = <<>>
  <2>1. held = {}
    BY <1>1 DEF Release, ComingDown, Releases
  <2>2. phase' = "unbound" /\ UNCHANGED <<driver, step, todo, held, files>>
    BY <1>1 DEF Release
  <2> QED
    BY <2>1, <2>2 DEF NothingLeft, GoingUp, ComingDown, FilesPinned, Release
<1>2. CASE todo # <<>>
  <2>1. /\ phase = "releasing" /\ phase' = phase /\ UNCHANGED <<driver, step, files>>
        /\ held' = held \ {Head(todo)} /\ todo' = Tail(todo)
    BY <1>2 DEF Release
  <2>2. /\ todo \in Seq(Thing) /\ Distinct(todo) /\ EntriesFirst(todo)
        /\ \A r \in held : \E i \in DOMAIN todo : todo[i] = r
        /\ \A i \in DOMAIN todo : todo[i] \in held \cup Checked \cup {"sysfs"}
        /\ EntriesHaveDevice
    BY <2>1 DEF ComingDown, Releases
  <2>3. /\ todo' \in Seq(Thing) /\ DOMAIN todo' = 1 .. (Len(todo) - 1)
        /\ \A i \in 1 .. (Len(todo) - 1) : todo'[i] = todo[i + 1]
        /\ DOMAIN todo = 1 .. Len(todo) /\ Len(todo) \in Nat \ {0} /\ Head(todo) = todo[1]
    BY <1>2, <2>1, <2>2, HeadTailProperties
  <2>4. Distinct(todo)'
    <3> SUFFICES ASSUME NEW i \in 1 .. (Len(todo) - 1), NEW j \in 1 .. (Len(todo) - 1),
                        todo'[i] = todo'[j]
                 PROVE  i = j
      BY <2>3 DEF Distinct
    <3>1. i + 1 \in DOMAIN todo /\ j + 1 \in DOMAIN todo /\ todo[i + 1] = todo[j + 1]
      BY <2>3
    <3>2. i + 1 = j + 1
      BY <2>2, <3>1 DEF Distinct
    <3> QED
      BY <3>2
  <2>5. \A r \in held' : \E i \in DOMAIN todo' : todo'[i] = r
    <3> SUFFICES ASSUME NEW r \in held' PROVE \E i \in DOMAIN todo' : todo'[i] = r
      OBVIOUS
    <3>1. PICK i \in DOMAIN todo : todo[i] = r
      BY <2>1, <2>2
    <3>2. i # 1
      BY <2>1, <2>3, <3>1
    <3>3. i - 1 \in DOMAIN todo' /\ todo'[i - 1] = r
      BY <2>3, <3>1, <3>2
    <3> QED
      BY <3>3
  <2>6. \A i \in DOMAIN todo' : todo'[i] \in held' \cup Checked' \cup {"sysfs"}
    <3> SUFFICES ASSUME NEW i \in DOMAIN todo'
                 PROVE  todo'[i] \in held' \cup Checked' \cup {"sysfs"}
      OBVIOUS
    <3>1. i + 1 \in DOMAIN todo /\ todo'[i] = todo[i + 1] /\ todo[i + 1] # todo[1]
      BY <2>2, <2>3 DEF Distinct
    <3> QED
      BY <2>1, <2>2, <2>3, <3>1 DEF Checked
  <2>7. Needed' = Needed
    BY <2>1 DEF Needed
  <2>8. EntriesFirst(todo)'
    <3> SUFFICES ASSUME NEW entry \in DOMAIN Needed, NEW i \in DOMAIN todo',
                        entry \in held', todo'[i] \in Needed[entry]
                 PROVE  \E j \in 1 .. (i - 1) : todo'[j] = entry
      BY <2>7 DEF EntriesFirst
    <3>1. i + 1 \in DOMAIN todo /\ todo'[i] = todo[i + 1] /\ entry \in held
      BY <2>1, <2>3
    <3>2. PICK j \in 1 .. ((i + 1) - 1) : todo[j] = entry
      BY <2>2, <3>1 DEF EntriesFirst
    <3>3. j # 1
      BY <2>1, <2>3, <3>2
    <3>4. j - 1 \in 1 .. (i - 1) /\ todo'[j - 1] = entry
      BY <2>3, <3>2, <3>3
    <3> QED
      BY <3>4
  <2>9. EntriesHaveDevice'
    <3> SUFFICES ASSUME NEW entry \in DOMAIN Needed, entry \in held', NEW x \in Needed[entry]
                 PROVE  x \in held'
      BY <2>7 DEF EntriesHaveDevice
    <3>1. entry \in held /\ x \in held
      BY <2>1, <2>2 DEF EntriesHaveDevice
    <3>2. 1 \in DOMAIN todo /\ ~ \E j \in 1 .. 0 : todo[j] = entry
      BY <2>3
    <3>3. todo[1] # x
      BY <2>2, <3>1, <3>2 DEF EntriesFirst
    <3> QED
      BY <2>1, <2>3, <3>1, <3>3
  <2> QED
    BY <2>1, <2>3, <2>4, <2>5, <2>6, <2>8, <2>9
       DEF NothingLeft, GoingUp, ComingDown, FilesPinned, Releases
<1> QED
  BY <1>1, <1>2

\* Files and mappings of the node come and go.
LEMMA FilesChange ==
    ASSUME LifeInv, UNCHANGED <<driver, phase, step, todo, held>>, files' \in Nat,
           files' > 0 => phase \in {"probing", "bound"} /\ "node" \in held
    PROVE  LifeInv'
<1> USE DEF LifeInv
<1>1. LifeTypeOK' /\ NothingLeft' /\ FilesPinned'
  BY DEF LifeTypeOK, Steps, NothingLeft, FilesPinned
<1>2. GoingUp'
  BY DEF GoingUp, Steps, Taken, Tolerated
<1>3. ComingDown'
  BY DEF ComingDown, Releases, Checked, EntriesFirst, EntriesHaveDevice, Needed
<1> QED
  BY <1>1, <1>2, <1>3

\* A registration needs an open file, so the driver is up and has a node.
LEMMA ContextTaken ==
    ASSUME LifeInv, SetEventfd
    PROVE  LifeInv'
<1> USE DEF LifeInv, SetEventfd
<1>1. phase \in {"probing", "bound"} /\ "node" \in held /\ driver = "edu_pci"
  BY DEF FilesPinned, LifeTypeOK
<1>2. LifeTypeOK' /\ NothingLeft' /\ FilesPinned' /\ ComingDown'
  BY <1>1 DEF LifeTypeOK, Thing, Steps, NothingLeft, FilesPinned, ComingDown
<1>3. \A i \in DOMAIN Steps : Steps[i] # "evt_ctx"
  BY <1>1 DEF Steps, ProbeSteps
<1>4. GoingUp'
  BY <1>1, <1>3 DEF GoingUp, Steps, Taken, Tolerated
<1> QED
  BY <1>2, <1>4

\* Every step of the driver keeps the invariant.
LEMMA LifeInvStep ==
    ASSUME LifeInv, Probe \/ ProbeStep \/ ProbeStepFails \/ Remove \/ Release \/ UNCHANGED vars
    PROVE  LifeInv'
<1> USE DEF LifeInv
<1>1. CASE Probe
  <2>1. held = {} /\ files = 0 /\ Steps' = Steps
    BY <1>1 DEF Probe, NothingLeft, FilesPinned, LifeTypeOK, Steps
  <2>2. Len(Steps) > 2 /\ Steps \in Seq(Thing \cup {"mask", "check"})
    BY StepTables DEF LifeTypeOK
  <2> QED
    BY <1>1, <2>1, <2>2 DEF Probe, LifeTypeOK, NothingLeft, GoingUp, Taken, ComingDown,
       FilesPinned
<1>2. CASE ProbeStep
  <2>1. driver = "ring_sim" /\ step = 6 => Steps[step] = "check"
    BY <1>2 DEF Steps, ProbeSteps
  <2>2. held' = held => Steps[step] \in Tolerated \cup {"mask", "check"}
    <3>1. step \notin Taken /\ step \in DOMAIN Steps
      BY <1>2, StepTables DEF ProbeStep, Taken, LifeTypeOK
    <3>2. Steps[step] \notin held
      BY <1>2, <3>1 DEF ProbeStep, GoingUp
    <3> QED
      BY <1>2, <3>2 DEF ProbeStep
  <2> QED
    BY <1>2, <2>1, <2>2, StepTaken DEF ProbeStep
<1>3. CASE ProbeStepFails
  <2>1. CASE Steps[step] \in Tolerated
    <3>1. driver = "ring_sim" => step # 6
      BY <2>1 DEF Steps, ProbeSteps, Tolerated, RingParts
    <3> QED
      BY <1>3, <2>1, <3>1, StepTaken DEF ProbeStepFails
  <2>2. CASE Steps[step] \notin Tolerated
    <3>1. /\ phase = "probing" /\ phase' = "releasing" /\ todo' = Unwind(Steps[step])
          /\ UNCHANGED <<driver, step, held, files>>
      BY <1>3, <2>2 DEF ProbeStepFails
    <3>2. Releases(Unwind(Steps[step])) /\ EntriesHaveDevice
      BY <2>2, <3>1, UnwindReleases, LifeInvDevice
    <3>3. ComingDown'
      BY <3>1, <3>2 DEF ComingDown, Releases, Checked, EntriesFirst, EntriesHaveDevice, Needed
    <3>4. files = 0
      BY <2>2, <3>1 DEF LifeTypeOK, Drivers, Steps, ProbeSteps, GoingUp, Taken, FilesPinned,
         Tolerated
    <3> QED
      BY <3>1, <3>3, <3>4 DEF LifeTypeOK, NothingLeft, GoingUp, FilesPinned
  <2> QED
    BY <2>1, <2>2
<1>4. CASE Remove
  <2>1. /\ phase = "bound" /\ files = 0 /\ phase' = "releasing"
        /\ UNCHANGED <<driver, step, held, files>>
    BY <1>4 DEF Remove
  <2>2. Releases(todo')
    <3>1. driver # "edu_pci" => "mem" \in held
      BY <2>1 DEF LifeTypeOK, Drivers, GoingUp, Taken, Steps, ProbeSteps, Tolerated, RingParts
    <3>2. CASE driver = "edu_pci"
      BY <1>4, <2>1, <3>2, EduReleases DEF Remove
    <3>3. CASE driver = "ring_sim"
      BY <1>4, <2>1, <3>1, <3>3, RingReleases DEF Remove
    <3>4. CASE driver \in {"proto_pci", "proto_sim"}
      BY <1>4, <2>1, <3>1, <3>4, ProtoReleases DEF Remove
    <3> QED
      BY <3>2, <3>3, <3>4 DEF LifeTypeOK, Drivers
  <2>3. EntriesHaveDevice
    BY LifeInvDevice
  <2>4. ComingDown'
    BY <2>1, <2>2, <2>3 DEF ComingDown, Releases, Checked, EntriesFirst, EntriesHaveDevice, Needed
  <2> QED
    BY <2>1, <2>4 DEF LifeTypeOK, NothingLeft, GoingUp, FilesPinned
<1>5. CASE Release
  BY <1>5, ReleaseGoesOn
<1>6. CASE UNCHANGED vars
  BY <1>6, FilesChange DEF vars, LifeTypeOK, FilesPinned
<1> QED
  BY <1>1, <1>2, <1>3, <1>4, <1>5, <1>6

\* What a step of a release takes is there, or the code looks first, or it is the group.
LEMMA ReleaseFinds ==
    ASSUME LifeInv, Release, todo # <<>>
    PROVE  Head(todo) \in held \cup Checked \cup {"sysfs"}
<1>1. Releases(todo)
  BY DEF LifeInv, ComingDown, Release
<1>2. Head(todo) = todo[1] /\ 1 \in DOMAIN todo
  BY <1>1 DEF Releases
<1> QED
  BY <1>1, <1>2 DEF Releases

-----------------------------------------------------------------------------
\* A set of numbers that is not empty has a lowest.
LEMMA LowestIn ==
    ASSUME NEW S \in SUBSET Nat, S # {}
    PROVE  Lowest(S) \in S
<1> DEFINE less == OpToRel(<, Nat)
<1>1. \E x \in S : \A y \in S : ~ (<<y, x>> \in less)
  BY NatLessThanWellFounded, WFMin
<1>2. \A x, y \in Nat : <<y, x>> \in less <=> y < x
  BY DEF OpToRel
<1> HIDE DEF less
<1>3. PICK x \in S : \A y \in S : ~ (<<y, x>> \in less)
  BY <1>1
<1>4. \A y \in S : ~ (y < x)
  BY <1>2, <1>3
<1>5. \A y \in S : x <= y
  BY <1>4
<1> QED
  BY <1>5 DEF Lowest

\* A new descriptor is a free one.
LEMMA NewFdFree == FreeFds # {} => NewFd \in Fd /\ fdtab[NewFd] = Nothing
<1>1. FreeFds \in SUBSET Nat
  BY HandlesAssumption DEF FreeFds
<1> QED
  BY <1>1, LowestIn DEF NewFd, FreeFds

-----------------------------------------------------------------------------
(* The invariant.                                                           *)

ObjectAt == {"none", "opened", "made", "live", "closing_evt", "closing_fd",
             "assign_evt", "assign_fd", "source"}
OurKinds == {"node", "foreign", "eventfd"}

HandleTypeOK ==
    /\ obj \in [Obj -> [at : ObjectAt, fd : Fd \cup {NoFd}, evt : Fd \cup {NoFd},
                        mapped : BOOLEAN]]
    /\ fdtab \in [Fd -> [kind : OurKinds \cup {"none", "other"}, id : Nat]]
    /\ abandoned \subseteq Fd

\* Where an object has no descriptor, and where it has one.
MembersFit ==
    \A o \in Obj :
        /\ obj[o].at = "none" => obj[o].fd = NoFd
        /\ obj[o].at \in {"none", "opened", "closing_fd", "assign_fd"} => obj[o].evt = NoFd
        /\ obj[o].at \in {"opened", "made"} => obj[o].fd # NoFd
        /\ obj[o].at = "made" => obj[o].evt # NoFd

\* A member that is a descriptor is open and is what its object opened.
MembersOpen ==
    \A o \in Obj :
        /\ obj[o].fd # NoFd => fdtab[obj[o].fd].kind \in {"node", "foreign"}
        /\ obj[o].evt # NoFd => fdtab[obj[o].evt].kind = "eventfd"

\* Objects do not share descriptors, and have none of the abandoned ones.
MembersApart ==
    \A o, p \in Obj : o # p =>
        /\ obj[o].fd # NoFd => obj[o].fd # obj[p].fd
        /\ obj[o].evt # NoFd => obj[o].evt # obj[p].evt

AbandonedApart ==
    /\ \A fd \in abandoned : fdtab[fd].kind \in OurKinds
    /\ \A o \in Obj : obj[o].fd \notin abandoned /\ obj[o].evt \notin abandoned

\* Each descriptor of the class has an owner or was abandoned.
NothingLost ==
    \A fd \in Fd : fdtab[fd].kind \in OurKinds =>
        fd \in abandoned \/ \E o \in Obj : fd \in {obj[o].fd, obj[o].evt}

HandleInv ==
    /\ HandleTypeOK /\ MembersFit /\ MembersOpen /\ MembersApart
    /\ AbandonedApart /\ NothingLost

\* It says what DescriptorsOwned says of sets.
LEMMA HandleInvOwned == HandleInv => DescriptorsOwned
<1> SUFFICES ASSUME HandleInv PROVE DescriptorsOwned
  OBVIOUS
<1> USE DEF HandleInv
<1>1. \A o \in Obj : \A p \in Obj \ {o} : HeldBy(o) \cap HeldBy(p) = {}
  BY DEF MembersOpen, MembersApart, HeldBy
<1>2. OpenFds("node") \cup OpenFds("foreign") \cup OpenFds("eventfd")
        = {fd \in Fd : fdtab[fd].kind \in OurKinds}
  BY DEF OpenFds, OurKinds
<1> DEFINE Held == UNION {HeldBy(o) : o \in Obj}
<1>3. \A fd : fd \in Held <=> \E o \in Obj : fd \in HeldBy(o)
  OBVIOUS
<1> HIDE DEF Held
<1>4. ASSUME NEW fd \in Held \cup abandoned
      PROVE  fd \in Fd /\ fdtab[fd].kind \in OurKinds
  <2>1. CASE fd \in abandoned
    BY <2>1 DEF HandleTypeOK, AbandonedApart
  <2>2. CASE fd \in Held
    <3>1. PICK o \in Obj : fd \in HeldBy(o)
      BY <1>3, <2>2
    <3> QED
      BY <3>1 DEF HandleTypeOK, HeldBy, MembersOpen, OurKinds
  <2> QED
    BY <1>4, <2>1, <2>2
<1>5. ASSUME NEW fd \in Fd, fdtab[fd].kind \in OurKinds
      PROVE  fd \in Held \cup abandoned
  <2>1. fd # NoFd
    BY HandlesAssumption DEF NoFd
  <2>2. ASSUME fd \notin abandoned PROVE fd \in Held
    BY <1>3, <1>5, <2>1, <2>2 DEF NothingLost, HeldBy
  <2> QED
    BY <2>2
<1>6. Held \cup abandoned = {fd \in Fd : fdtab[fd].kind \in OurKinds}
  BY <1>4, <1>5
<1>7. OpenFds("node") \cup OpenFds("foreign") \cup OpenFds("eventfd")
        = Held \cup abandoned
  BY <1>2, <1>6
<1>8. OpenFds("node") \cup OpenFds("foreign") \cup OpenFds("eventfd")
        = (UNION {HeldBy(o) : o \in Obj}) \cup abandoned
  BY ONLY <1>7 DEF Held
<1>9. \A o \in Obj :
        /\ obj[o].fd # NoFd => fdtab[obj[o].fd].kind \in {"node", "foreign"}
        /\ obj[o].evt # NoFd => fdtab[obj[o].evt].kind = "eventfd"
  BY DEF MembersOpen
<1> QED
  BY ONLY <1>1, <1>8, <1>9, Zenon DEF DescriptorsOwned

\* A process starts with no object and no descriptor.
LEMMA HandleInvInit == HandlesInit => HandleInv
<1> SUFFICES ASSUME HandlesInit PROVE HandleInv
  OBVIOUS
<1>1. \A o \in Obj : obj[o] = NoObj
  BY DEF HandlesInit
<1>2. \A fd \in Fd : fdtab[fd].kind = "none"
  BY DEF HandlesInit, Nothing
<1>3. HandleTypeOK
  BY DEF HandlesInit, HandleTypeOK, NoObj, Nothing, ObjectAt
<1> QED
  BY <1>1, <1>2, <1>3 DEF HandlesInit, HandleInv, MembersFit, MembersOpen, MembersApart,
     AbandonedApart, NothingLost, NoObj, OurKinds
-----------------------------------------------------------------------------
(* The kinds of step.                                                       *)

\* The members of an object the constructor is making.
LEMMA ObjectParts ==
    ASSUME NEW at \in ObjectAt, NEW fd \in Fd \cup {NoFd}, NEW evt \in Fd \cup {NoFd}
    PROVE  /\ Object(at, fd, evt).at = at
           /\ Object(at, fd, evt).fd = fd /\ Object(at, fd, evt).evt = evt
           /\ Object(at, fd, evt) \in [at : ObjectAt, fd : Fd \cup {NoFd},
                                       evt : Fd \cup {NoFd}, mapped : BOOLEAN]
  BY DEF Object, NoObj

\* Objects that only go from place to place keep what they have.
LEMMA PlacesChange ==
    ASSUME HandleInv, UNCHANGED <<fdtab, abandoned>>,
           obj' \in [Obj -> [at : ObjectAt, fd : Fd \cup {NoFd}, evt : Fd \cup {NoFd},
                             mapped : BOOLEAN]],
           \A o \in Obj :
              /\ obj'[o].fd = obj[o].fd /\ obj'[o].evt = obj[o].evt
              /\ obj'[o].at \in {"none", "opened", "made", "closing_fd", "assign_fd"} =>
                    obj'[o].at = obj[o].at
    PROVE  HandleInv'
  BY DEF HandleInv, HandleTypeOK, MembersFit, MembersOpen, MembersApart, AbandonedApart,
         NothingLost

\* An object without descriptors opens its first.
LEMMA FileOpens ==
    ASSUME HandleInv, FreeFds # {}, abandoned' = abandoned,
           NEW o \in Obj, obj[o].at = "none", NEW k \in {"node", "foreign"},
           fdtab' = [fdtab EXCEPT ![NewFd] = File(k)],
           obj' = [obj EXCEPT ![o] = Object("opened", NewFd, NoFd)]
    PROVE  HandleInv'
<1> USE DEF HandleInv, HandleTypeOK
<1>1. NewFd \in Fd /\ NewFd # NoFd /\ fdtab[NewFd].kind = "none"
  BY NewFdFree, HandlesAssumption DEF NoFd, Nothing
<1>2. File(k) \in [kind : OurKinds \cup {"none", "other"}, id : Nat] /\ File(k).kind = k
  BY DEF File, OurKinds
<1>3. /\ Object("opened", NewFd, NoFd).at = "opened"
      /\ Object("opened", NewFd, NoFd).fd = NewFd /\ Object("opened", NewFd, NoFd).evt = NoFd
      /\ Object("opened", NewFd, NoFd) \in [at : ObjectAt, fd : Fd \cup {NoFd},
                                            evt : Fd \cup {NoFd}, mapped : BOOLEAN]
  BY <1>1, ObjectParts DEF ObjectAt
<1>4. /\ obj'[o].fd = NewFd /\ obj'[o].evt = NoFd /\ obj'[o].at = "opened"
      /\ \A p \in Obj : p # o => obj'[p] = obj[p]
      /\ fdtab'[NewFd].kind = k
      /\ \A fd \in Fd : fd # NewFd => fdtab'[fd] = fdtab[fd]
  BY <1>1, <1>2, <1>3
<1>5. obj[o].fd = NoFd /\ obj[o].evt = NoFd
  BY DEF MembersFit
<1>6. \A p \in Obj : obj[p].fd # NewFd /\ obj[p].evt # NewFd
  BY <1>1 DEF MembersOpen
<1>7. HandleTypeOK'
  BY <1>1, <1>2, <1>3
<1>8. MembersFit'
  BY <1>1, <1>4 DEF MembersFit
<1>9. MembersOpen'
  BY <1>4, <1>6 DEF MembersOpen
<1>10. MembersApart'
  BY <1>4, <1>6 DEF MembersApart
<1>11. AbandonedApart'
  BY <1>1, <1>4, HandlesAssumption DEF AbandonedApart, OurKinds, NoFd
<1>12. NothingLost'
  BY <1>1, <1>4, <1>5, HandlesAssumption DEF NothingLost, NoFd
<1> QED
  BY <1>7, <1>8, <1>9, <1>10, <1>11, <1>12

\* The eventfd of an object that has none.
LEMMA EventfdOpens ==
    ASSUME HandleInv, FreeFds # {}, abandoned' = abandoned,
           NEW o \in Obj, obj[o].at = "opened", NEW e \in Nat,
           fdtab' = [fdtab EXCEPT ![NewFd] = Efd(e)],
           obj' = [obj EXCEPT ![o] = Object("made", obj[o].fd, NewFd)]
    PROVE  HandleInv'
<1> USE DEF HandleInv, HandleTypeOK
<1>1. NewFd \in Fd /\ NewFd # NoFd /\ fdtab[NewFd].kind = "none"
  BY NewFdFree, HandlesAssumption DEF NoFd, Nothing
<1>2. /\ Efd(e) \in [kind : OurKinds \cup {"none", "other"}, id : Nat]
      /\ Efd(e).kind = "eventfd"
  BY DEF Efd, OurKinds
<1>3. /\ Object("made", obj[o].fd, NewFd).at = "made"
      /\ Object("made", obj[o].fd, NewFd).fd = obj[o].fd
      /\ Object("made", obj[o].fd, NewFd).evt = NewFd
      /\ Object("made", obj[o].fd, NewFd) \in
            [at : ObjectAt, fd : Fd \cup {NoFd}, evt : Fd \cup {NoFd}, mapped : BOOLEAN]
  <2>1. "made" \in ObjectAt /\ obj[o].fd \in Fd \cup {NoFd} /\ NewFd \in Fd \cup {NoFd}
    BY <1>1 DEF ObjectAt
  <2> QED
    BY <2>1, ObjectParts
<1>4. /\ obj'[o].fd = obj[o].fd /\ obj'[o].evt = NewFd /\ obj'[o].at = "made"
      /\ \A p \in Obj : p # o => obj'[p] = obj[p]
      /\ fdtab'[NewFd].kind = "eventfd"
      /\ \A fd \in Fd : fd # NewFd => fdtab'[fd] = fdtab[fd]
  BY <1>1, <1>2, <1>3
<1>5. obj[o].evt = NoFd
  BY DEF MembersFit
<1>6. \A p \in Obj : obj[p].fd # NewFd /\ obj[p].evt # NewFd
  BY <1>1 DEF MembersOpen
<1>7. HandleTypeOK'
  BY <1>1, <1>2, <1>3
<1>8. MembersFit'
  BY <1>1, <1>4 DEF MembersFit
<1>9. MembersOpen'
  BY <1>4, <1>6 DEF MembersOpen
<1>10. MembersApart'
  BY <1>4, <1>6 DEF MembersApart
<1>11. AbandonedApart'
  BY <1>1, <1>4 DEF AbandonedApart, OurKinds
<1>12. NothingLost'
  BY <1>1, <1>4, <1>5, HandlesAssumption DEF NothingLost, NoFd
<1> QED
  BY <1>7, <1>8, <1>9, <1>10, <1>11, <1>12

\* An object gives its last descriptor back and is gone.
LEMMA ObjectGone ==
    ASSUME HandleInv, abandoned' = abandoned,
           NEW o \in Obj, obj[o].evt = NoFd, CloseFile(obj[o].fd),
           obj' = [obj EXCEPT ![o] = NoObj]
    PROVE  HandleInv'
<1> USE DEF HandleInv, HandleTypeOK
<1>1. /\ NoObj.at = "none" /\ NoObj.fd = NoFd /\ NoObj.evt = NoFd
      /\ NoObj \in [at : ObjectAt, fd : Fd \cup {NoFd}, evt : Fd \cup {NoFd}, mapped : BOOLEAN]
  BY DEF NoObj, ObjectAt
<1>2. /\ Nothing.kind = "none"
      /\ Nothing \in [kind : OurKinds \cup {"none", "other"}, id : Nat]
  BY DEF Nothing
<1>3. /\ fdtab' = IF obj[o].fd = NoFd THEN fdtab ELSE [fdtab EXCEPT ![obj[o].fd] = Nothing]
  BY DEF CloseFile
<1>4. /\ obj'[o] = NoObj
      /\ \A p \in Obj : p # o => obj'[p] = obj[p]
      /\ obj[o].fd # NoFd => fdtab'[obj[o].fd].kind = "none"
      /\ \A fd \in Fd : fd # obj[o].fd => fdtab'[fd] = fdtab[fd]
  BY <1>1, <1>2, <1>3
<1>5. \A p \in Obj : p # o =>
        /\ obj[p].fd # NoFd => obj[p].fd # obj[o].fd
        /\ obj[p].evt # NoFd => obj[p].evt # obj[o].fd
  BY DEF MembersOpen, MembersApart
<1>7. HandleTypeOK'
  BY <1>1, <1>2, <1>3
<1>8. MembersFit'
  BY <1>1, <1>4 DEF MembersFit
<1>9. MembersOpen'
  BY <1>1, <1>4, <1>5 DEF MembersOpen
<1>10. MembersApart'
  BY <1>1, <1>4 DEF MembersApart
<1>11. AbandonedApart'
  BY <1>1, <1>4, HandlesAssumption DEF AbandonedApart, NoFd
<1>12. NothingLost'
  BY <1>1, <1>4, HandlesAssumption DEF NothingLost, NoFd, OurKinds
<1> QED
  BY <1>7, <1>8, <1>9, <1>10, <1>11, <1>12

\* An object on its way out, or about to be assigned to, gives its eventfd back.
LEMMA EventfdGone ==
    ASSUME HandleInv, abandoned' = abandoned,
           NEW o \in Obj, CloseEventfd(obj[o].evt), obj[o].at \in ObjectAt \ {"none"},
           NEW at \in {"closing_fd", "assign_fd"},
           obj' = [obj EXCEPT ![o].at = at, ![o].evt = NoFd]
    PROVE  HandleInv'
<1> USE DEF HandleInv, HandleTypeOK
<1>1. at \in ObjectAt
  BY DEF ObjectAt
<1>2. /\ Nothing.kind = "none"
      /\ Nothing \in [kind : OurKinds \cup {"none", "other"}, id : Nat]
  BY DEF Nothing
<1>3. /\ fdtab' = IF obj[o].evt = NoFd THEN fdtab ELSE [fdtab EXCEPT ![obj[o].evt] = Nothing]
  BY DEF CloseEventfd
<1>4. /\ obj'[o].at = at /\ obj'[o].fd = obj[o].fd /\ obj'[o].evt = NoFd
      /\ \A p \in Obj : p # o => obj'[p] = obj[p]
      /\ obj[o].evt # NoFd => fdtab'[obj[o].evt].kind = "none"
      /\ \A fd \in Fd : fd # obj[o].evt => fdtab'[fd] = fdtab[fd]
  BY <1>1, <1>2, <1>3
<1>5. \A p \in Obj :
        /\ obj[p].fd # NoFd => obj[p].fd # obj[o].evt
        /\ p # o /\ obj[p].evt # NoFd => obj[p].evt # obj[o].evt
  BY DEF MembersOpen, MembersApart
<1>7. HandleTypeOK'
  <2>1. [obj[o] EXCEPT !.at = at, !.evt = NoFd]
          \in [at : ObjectAt, fd : Fd \cup {NoFd}, evt : Fd \cup {NoFd}, mapped : BOOLEAN]
    BY <1>1
  <2>2. obj' = [obj EXCEPT ![o] = [obj[o] EXCEPT !.at = at, !.evt = NoFd]]
    OBVIOUS
  <2> QED
    BY <1>2, <1>3, <2>1, <2>2
<1>8. MembersFit'
  BY <1>1, <1>4 DEF MembersFit
<1>9. MembersOpen'
  BY <1>4, <1>5 DEF MembersOpen
<1>10. MembersApart'
  BY <1>4 DEF MembersApart
<1>11. AbandonedApart'
  BY <1>4, HandlesAssumption DEF AbandonedApart, NoFd
<1>12. NothingLost'
  BY <1>4, HandlesAssumption DEF NothingLost, NoFd, OurKinds
<1> QED
  BY <1>7, <1>8, <1>9, <1>10, <1>11, <1>12

\* An object without an eventfd closes its device, if it has one, and takes over the
\* members of another.
LEMMA MembersMove ==
    ASSUME HandleInv, abandoned' = abandoned,
           NEW o \in Obj, NEW p \in Obj, o # p, obj[o].evt = NoFd, CloseFile(obj[o].fd),
           obj' = Moved(o, p)
    PROVE  HandleInv'
<1> USE DEF HandleInv, HandleTypeOK
<1>1. /\ Nothing.kind = "none"
      /\ Nothing \in [kind : OurKinds \cup {"none", "other"}, id : Nat]
  BY DEF Nothing
<1>2. /\ fdtab' = IF obj[o].fd = NoFd THEN fdtab ELSE [fdtab EXCEPT ![obj[o].fd] = Nothing]
  BY DEF CloseFile
<1>3. /\ MovedFrom.at = "live" /\ MovedFrom.fd = NoFd /\ MovedFrom.evt = NoFd
      /\ MovedFrom \in
            [at : ObjectAt, fd : Fd \cup {NoFd}, evt : Fd \cup {NoFd}, mapped : BOOLEAN]
  BY DEF MovedFrom, NoObj, ObjectAt
<1>4. /\ [obj[p] EXCEPT !.at = "live"] \in
            [at : ObjectAt, fd : Fd \cup {NoFd}, evt : Fd \cup {NoFd}, mapped : BOOLEAN]
      /\ [obj[p] EXCEPT !.at = "live"].at = "live"
      /\ [obj[p] EXCEPT !.at = "live"].fd = obj[p].fd
      /\ [obj[p] EXCEPT !.at = "live"].evt = obj[p].evt
  BY DEF ObjectAt
<1>5. /\ obj'[o].at = "live" /\ obj'[o].fd = obj[p].fd /\ obj'[o].evt = obj[p].evt
      /\ obj'[p].at = "live" /\ obj'[p].fd = NoFd /\ obj'[p].evt = NoFd
      /\ \A q \in Obj : q # o /\ q # p => obj'[q] = obj[q]
  BY <1>3, <1>4 DEF Moved
<1>6. /\ obj[o].fd # NoFd => fdtab'[obj[o].fd].kind = "none"
      /\ \A fd \in Fd : fd # obj[o].fd => fdtab'[fd] = fdtab[fd]
  BY <1>1, <1>2
<1>7. \A q \in Obj : q # o =>
        /\ obj[q].fd # NoFd => obj[q].fd # obj[o].fd
        /\ obj[q].evt # NoFd => obj[q].evt # obj[o].fd
  BY DEF MembersOpen, MembersApart
<1>8. HandleTypeOK'
  <2>1. fdtab' \in [Fd -> [kind : OurKinds \cup {"none", "other"}, id : Nat]]
    BY <1>1, <1>2
  <2>2. obj' \in [Obj -> [at : ObjectAt, fd : Fd \cup {NoFd}, evt : Fd \cup {NoFd},
                          mapped : BOOLEAN]]
    BY <1>3, <1>4 DEF Moved
  <2> QED
    BY <2>1, <2>2
<1>9. MembersFit'
  BY <1>5 DEF MembersFit
<1>10. MembersOpen'
  BY <1>5, <1>6, <1>7 DEF MembersOpen
<1>11. MembersApart'
  BY <1>5 DEF MembersApart
<1>12. AbandonedApart'
  BY <1>5, <1>6, HandlesAssumption DEF AbandonedApart, NoFd
<1>13. NothingLost'
  <2> SUFFICES ASSUME NEW fd \in Fd, fdtab'[fd].kind \in OurKinds, fd \notin abandoned
               PROVE  \E q \in Obj : fd \in {obj'[q].fd, obj'[q].evt}
    BY DEF NothingLost
  <2>1. fd # NoFd
    BY HandlesAssumption DEF NoFd
  <2>2. fd # obj[o].fd /\ fdtab'[fd] = fdtab[fd]
    BY <1>6, <2>1 DEF OurKinds
  <2>3. PICK q \in Obj : fd \in {obj[q].fd, obj[q].evt}
    BY <2>2 DEF NothingLost
  <2>4. q # o
    BY <2>1, <2>2, <2>3
  <2>5. CASE q = p
    BY <1>5, <2>3, <2>5
  <2>6. CASE q # p
    BY <1>5, <2>3, <2>4, <2>6
  <2> QED
    BY <2>5, <2>6
<1> QED
  BY <1>8, <1>9, <1>10, <1>11, <1>12, <1>13

\* Descriptors of the rest of the process come and go beside them.
LEMMA OthersKeep ==
    ASSUME HandleInv, UNCHANGED <<obj, abandoned>>,
           NEW fd \in Fd, fdtab[fd].kind \in {"none", "other"},
           NEW f \in {Nothing, File("other")}, fdtab' = [fdtab EXCEPT ![fd] = f]
    PROVE  HandleInv'
<1> USE DEF HandleInv, HandleTypeOK
<1>1. /\ f.kind \in {"none", "other"}
      /\ f \in [kind : OurKinds \cup {"none", "other"}, id : Nat]
  BY DEF Nothing, File
<1>2. /\ fdtab'[fd].kind \in {"none", "other"}
      /\ \A g \in Fd : g # fd => fdtab'[g] = fdtab[g]
  BY <1>1
<1>3. HandleTypeOK'
  BY <1>1
<1>4. MembersFit' /\ MembersApart'
  BY DEF MembersFit, MembersApart
<1>5. MembersOpen'
  BY <1>2 DEF MembersOpen
<1>6. AbandonedApart'
  BY <1>2 DEF AbandonedApart, OurKinds
<1>7. NothingLost'
  BY <1>2 DEF NothingLost, OurKinds
<1> QED
  BY <1>3, <1>4, <1>5, <1>6, <1>7

\* A constructor that throws in register_eventfd abandons both descriptors.
LEMMA Abandons ==
    ASSUME HandleInv, NEW o \in Obj, RegisterFails(o)
    PROVE  HandleInv'
<1> USE DEF HandleInv, HandleTypeOK
<1>1. /\ obj[o].at = "made" /\ fdtab[obj[o].fd].kind = "foreign" /\ fdtab' = fdtab
      /\ obj' = [obj EXCEPT ![o] = NoObj]
      /\ abandoned' = abandoned \cup {obj[o].fd, obj[o].evt}
  BY DEF RegisterFails
<1>2. /\ NoObj.at = "none" /\ NoObj.fd = NoFd /\ NoObj.evt = NoFd
      /\ NoObj \in [at : ObjectAt, fd : Fd \cup {NoFd}, evt : Fd \cup {NoFd}, mapped : BOOLEAN]
  BY DEF NoObj, ObjectAt
<1>3. obj[o].fd \in Fd /\ obj[o].evt \in Fd
  BY <1>1 DEF MembersFit
<1>4. /\ obj'[o] = NoObj
      /\ \A p \in Obj : p # o => obj'[p] = obj[p]
  BY <1>1, <1>2
<1>5. NoFd \notin Fd
  BY HandlesAssumption DEF NoFd
<1>6. fdtab[obj[o].fd].kind \in OurKinds /\ fdtab[obj[o].evt].kind \in OurKinds
  BY <1>3, <1>5 DEF MembersOpen, OurKinds
<1>7. HandleTypeOK'
  BY <1>1, <1>2, <1>3
<1>8. MembersFit'
  BY <1>2, <1>4 DEF MembersFit
<1>9. MembersApart'
  <2>1. ASSUME NEW p \in Obj, NEW q \in Obj, p # q
        PROVE  /\ obj'[p].fd # NoFd => obj'[p].fd # obj'[q].fd
               /\ obj'[p].evt # NoFd => obj'[p].evt # obj'[q].evt
    <3>1. CASE p = o
      BY <1>2, <1>4, <3>1
    <3>2. CASE p # o /\ q = o
      BY <1>2, <1>4, <3>2
    <3>3. CASE p # o /\ q # o
      BY <1>4, <2>1, <3>3 DEF MembersApart
    <3> QED
      BY <3>1, <3>2, <3>3
  <2> QED
    BY <2>1 DEF MembersApart
<1>10. MembersOpen'
  BY <1>1, <1>2, <1>4 DEF MembersOpen
<1>11. AbandonedApart'
  <2>1. \A p \in Obj : p # o => /\ obj[p].fd \notin {obj[o].fd, obj[o].evt}
                                /\ obj[p].evt \notin {obj[o].fd, obj[o].evt}
    BY <1>3, <1>5 DEF MembersOpen, MembersApart
  <2>2. NoFd \notin abandoned'
    BY <1>1, <1>3, <1>5
  <2> QED
    BY <1>1, <1>2, <1>4, <1>6, <2>1, <2>2 DEF AbandonedApart
<1>12. NothingLost'
  BY <1>1, <1>2, <1>4, <1>5 DEF NothingLost
<1> QED
  BY <1>7, <1>8, <1>9, <1>10, <1>11, <1>12

\* The kernel closes what a process that ends has left.
LEMMA EndKeeps ==
    ASSUME ProcessEnds
    PROVE  HandleInv'
<1>1. /\ obj' = [o \in Obj |-> NoObj] /\ fdtab' = [fd \in Fd |-> Nothing]
      /\ abandoned' = {}
  BY DEF ProcessEnds
<1>2. HandleTypeOK'
  BY <1>1 DEF HandleTypeOK, NoObj, Nothing, ObjectAt
<1>3. /\ \A o \in Obj : obj'[o].at = "none" /\ obj'[o].fd = NoFd /\ obj'[o].evt = NoFd
      /\ \A fd \in Fd : fdtab'[fd].kind = "none"
  BY <1>1 DEF NoObj, Nothing
<1> QED
  BY <1>1, <1>2, <1>3 DEF HandleInv, MembersFit, MembersOpen, MembersApart, AbandonedApart,
     NothingLost, OurKinds

\* Steps of the driver do not touch the process.
LEMMA ProcessKept ==
    ASSUME HandleInv, UNCHANGED <<obj, fdtab, abandoned>>
    PROVE  HandleInv'
  BY DEF HandleInv, HandleTypeOK, MembersFit, MembersOpen, MembersApart, AbandonedApart,
         NothingLost
-----------------------------------------------------------------------------
\* Every step keeps the invariant.
LEMMA HandleInvStep == HandleInv /\ [HandlesNext]_allVars => HandleInv'
<1> SUFFICES ASSUME HandleInv, [HandlesNext]_allVars PROVE HandleInv'
  OBVIOUS
<1>0. obj \in [Obj -> [at : ObjectAt, fd : Fd \cup {NoFd}, evt : Fd \cup {NoFd},
                       mapped : BOOLEAN]]
  BY DEF HandleInv, HandleTypeOK
<1>1. ASSUME NEW o \in Obj, ConstructNode(o) \/ ConstructForeign(o) PROVE HandleInv'
  <2>1. PICK k \in {"node", "foreign"} :
          /\ obj[o].at = "none" /\ FreeFds # {} /\ abandoned' = abandoned
          /\ fdtab' = [fdtab EXCEPT ![NewFd] = File(k)]
          /\ obj' = [obj EXCEPT ![o] = Object("opened", NewFd, NoFd)]
    BY <1>1 DEF ConstructNode, ConstructForeign
  <2> QED
    BY <2>1, FileOpens
<1>2. ASSUME NEW o \in Obj, MakeEventfd(o) PROVE HandleInv'
  <2>1. FreeEfds # {} /\ FreeEfds \in SUBSET Nat
    BY <1>2, HandlesAssumption DEF MakeEventfd, FreeEfds
  <2>2. Lowest(FreeEfds) \in Nat
    BY <2>1, LowestIn
  <2> QED
    BY <1>2, <2>2, EventfdOpens DEF MakeEventfd
<1>3. ASSUME NEW o \in Obj, MakeEventfdFails(o) \/ DestroyFd(o) PROVE HandleInv'
  <2>1. obj[o].evt = NoFd
    BY <1>3 DEF MakeEventfdFails, DestroyFd, HandleInv, MembersFit
  <2> QED
    BY <1>3, <2>1, ObjectGone DEF MakeEventfdFails, DestroyFd
<1>4. ASSUME NEW o \in Obj, RegisterFails(o) PROVE HandleInv'
  BY <1>4, Abandons
<1>5. ASSUME NEW o \in Obj, DestroyEventfd(o) \/ AssignEventfd(o) PROVE HandleInv'
  <2>1. PICK at \in {"closing_fd", "assign_fd"} :
          /\ obj[o].at \in {"closing_evt", "assign_evt"} /\ CloseEventfd(obj[o].evt)
          /\ abandoned' = abandoned /\ obj' = [obj EXCEPT ![o].at = at, ![o].evt = NoFd]
    BY <1>5 DEF DestroyEventfd, AssignEventfd
  <2>2. obj[o].at \in ObjectAt \ {"none"}
    BY <2>1 DEF ObjectAt
  <2> QED
    BY <2>1, <2>2, EventfdGone
<1>6. ASSUME NEW o \in Obj, Register(o) \/ MapRings(o) \/ UnmapRings(o) \/ Destroy(o)
      PROVE  HandleInv'
  <2>1. UNCHANGED <<fdtab, abandoned>>
    BY <1>6 DEF Register, MapRings, UnmapRings, Destroy
  <2>2. PICK at \in {"live", "closing_evt"}, mapped \in BOOLEAN :
          obj' = [obj EXCEPT ![o] = [obj[o] EXCEPT !.at = at, !.mapped = mapped]]
    <3>1. CASE Register(o)
      <4>1. obj' = [obj EXCEPT ![o] = [obj[o] EXCEPT !.at = "live", !.mapped = obj[o].mapped]]
        BY <1>0, <3>1 DEF Register
      <4> QED
        BY <1>0, <4>1
    <3>2. CASE MapRings(o)
      <4>1. obj' = [obj EXCEPT ![o] = [obj[o] EXCEPT !.at = "live", !.mapped = TRUE]]
        BY <1>0, <3>2 DEF MapRings
      <4> QED
        BY <4>1
    <3>3. CASE UnmapRings(o) \/ Destroy(o)
      <4>1. PICK at \in {"live", "closing_evt"} : Unmapped(o, at)
        BY <3>3 DEF UnmapRings, Destroy
      <4>2. obj' = [obj EXCEPT ![o] = [obj[o] EXCEPT !.at = at, !.mapped = FALSE]]
        BY <1>0, <4>1 DEF Unmapped
      <4> QED
        BY <4>2
    <3> QED
      BY <1>6, <3>1, <3>2, <3>3
  <2>3. [obj[o] EXCEPT !.at = at, !.mapped = mapped]
          \in [at : ObjectAt, fd : Fd \cup {NoFd}, evt : Fd \cup {NoFd}, mapped : BOOLEAN]
    BY <1>0 DEF ObjectAt
  <2>4. \A p \in Obj :
          /\ obj'[p].fd = obj[p].fd /\ obj'[p].evt = obj[p].evt
          /\ p # o => obj'[p] = obj[p]
    BY <1>0, <2>2, <2>3
  <2>5. obj'[o].at \in {"live", "closing_evt"}
    BY <1>0, <2>2
  <2> QED
    BY <1>0, <2>1, <2>2, <2>3, <2>4, <2>5, PlacesChange
<1>7. ASSUME NEW o \in Obj, NEW p \in Obj, MoveAssign(o, p) PROVE HandleInv'
  <2>1. /\ UNCHANGED <<fdtab, abandoned>> /\ o # p
        /\ obj' = [obj EXCEPT ![o].mapped = FALSE, ![o].at = "assign_evt", ![p].at = "source"]
    BY <1>7 DEF MoveAssign
  <2>2. obj' \in [Obj -> [at : ObjectAt, fd : Fd \cup {NoFd}, evt : Fd \cup {NoFd},
                          mapped : BOOLEAN]]
    <3>1. obj' = [obj EXCEPT ![o] = [obj[o] EXCEPT !.mapped = FALSE, !.at = "assign_evt"],
                             ![p] = [obj[p] EXCEPT !.at = "source"]]
      BY <1>0, <2>1
    <3>2. /\ [obj[o] EXCEPT !.mapped = FALSE, !.at = "assign_evt"]
                \in [at : ObjectAt, fd : Fd \cup {NoFd}, evt : Fd \cup {NoFd}, mapped : BOOLEAN]
          /\ [obj[p] EXCEPT !.at = "source"]
                \in [at : ObjectAt, fd : Fd \cup {NoFd}, evt : Fd \cup {NoFd}, mapped : BOOLEAN]
      BY <1>0 DEF ObjectAt
    <3> QED
      BY <1>0, <3>1, <3>2
  <2>3. \A q \in Obj :
          /\ obj'[q].fd = obj[q].fd /\ obj'[q].evt = obj[q].evt
          /\ obj'[q].at \in {obj[q].at, "assign_evt", "source"}
    BY <1>0, <2>1
  <2> QED
    BY <2>1, <2>2, <2>3, PlacesChange
<1>8. ASSUME NEW o \in Obj, NEW p \in Obj, MoveConstruct(o, p) PROVE HandleInv'
  <2>1. /\ obj[o].at = "none" /\ obj[p].at = "live" /\ obj' = Moved(o, p)
        /\ abandoned' = abandoned /\ fdtab' = fdtab
    BY <1>8 DEF MoveConstruct
  <2>2. obj[o].fd = NoFd /\ obj[o].evt = NoFd /\ o # p
    BY <2>1 DEF HandleInv, MembersFit
  <2>3. CloseFile(obj[o].fd)
    BY <1>8, <2>1, <2>2 DEF MoveConstruct, CloseFile
  <2> QED
    BY <2>1, <2>2, <2>3, MembersMove
<1>9. ASSUME NEW o \in Obj, NEW p \in Obj, AssignTake(o, p) PROVE HandleInv'
  <2>1. /\ obj[o].at = "assign_fd" /\ obj[p].at = "source" /\ obj' = Moved(o, p)
        /\ abandoned' = abandoned /\ CloseFile(obj[o].fd)
    BY <1>9 DEF AssignTake
  <2>2. obj[o].evt = NoFd /\ o # p
    BY <2>1 DEF HandleInv, MembersFit
  <2> QED
    BY <2>1, <2>2, MembersMove
<1>10. CASE OtherOpens
  <2>1. NewFd \in Fd /\ fdtab[NewFd].kind = "none"
    BY <1>10, NewFdFree DEF OtherOpens, Nothing
  <2> QED
    BY <1>10, <2>1, OthersKeep DEF OtherOpens
<1>11. CASE OtherCloses
  BY <1>11, OthersKeep DEF OtherCloses
<1>12. CASE ProcessEnds
  BY <1>12, EndKeeps
<1>13. CASE DriverStep \/ OtherDriverFiles \/ UNCHANGED allVars
  BY <1>13, ProcessKept DEF DriverStep, ReleaseOne, OtherDriverFiles, handleVars, allVars
<1> QED
  BY <1>1, <1>2, <1>3, <1>4, <1>5, <1>6, <1>7, <1>8, <1>9, <1>10, <1>11, <1>12, <1>13
     DEF HandlesNext, ObjectStep

\* Whatever is constructed, moved, assigned, destroyed and fails, in any order and
\* while the rest of the process uses the same numbers, the class closes what it
\* opened, once.
THEOREM HandlesOwned == HandlesSpec => []DescriptorsOwned
  BY HandleInvInit, HandleInvStep, HandleInvOwned, PTL DEF HandlesSpec
-----------------------------------------------------------------------------
(* The references.                                                          *)

\* The descriptors of an eventfd.
FdsOf(e) == {fd \in Fd : fdtab[fd] = Efd(e)}
MappedObjects == {o \in Obj : obj[o].mapped}

\* What the driver has registered is one eventfd; descriptors are of eventfds there
\* are, and of the driver's node as long as the objects are in use; mappings belong to
\* objects in use.
RefTypeOK ==
    /\ \A e, f \in registered : e = f
    /\ registered \subseteq EventfdId
    /\ refs \in [EventfdId -> Int]
    /\ \A fd \in Fd : /\ fdtab[fd].kind = "eventfd" => \E e \in EventfdId : fdtab[fd] = Efd(e)
                      /\ fdtab[fd].kind = "node" => fdtab[fd] = File("node")
    /\ \A o \in Obj :
          /\ obj[o].mapped => obj[o].at \in {"live", "source"}
          /\ obj[o].at \notin {"opened", "made"} /\ obj[o].fd # NoFd =>
                fdtab[obj[o].fd].kind = "node"

OpensFinite ==
    /\ IsFiniteSet(OpenFds("node")) /\ IsFiniteSet(MappedObjects)
    /\ \A e \in EventfdId : IsFiniteSet(FdsOf(e))

\* The newest object is in use, and another driver has none.
NewestInUse ==
    newest \in Obj => /\ driver = "edu_pci"
                      /\ obj[newest].at \in {"live", "source", "closing_evt", "assign_evt"}
                      /\ obj[newest].fd # NoFd

\* What NodePinnedByObjects and RefsBalanced say, counted so.
NodePinned ==
    driver = "edu_pci" => files = Cardinality(OpenFds("node")) + Cardinality(MappedObjects)

ContextHeld == registered # {} <=> "evt_ctx" \in held

RefsCounted ==
    \A e \in EventfdId :
        refs[e] = Cardinality(FdsOf(e)) + (IF e \in registered THEN 1 ELSE 0)

References ==
    /\ RefTypeOK /\ OpensFinite /\ NodePinned /\ ContextHeld /\ RefsCounted
    /\ NewestInUse /\ SignalsReachNewest

RefInv == LifeInv /\ HandleInv /\ References

LEMMA RefInvCounts == RefInv => NodePinnedByObjects /\ RefsBalanced
<1> SUFFICES ASSUME RefInv PROVE NodePinnedByObjects /\ RefsBalanced
  OBVIOUS
<1>1. NodePinnedByObjects
  BY DEF RefInv, References, NodePinned, NodePinnedByObjects, MappedObjects
<1>2. ASSUME NEW e \in EventfdId
      PROVE  Cardinality(registered \cap {e}) = IF e \in registered THEN 1 ELSE 0
  <2>1. CASE e \in registered
    <3>1. registered \cap {e} = {e}
      BY <2>1
    <3> QED
      BY <2>1, <3>1, FS_Singleton
  <2>2. CASE e \notin registered
    <3>1. registered \cap {e} = {}
      BY <2>2
    <3> QED
      BY <2>2, <3>1, FS_EmptySet
  <2> QED
    BY <2>1, <2>2
<1>3. RefsBalanced
  BY <1>2 DEF RefInv, References, ContextHeld, RefsCounted, RefsBalanced, FdsOf
<1> QED
  BY <1>1, <1>3

\* A process starts without any.
LEMMA RefInvInit == HandlesInit => RefInv
<1> SUFFICES ASSUME HandlesInit PROVE RefInv
  OBVIOUS
<1>1. /\ \A o \in Obj : obj[o] = NoObj
      /\ \A fd \in Fd : fdtab[fd] = Nothing
      /\ \A e \in EventfdId : refs[e] = 0
      /\ registered = {} /\ newest = "nobody" /\ files = 0 /\ held = {}
      /\ refs \in [EventfdId -> Int]
  BY DEF HandlesInit, Init
<1>2. OpenFds("node") = {} /\ MappedObjects = {} /\ \A e \in EventfdId : FdsOf(e) = {}
  BY <1>1 DEF OpenFds, MappedObjects, FdsOf, NoObj, Nothing, Efd
<1>3. LifeInv /\ HandleInv
  BY LifeInvInit, HandleInvInit DEF HandlesInit
<1>4. RefTypeOK /\ NewestInUse /\ SignalsReachNewest
  BY <1>1, HandlesAssumption DEF RefTypeOK, NewestInUse, SignalsReachNewest, NoObj, Nothing
<1>5. OpensFinite
  BY <1>2, FS_EmptySet DEF OpensFinite
<1>6. NodePinned /\ ContextHeld /\ RefsCounted
  <2>1. Cardinality({}) = 0
    BY FS_EmptySet
  <2>2. NodePinned
    <3>1. Cardinality(OpenFds("node")) = 0 /\ Cardinality(MappedObjects) = 0 /\ files = 0
      BY <1>1, <1>2, <2>1
    <3> QED
      BY <3>1 DEF NodePinned
  <2>3. ContextHeld /\ RefsCounted
    BY <1>1, <1>2, <2>1 DEF ContextHeld, RefsCounted
  <2> QED
    BY <2>2, <2>3
<1> QED
  BY <1>3, <1>4, <1>5, <1>6 DEF RefInv, References

-----------------------------------------------------------------------------
(* What one descriptor, or one object, does to the counts.                  *)

\* Two sets that differ in one element at most.
LEMMA ElementCounts ==
    ASSUME NEW g, NEW S, NEW T, IsFiniteSet(S), T \ {g} = S \ {g}
    PROVE  /\ IsFiniteSet(T)
           /\ Cardinality(T) =
                 Cardinality(S) - (IF g \in S THEN 1 ELSE 0) + (IF g \in T THEN 1 ELSE 0)
<1>1. /\ IsFiniteSet(S \ {g}) /\ g \notin S \ {g}
      /\ Cardinality(S \ {g}) = Cardinality(S) - (IF g \in S THEN 1 ELSE 0)
      /\ Cardinality(S) \in Nat /\ Cardinality(S \ {g}) \in Nat
  BY FS_RemoveElement, FS_CardinalityType
<1>2. CASE g \in T
  <2>1. T = (S \ {g}) \cup {g}
    BY <1>2
  <2>2. /\ IsFiniteSet((S \ {g}) \cup {g})
        /\ Cardinality((S \ {g}) \cup {g}) = Cardinality(S \ {g}) + 1
    BY <1>1, FS_AddElement
  <2> QED
    BY <1>1, <1>2, <2>1, <2>2
<1>3. CASE g \notin T
  <2>1. T = S \ {g}
    BY <1>3
  <2> QED
    BY <1>1, <1>3, <2>1
<1> QED
  BY <1>2, <1>3

\* An object that maps the rings or unmaps them.
LEMMA ObjectCounts ==
    ASSUME NEW o \in Obj, IsFiniteSet(MappedObjects),
           obj[o].mapped \in BOOLEAN, obj'[o].mapped \in BOOLEAN,
           \A p \in Obj : p # o => obj'[p].mapped = obj[p].mapped
    PROVE  /\ IsFiniteSet(MappedObjects')
           /\ Cardinality(MappedObjects') =
                 Cardinality(MappedObjects) - (IF obj[o].mapped THEN 1 ELSE 0)
                                            + (IF obj'[o].mapped THEN 1 ELSE 0)
<1>1. MappedObjects' \ {o} = MappedObjects \ {o}
  BY DEF MappedObjects
<1>2. /\ o \in MappedObjects <=> obj[o].mapped
      /\ o \in MappedObjects' <=> obj'[o].mapped
  BY DEF MappedObjects
<1> QED
  BY <1>1, <1>2, ElementCounts

\* An object that takes over another's members takes over its mapping.
LEMMA MovedCounts ==
    ASSUME NEW o \in Obj, NEW p \in Obj, o # p, IsFiniteSet(MappedObjects),
           obj[o].mapped = FALSE, obj[p].mapped \in BOOLEAN,
           obj'[o].mapped = obj[p].mapped, obj'[p].mapped = FALSE,
           \A q \in Obj : q # o /\ q # p => obj'[q].mapped = obj[q].mapped
    PROVE  /\ IsFiniteSet(MappedObjects')
           /\ Cardinality(MappedObjects') = Cardinality(MappedObjects)
<1>1. CASE obj[p].mapped
  <2>1. MappedObjects' = (MappedObjects \ {p}) \cup {o} /\ p \in MappedObjects
        /\ o \notin MappedObjects
    BY <1>1 DEF MappedObjects
  <2>2. /\ IsFiniteSet(MappedObjects \ {p})
        /\ Cardinality(MappedObjects \ {p}) = Cardinality(MappedObjects) - 1
        /\ Cardinality(MappedObjects) \in Nat
    BY <2>1, FS_RemoveElement, FS_CardinalityType
  <2>3. /\ IsFiniteSet((MappedObjects \ {p}) \cup {o})
        /\ Cardinality((MappedObjects \ {p}) \cup {o}) = Cardinality(MappedObjects \ {p}) + 1
    BY <2>1, <2>2, FS_AddElement
  <2> QED
    BY <2>1, <2>2, <2>3
<1>2. CASE ~obj[p].mapped
  <2>1. MappedObjects' = MappedObjects
    BY <1>2 DEF MappedObjects
  <2> QED
    BY <2>1
<1> QED
  BY <1>1, <1>2

-----------------------------------------------------------------------------
(* The steps of the objects.                                                *)

\* The types of the state, once and for all.
LEMMA RefShape ==
    ASSUME RefInv
    PROVE  /\ obj \in [Obj -> [at : ObjectAt, fd : Fd \cup {NoFd}, evt : Fd \cup {NoFd},
                               mapped : BOOLEAN]]
           /\ fdtab \in [Fd -> [kind : OurKinds \cup {"none", "other"}, id : Nat]]
           /\ refs \in [EventfdId -> Int]
           /\ NoFd \notin Fd /\ files \in Nat
           /\ IsFiniteSet(OpenFds("node")) /\ Cardinality(OpenFds("node")) \in Nat
           /\ IsFiniteSet(MappedObjects) /\ Cardinality(MappedObjects) \in Nat
           /\ \A e \in EventfdId : IsFiniteSet(FdsOf(e)) /\ Cardinality(FdsOf(e)) \in Nat
           /\ \A o \in Obj : obj[o].mapped => obj[o].at \in {"live", "source"}
           /\ newest \in Obj =>
                obj[newest].at \in {"live", "source", "closing_evt", "assign_evt"}
<1>1. NoFd \notin Fd
  BY HandlesAssumption DEF NoFd
<1>2. OpensFinite
  BY DEF RefInv, References
<1>3. /\ Cardinality(OpenFds("node")) \in Nat /\ Cardinality(MappedObjects) \in Nat
      /\ \A e \in EventfdId : Cardinality(FdsOf(e)) \in Nat
  BY <1>2, FS_CardinalityType DEF OpensFinite
<1> QED
  BY <1>1, <1>2, <1>3 DEF RefInv, References, HandleInv, HandleTypeOK, RefTypeOK, LifeInv,
     LifeTypeOK, OpensFinite, NewestInUse

\* An open descriptor of the driver's node keeps the driver up.
LEMMA NodeKeepsDriver ==
    ASSUME RefInv, driver = "edu_pci", NEW fd \in Fd, fdtab[fd].kind = "node"
    PROVE  files > 0 /\ phase \in {"probing", "bound"} /\ "node" \in held
<1>1. OpenFds("node") # {}
  BY DEF OpenFds
<1>2. Cardinality(OpenFds("node")) # 0
  BY <1>1, RefShape, FS_EmptySet
<1>3. files = Cardinality(OpenFds("node")) + Cardinality(MappedObjects)
  BY DEF RefInv, References, NodePinned
<1>4. files > 0
  BY <1>2, <1>3, RefShape
<1> QED
  BY <1>4 DEF RefInv, LifeInv, FilesPinned

\* Mappings stay as they are when no object maps or unmaps.
LEMMA MappingsStay ==
    ASSUME RefInv, \A o \in Obj : obj'[o].mapped = obj[o].mapped
    PROVE  IsFiniteSet(MappedObjects') /\ Cardinality(MappedObjects') = Cardinality(MappedObjects)
<1>1. MappedObjects' = MappedObjects
  BY DEF MappedObjects
<1> QED
  BY <1>1, RefShape

\* What is open when a descriptor changes hands.
LEMMA DescriptorMoves ==
    ASSUME RefInv, NEW fd \in Fd, NEW x, fdtab' = [fdtab EXCEPT ![fd] = x]
    PROVE  /\ IsFiniteSet(OpenFds("node")')
           /\ Cardinality(OpenFds("node")') =
                 Cardinality(OpenFds("node")) - (IF fdtab[fd].kind = "node" THEN 1 ELSE 0)
                                              + (IF x.kind = "node" THEN 1 ELSE 0)
           /\ \A e \in EventfdId :
                 /\ IsFiniteSet(FdsOf(e)')
                 /\ Cardinality(FdsOf(e)') =
                       Cardinality(FdsOf(e)) - (IF fdtab[fd] = Efd(e) THEN 1 ELSE 0)
                                             + (IF x = Efd(e) THEN 1 ELSE 0)
<1>1. /\ IsFiniteSet(OpenFds("node"))
      /\ fdtab \in [Fd -> [kind : OurKinds \cup {"none", "other"}, id : Nat]]
  BY RefShape
<1>2. /\ IsFiniteSet(OpenFds("node")')
      /\ Cardinality(OpenFds("node")') =
            Cardinality(OpenFds("node")) - (IF fdtab[fd].kind = "node" THEN 1 ELSE 0)
                                         + (IF x.kind = "node" THEN 1 ELSE 0)
  <2>1. OpenFds("node")' \ {fd} = OpenFds("node") \ {fd}
    BY <1>1 DEF OpenFds
  <2>2. /\ fd \in OpenFds("node") <=> fdtab[fd].kind = "node"
        /\ fd \in OpenFds("node")' <=> x.kind = "node"
    BY <1>1 DEF OpenFds
  <2> QED
    BY <1>1, <2>1, <2>2, ElementCounts
<1>3. ASSUME NEW e \in EventfdId
      PROVE  /\ IsFiniteSet(FdsOf(e)')
             /\ Cardinality(FdsOf(e)') =
                   Cardinality(FdsOf(e)) - (IF fdtab[fd] = Efd(e) THEN 1 ELSE 0)
                                         + (IF x = Efd(e) THEN 1 ELSE 0)
  <2>1. IsFiniteSet(FdsOf(e))
    BY RefShape
  <2>2. FdsOf(e)' \ {fd} = FdsOf(e) \ {fd}
    BY <1>1 DEF FdsOf, Efd
  <2>3. /\ fd \in FdsOf(e) <=> fdtab[fd] = Efd(e)
        /\ fd \in FdsOf(e)' <=> x = Efd(e)
    BY <1>1 DEF FdsOf, Efd
  <2> QED
    BY <2>1, <2>2, <2>3, ElementCounts
<1> QED
  BY <1>2, <1>3

\* A file is opened or closed, one of the class or of the rest of the process.
LEMMA FileChanges ==
    ASSUME RefInv, NEW fd \in Fd, NEW x, fdtab' = [fdtab EXCEPT ![fd] = x],
           fdtab[fd].kind # "eventfd",
           x \in {File("node"), File("foreign"), File("other"), Nothing},
           IsFiniteSet(MappedObjects'), Cardinality(MappedObjects') = Cardinality(MappedObjects),
           driver = "edu_pci", driver' = driver,
           files' = files - (IF fdtab[fd].kind = "node" THEN 1 ELSE 0)
                          + (IF x.kind = "node" THEN 1 ELSE 0),
           UNCHANGED <<held, refs, registered>>
    PROVE  OpensFinite' /\ NodePinned' /\ ContextHeld' /\ RefsCounted'
<1>1. \A e : x # Efd(e) /\ fdtab[fd] # Efd(e)
  BY DEF File, Nothing, Efd
<1>2. /\ IsFiniteSet(OpenFds("node")')
      /\ Cardinality(OpenFds("node")') =
            Cardinality(OpenFds("node")) - (IF fdtab[fd].kind = "node" THEN 1 ELSE 0)
                                         + (IF x.kind = "node" THEN 1 ELSE 0)
      /\ \A e \in EventfdId :
            /\ IsFiniteSet(FdsOf(e)')
            /\ Cardinality(FdsOf(e)') =
                  Cardinality(FdsOf(e)) - (IF fdtab[fd] = Efd(e) THEN 1 ELSE 0)
                                        + (IF x = Efd(e) THEN 1 ELSE 0)
  BY DescriptorMoves
<1>3. OpensFinite' /\ NodePinned'
  BY <1>2, RefShape DEF RefInv, References, OpensFinite, NodePinned
<1>4. ASSUME NEW e \in EventfdId
      PROVE  Cardinality(FdsOf(e)') = Cardinality(FdsOf(e))
  BY <1>1, <1>2, RefShape
<1>5. ContextHeld' /\ RefsCounted'
  BY <1>4 DEF RefInv, References, ContextHeld, RefsCounted
<1> QED
  BY <1>3, <1>5

\* An eventfd is made or closed: its reference goes with the descriptor.
LEMMA EventfdChanges ==
    ASSUME RefInv, NEW fd \in Fd, NEW x, fdtab' = [fdtab EXCEPT ![fd] = x],
           NEW e \in EventfdId,
           \/ fdtab[fd] = Nothing /\ x = Efd(e) /\ refs' = [refs EXCEPT ![e] = @ + 1]
           \/ fdtab[fd] = Efd(e) /\ x = Nothing /\ refs' = [refs EXCEPT ![e] = @ - 1],
           \A o \in Obj : obj'[o].mapped = obj[o].mapped,
           UNCHANGED <<vars, registered>>
    PROVE  OpensFinite' /\ NodePinned' /\ ContextHeld' /\ RefsCounted'
<1>1. /\ fdtab[fd].kind # "node" /\ x.kind # "node"
      /\ \A f \in EventfdId : fdtab[fd] = Efd(f) => f = e
      /\ \A f \in EventfdId : x = Efd(f) => f = e
      /\ Nothing # Efd(e)
  BY DEF Nothing, Efd
<1>2. /\ IsFiniteSet(OpenFds("node")')
      /\ Cardinality(OpenFds("node")') =
            Cardinality(OpenFds("node")) - (IF fdtab[fd].kind = "node" THEN 1 ELSE 0)
                                         + (IF x.kind = "node" THEN 1 ELSE 0)
      /\ \A f \in EventfdId :
            /\ IsFiniteSet(FdsOf(f)')
            /\ Cardinality(FdsOf(f)') =
                  Cardinality(FdsOf(f)) - (IF fdtab[fd] = Efd(f) THEN 1 ELSE 0)
                                        + (IF x = Efd(f) THEN 1 ELSE 0)
  BY DescriptorMoves
<1>3. OpensFinite' /\ NodePinned'
  BY <1>1, <1>2, MappingsStay, RefShape DEF RefInv, References, OpensFinite, NodePinned, vars
<1>4. ASSUME NEW f \in EventfdId
      PROVE  Cardinality(FdsOf(f)') - Cardinality(FdsOf(f)) = refs'[f] - refs[f]
  BY <1>1, <1>2, RefShape
<1>5. ContextHeld' /\ RefsCounted'
  <2>1. ASSUME NEW f \in EventfdId
        PROVE  /\ Cardinality(FdsOf(f)) \in Nat /\ Cardinality(FdsOf(f)') \in Nat
               /\ refs[f] \in Int /\ refs'[f] \in Int
    BY <1>2, RefShape, FS_CardinalityType
  <2>2. ASSUME NEW f \in EventfdId
        PROVE  refs'[f] = Cardinality(FdsOf(f)') + (IF f \in registered THEN 1 ELSE 0)
    <3>1. refs[f] = Cardinality(FdsOf(f)) + (IF f \in registered THEN 1 ELSE 0)
      BY DEF RefInv, References, RefsCounted
    <3> QED
      BY <1>4, <2>1, <3>1
  <2>3. ContextHeld'
    BY DEF RefInv, References, ContextHeld, vars
  <2> QED
    BY <2>2, <2>3 DEF RefsCounted
<1> QED
  BY <1>3, <1>5

\* What an object has is its own: another's descriptor is another one.
LEMMA NotOthers ==
    ASSUME RefInv, NEW o \in Obj, NEW p \in Obj
    PROVE  /\ obj[o].fd # NoFd => /\ obj[o].fd \in Fd /\ obj[p].evt # obj[o].fd
                                  /\ p # o => obj[p].fd # obj[o].fd
           /\ obj[o].evt # NoFd => /\ obj[o].evt \in Fd /\ obj[p].fd # obj[o].evt
                                   /\ p # o => obj[p].evt # obj[o].evt
                                   /\ \E e \in EventfdId : fdtab[obj[o].evt] = Efd(e)
  BY RefShape DEF RefInv, HandleInv, MembersOpen, MembersApart, References, RefTypeOK

\* What the types say of an object and of a descriptor.
LEMMA RefTypes ==
    ASSUME RefInv
    PROVE  /\ \A p \in Obj : /\ obj[p].mapped => obj[p].at \in {"live", "source"}
                             /\ obj[p].at \notin {"opened", "made"} /\ obj[p].fd # NoFd =>
                                   fdtab[obj[p].fd].kind = "node"
           /\ \A g \in Fd : /\ fdtab[g].kind = "eventfd" => \E e \in EventfdId : fdtab[g] = Efd(e)
                            /\ fdtab[g].kind = "node" => fdtab[g] = File("node")
  BY DEF RefInv, References, RefTypeOK

\* Descriptors that are closed take no type away.
LEMMA TypesKept ==
    ASSUME RefInv, registered' = registered, refs' \in [EventfdId -> Int],
           \A g \in Fd : fdtab'[g] \in {fdtab[g], Nothing},
           \A p \in Obj : /\ obj'[p].mapped => obj'[p].at \in {"live", "source"}
                          /\ obj'[p].at \notin {"opened", "made"} /\ obj'[p].fd # NoFd =>
                                fdtab'[obj'[p].fd].kind = "node"
    PROVE  RefTypeOK'
<1>1. /\ \A e, f \in registered' : e = f
      /\ registered' \subseteq EventfdId
  BY DEF RefInv, References, RefTypeOK
<1>2. Nothing.kind = "none"
  BY DEF Nothing
<1>3. ASSUME NEW g \in Fd
      PROVE  /\ fdtab'[g].kind = "eventfd" => \E e \in EventfdId : fdtab'[g] = Efd(e)
             /\ fdtab'[g].kind = "node" => fdtab'[g] = File("node")
  <2>1. CASE fdtab'[g] = fdtab[g]
    BY <2>1, RefTypes
  <2>2. CASE fdtab'[g] = Nothing
    BY <2>2, <1>2
  <2> QED
    BY <2>1, <2>2
<1> QED
  BY <1>1, <1>3 DEF RefTypeOK, Efd, File

\* A constructor opens its file, the node of the driver or another.
LEMMA FileOpened ==
    ASSUME RefInv, NEW o \in Obj, driver = "edu_pci", NEW k \in {"node", "foreign"},
           obj[o].at = "none", FreeFds # {},
           IF k = "node" THEN Open ELSE UNCHANGED vars,
           fdtab' = [fdtab EXCEPT ![NewFd] = File(k)],
           obj' = [obj EXCEPT ![o] = Object("opened", NewFd, NoFd)],
           UNCHANGED <<refs, registered, newest>>
    PROVE  LifeInv' /\ References'
<1>1. /\ NewFd \in Fd /\ fdtab[NewFd].kind = "none" /\ File(k).kind = k
      /\ fdtab'[NewFd] = File(k) /\ \A g \in Fd : g # NewFd => fdtab'[g] = fdtab[g]
      /\ obj'[o] = Object("opened", NewFd, NoFd)
      /\ \A p \in Obj : p # o => obj'[p] = obj[p]
  BY NewFdFree, RefShape DEF Nothing, File
<1>2. /\ obj'[o].mapped = obj[o].mapped /\ obj'[o].at = "opened" /\ obj'[o].fd = NewFd
      /\ obj'[o].evt = NoFd
  BY <1>1, RefShape DEF Object, NoObj
<1>3. LifeInv'
  <2>1. CASE k = "node"
    BY <2>1, FilesChange, RefShape DEF RefInv, Open
  <2>2. CASE k # "node"
    BY <2>2, LifeInvStep DEF RefInv
  <2> QED
    BY <2>1, <2>2
<1>4. RefTypeOK'
  BY <1>1, <1>2, RefShape DEF RefInv, References, RefTypeOK, HandleInv, MembersOpen, File
<1>5. OpensFinite' /\ NodePinned' /\ ContextHeld' /\ RefsCounted'
  <2>1. /\ driver' = driver /\ held' = held /\ files' = files + (IF k = "node" THEN 1 ELSE 0)
        /\ fdtab[NewFd].kind \notin {"eventfd", "node"}
        /\ File(k) \in {File("node"), File("foreign")}
    BY <1>1, RefShape DEF Open, vars
  <2>2. \A p \in Obj : obj'[p].mapped = obj[p].mapped
    BY <1>1, <1>2
  <2>3. files' = files - (IF fdtab[NewFd].kind = "node" THEN 1 ELSE 0)
                       + (IF File(k).kind = "node" THEN 1 ELSE 0)
    BY <1>1, <2>1, RefShape
  <2> QED
    BY <1>1, <2>1, <2>2, <2>3, MappingsStay, FileChanges
<1>6. NewestInUse' /\ SignalsReachNewest'
  BY <1>1, <1>2, RefShape DEF RefInv, References, NewestInUse, SignalsReachNewest, HandleInv,
     MembersOpen, Open, vars
<1> QED
  BY <1>3, <1>4, <1>5, <1>6 DEF References

\* The constructor makes its eventfd, one that nobody has a reference on.
LEMMA EventfdMade ==
    ASSUME RefInv, NEW o \in Obj, MakeEventfd(o)
    PROVE  LifeInv' /\ References'
<1> DEFINE e == Lowest(FreeEfds)
<1>0. /\ obj[o].at = "opened" /\ FreeFds # {} /\ FreeEfds # {}
      /\ refs' = [refs EXCEPT ![e] = 1] /\ fdtab' = [fdtab EXCEPT ![NewFd] = Efd(e)]
      /\ obj' = [obj EXCEPT ![o] = Object("made", obj[o].fd, NewFd)]
      /\ UNCHANGED <<vars, registered, newest>>
  BY DEF MakeEventfd
<1>1. /\ NewFd \in Fd /\ fdtab[NewFd] = Nothing
      /\ fdtab'[NewFd] = Efd(e) /\ \A g \in Fd : g # NewFd => fdtab'[g] = fdtab[g]
      /\ obj'[o] = Object("made", obj[o].fd, NewFd)
      /\ \A p \in Obj : p # o => obj'[p] = obj[p]
  BY <1>0, NewFdFree, RefShape
<1>2. e \in EventfdId /\ refs[e] = 0
  <2>1. FreeEfds \in SUBSET Nat /\ FreeEfds # {}
    BY <1>0, HandlesAssumption DEF FreeEfds
  <2>2. e \in FreeEfds
    BY <2>1, LowestIn
  <2> QED
    BY <2>2 DEF FreeEfds
<1>3. /\ obj'[o].mapped = obj[o].mapped /\ obj'[o].at = "made" /\ obj'[o].fd = obj[o].fd
      /\ obj'[o].evt = NewFd
  <2>1. ~obj[o].mapped /\ obj[o].mapped \in BOOLEAN
    BY <1>0, RefShape
  <2>2. /\ obj'[o].mapped = FALSE /\ obj'[o].at = "made" /\ obj'[o].fd = obj[o].fd
        /\ obj'[o].evt = NewFd
    BY <1>1 DEF Object, NoObj
  <2> QED
    BY <2>1, <2>2
<1>4. LifeInv'
  BY <1>0, LifeInvStep DEF RefInv
<1>5. RefTypeOK'
  <2>1. refs' \in [EventfdId -> Int]
    BY <1>0, <1>2, RefShape
  <2>2. Efd(e).kind = "eventfd" /\ fdtab[NewFd].kind = "none"
    BY <1>1 DEF Efd, Nothing
  <2>3. \A p \in Obj : obj[p].fd # NewFd
    BY <1>1, <2>2, RefShape DEF RefInv, HandleInv, MembersOpen
  <2> QED
    BY <1>0, <1>1, <1>2, <1>3, <2>1, <2>2, <2>3, RefShape DEF RefInv, References, RefTypeOK
<1>6. OpensFinite' /\ NodePinned' /\ ContextHeld' /\ RefsCounted'
  <2>1. refs' = [refs EXCEPT ![e] = @ + 1]
    BY <1>0, <1>2, RefShape
  <2>2. \A p \in Obj : obj'[p].mapped = obj[p].mapped
    BY <1>1, <1>3
  <2> HIDE DEF e
  <2>3. fdtab' = [fdtab EXCEPT ![NewFd] = Efd(e)] /\ UNCHANGED <<vars, registered>>
    BY <1>0 DEF e
  <2>4. fdtab[NewFd] = Nothing /\ NewFd \in Fd /\ e \in EventfdId
    BY <1>1, <1>2
  <2> QED
    BY <2>1, <2>2, <2>3, <2>4, EventfdChanges
<1>7. NewestInUse' /\ SignalsReachNewest'
  <2>1. newest \in Obj => newest # o /\ obj[newest].evt # NewFd
    BY <1>0, <1>1, RefShape DEF RefInv, References, SignalsReachNewest, HandleInv, MembersOpen, Nothing
  <2> QED
    BY <1>0, <1>1, <2>1, RefShape DEF RefInv, References, NewestInUse, SignalsReachNewest, vars
<1> QED
  BY <1>4, <1>5, <1>6, <1>7 DEF References

\* An object in the end closes its eventfd, if it has one, and is no more signalled.
LEMMA EventfdClosed ==
    ASSUME RefInv, NEW o \in Obj, NEW at \in {"closing_fd", "assign_fd"},
           obj[o].at \in {"closing_evt", "assign_evt"}, CloseEventfd(obj[o].evt),
           obj' = [obj EXCEPT ![o].at = at, ![o].evt = NoFd],
           newest' = IF newest = o THEN "nobody" ELSE newest, UNCHANGED <<vars, registered>>
    PROVE  LifeInv' /\ References'
<1> DEFINE fd == obj[o].evt
<1>1. /\ obj'[o].mapped = obj[o].mapped /\ obj'[o].at = at /\ obj'[o].fd = obj[o].fd
      /\ obj'[o].evt = NoFd /\ \A p \in Obj : p # o => obj'[p] = obj[p]
  BY RefShape
<1>2. LifeInv'
  BY LifeInvStep DEF RefInv
<1>3. CASE fd = NoFd
  <2>1. fdtab' = fdtab /\ refs' = refs
    BY <1>3 DEF CloseEventfd
  <2>2. MappedObjects' = MappedObjects /\ OpenFds("node")' = OpenFds("node")
        /\ \A e \in EventfdId : FdsOf(e)' = FdsOf(e)
    BY <1>1, <2>1 DEF MappedObjects, OpenFds, FdsOf
  <2>3. RefTypeOK'
    BY <1>1, <2>1, RefShape DEF RefInv, References, RefTypeOK
  <2>4. OpensFinite' /\ NodePinned' /\ ContextHeld' /\ RefsCounted'
    BY <2>1, <2>2 DEF RefInv, References, OpensFinite, NodePinned, ContextHeld, RefsCounted, vars
  <2>5. NewestInUse' /\ SignalsReachNewest'
    BY <1>1, <2>1, HandlesAssumption DEF RefInv, References, NewestInUse, SignalsReachNewest, vars
  <2> QED
    BY <1>2, <2>3, <2>4, <2>5 DEF References
<1>4. CASE fd # NoFd
  <2>1. PICK e \in EventfdId : fdtab[fd] = Efd(e)
    BY <1>4, NotOthers
  <2>2. /\ fd \in Fd /\ fdtab[fd].id = e
        /\ fdtab' = [fdtab EXCEPT ![fd] = Nothing] /\ refs' = [refs EXCEPT ![e] = @ - 1]
    BY <1>4, <2>1, NotOthers DEF CloseEventfd, Efd
  <2>3. /\ \A p \in Obj : obj[p].fd # fd /\ (p # o => obj[p].evt # fd)
        /\ fdtab'[fd] = Nothing /\ \A g \in Fd : g # fd => fdtab'[g] = fdtab[g]
    BY <1>4, <2>2, NotOthers, RefShape
  <2>4. RefTypeOK'
    <3>1. refs' \in [EventfdId -> Int]
      BY <2>2, RefShape
    <3>2. ASSUME NEW p \in Obj
          PROVE  /\ obj'[p].mapped => obj'[p].at \in {"live", "source"}
                 /\ obj'[p].at \notin {"opened", "made"} /\ obj'[p].fd # NoFd =>
                       fdtab'[obj'[p].fd].kind = "node"
      <4>1. obj'[p].fd = obj[p].fd /\ obj'[p].mapped = obj[p].mapped
        BY <1>1
      <4>2. obj[p].fd # NoFd => obj[p].fd \in Fd /\ fdtab'[obj[p].fd] = fdtab[obj[p].fd]
        BY <2>3, NotOthers
      <4>3. CASE p = o
        BY <1>1, <4>1, <4>2, <4>3, RefTypes
      <4>4. CASE p # o
        <5>1. obj'[p] = obj[p]
          BY <1>1, <4>4
        <5> QED
          BY <4>2, <5>1, RefTypes
      <4> QED
        BY <4>3, <4>4
    <3> QED
      BY <2>3, <3>1, <3>2, TypesKept
  <2>5. OpensFinite' /\ NodePinned' /\ ContextHeld' /\ RefsCounted'
    <3>1. \A p \in Obj : obj'[p].mapped = obj[p].mapped
      BY <1>1
    <3> HIDE DEF fd
    <3> QED
      BY <2>1, <2>2, <3>1, EventfdChanges
  <2>6. NewestInUse' /\ SignalsReachNewest'
    BY <1>1, <2>3, HandlesAssumption, RefShape
       DEF RefInv, References, NewestInUse, SignalsReachNewest, vars
  <2> QED
    BY <1>2, <2>4, <2>5, <2>6 DEF References
<1> QED
  BY <1>3, <1>4

\* What closing an object's file does to the driver and to the counts; its mapping is
\* gone, or is another object's.
LEMMA FileCloses ==
    ASSUME RefInv, driver = "edu_pci", NEW o \in Obj, CloseFile(obj[o].fd),
           IsFiniteSet(MappedObjects'), Cardinality(MappedObjects') = Cardinality(MappedObjects),
           UNCHANGED <<refs, registered>>
    PROVE  /\ LifeInv' /\ driver' = driver
           /\ OpensFinite' /\ NodePinned' /\ ContextHeld' /\ RefsCounted'
           /\ obj[o].fd # NoFd => fdtab'[obj[o].fd] = Nothing
           /\ \A g \in Fd : g # obj[o].fd => fdtab'[g] = fdtab[g]
<1>1. CASE obj[o].fd = NoFd
  <2>1. fdtab' = fdtab /\ UNCHANGED vars
    BY <1>1 DEF CloseFile
  <2>2. OpenFds("node")' = OpenFds("node") /\ \A e \in EventfdId : FdsOf(e)' = FdsOf(e)
    BY <2>1 DEF OpenFds, FdsOf
  <2>3. LifeInv'
    BY <2>1, LifeInvStep DEF RefInv
  <2>4. OpensFinite' /\ NodePinned' /\ ContextHeld' /\ RefsCounted'
    BY <2>1, <2>2, RefShape DEF RefInv, References, OpensFinite, NodePinned, ContextHeld,
       RefsCounted, vars
  <2> QED
    BY <1>1, <2>1, <2>3, <2>4 DEF vars
<1>2. CASE obj[o].fd # NoFd
  <2> DEFINE fd == obj[o].fd
  <2>1. fd \in Fd /\ fdtab[fd].kind \in {"node", "foreign"} /\ fdtab' = [fdtab EXCEPT ![fd] = Nothing]
    BY <1>2, RefShape DEF CloseFile, RefInv, HandleInv, MembersOpen
  <2>2. CASE fdtab[fd].kind = "node"
    <3>1. files > 0 /\ phase \in {"probing", "bound"} /\ "node" \in held
      BY <2>1, <2>2, NodeKeepsDriver
    <3>2. Close
      BY <1>2, <2>2 DEF CloseFile
    <3>3. files' \in Nat /\ files' = files - 1
      BY <3>1, <3>2, RefShape DEF Close
    <3>4. LifeInv' /\ driver' = driver
      BY <3>1, <3>2, <3>3, FilesChange DEF RefInv, Close
    <3>5. files' = files - (IF fdtab[fd].kind = "node" THEN 1 ELSE 0)
                         + (IF Nothing.kind = "node" THEN 1 ELSE 0)
      BY <2>2, <3>3, RefShape DEF Nothing
    <3> HIDE DEF fd
    <3>6. OpensFinite' /\ NodePinned' /\ ContextHeld' /\ RefsCounted'
      BY <2>1, <3>2, <3>4, <3>5, FileChanges DEF Close
    <3> QED
      BY <2>1, <3>4, <3>6, RefShape DEF fd
  <2>3. CASE fdtab[fd].kind # "node"
    <3>1. UNCHANGED vars
      BY <1>2, <2>3 DEF CloseFile
    <3>2. LifeInv' /\ driver' = driver
      BY <3>1, LifeInvStep DEF RefInv, vars
    <3>3. files' = files - (IF fdtab[fd].kind = "node" THEN 1 ELSE 0)
                         + (IF Nothing.kind = "node" THEN 1 ELSE 0)
      BY <2>3, <3>1, RefShape DEF Nothing, vars
    <3> HIDE DEF fd
    <3>4. OpensFinite' /\ NodePinned' /\ ContextHeld' /\ RefsCounted'
      BY <2>1, <3>1, <3>2, <3>3, FileChanges DEF vars
    <3> QED
      BY <2>1, <3>2, <3>4, RefShape DEF fd
  <2> QED
    BY <2>2, <2>3
<1> QED
  BY <1>1, <1>2

\* An object that is no more: its constructor failed, or its destructor is done.
LEMMA FileClosed ==
    ASSUME RefInv, driver = "edu_pci", NEW o \in Obj, obj[o].at \in {"opened", "closing_fd"},
           CloseFile(obj[o].fd), obj' = [obj EXCEPT ![o] = NoObj],
           UNCHANGED <<refs, registered, newest>>
    PROVE  LifeInv' /\ References'
<1>1. /\ obj'[o] = NoObj /\ NoObj.mapped = FALSE /\ NoObj.fd = NoFd /\ NoObj.evt = NoFd
      /\ NoObj.at = "none" /\ \A p \in Obj : p # o => obj'[p] = obj[p]
  BY RefShape DEF NoObj
<1>2. \A p \in Obj : obj'[p].mapped = obj[p].mapped
  BY <1>1, RefShape
<1>3. /\ LifeInv' /\ driver' = driver
      /\ OpensFinite' /\ NodePinned' /\ ContextHeld' /\ RefsCounted'
      /\ obj[o].fd # NoFd => fdtab'[obj[o].fd] = Nothing
      /\ \A g \in Fd : g # obj[o].fd => fdtab'[g] = fdtab[g]
  BY <1>2, FileCloses, MappingsStay
<1>4. \A p \in Obj \ {o} : /\ obj[p].fd # NoFd => fdtab'[obj[p].fd] = fdtab[obj[p].fd]
                           /\ obj[p].evt # NoFd => fdtab'[obj[p].evt] = fdtab[obj[p].evt]
  BY <1>3, NotOthers
<1>5. RefTypeOK'
  <2>1. refs' \in [EventfdId -> Int]
    BY RefShape
  <2>2. \A g \in Fd : fdtab'[g] \in {fdtab[g], Nothing}
    <3>1. NoFd \notin Fd
      BY RefShape
    <3> QED
      BY <1>3, <3>1
  <2>3. ASSUME NEW p \in Obj
        PROVE  /\ obj'[p].mapped => obj'[p].at \in {"live", "source"}
               /\ obj'[p].at \notin {"opened", "made"} /\ obj'[p].fd # NoFd =>
                     fdtab'[obj'[p].fd].kind = "node"
    <3>1. CASE p = o
      BY <1>1, <3>1
    <3>2. CASE p # o
      BY <1>1, <1>4, <3>2, RefTypes
    <3> QED
      BY <3>1, <3>2
  <2> QED
    BY <2>1, <2>2, <2>3, TypesKept
<1>6. NewestInUse' /\ SignalsReachNewest'
  BY <1>1, <1>3, <1>4, RefShape DEF RefInv, References, NewestInUse, SignalsReachNewest
<1> QED
  BY <1>3, <1>5, <1>6 DEF References

\* register_eventfd: the driver takes its reference and gives the one before back.
LEMMA Registered ==
    ASSUME RefInv, NEW o \in Obj, Register(o)
    PROVE  LifeInv' /\ References'
<1> DEFINE e == fdtab[obj[o].evt].id
<1>0. /\ obj[o].at = "made" /\ fdtab[obj[o].fd].kind = "node" /\ SetEventfd
      /\ refs' = RefsAfter(e) /\ registered' = {e}
      /\ obj' = [obj EXCEPT ![o].at = "live"] /\ newest' = o /\ fdtab' = fdtab
  BY DEF Register, RegisteredAfter
<1>1. /\ obj'[o].at = "live" /\ obj'[o].fd = obj[o].fd /\ obj'[o].evt = obj[o].evt
      /\ obj'[o].mapped = obj[o].mapped /\ \A p \in Obj : p # o => obj'[p] = obj[p]
  BY <1>0, RefShape
<1>2. obj[o].fd # NoFd /\ obj[o].evt # NoFd
  BY <1>0 DEF RefInv, HandleInv, MembersFit
<1>3. e \in EventfdId
  <2>1. PICK f \in EventfdId : fdtab[obj[o].evt] = Efd(f)
    BY <1>2, NotOthers
  <2> QED
    BY <2>1 DEF Efd
<1>4. LifeInv'
  BY <1>0, ContextTaken DEF RefInv
<1>5. RefTypeOK'
  <2>1. refs' \in [EventfdId -> Int]
    BY <1>0, RefShape DEF RefsAfter
  <2> QED
    BY <1>0, <1>1, <1>3, <2>1, RefShape DEF RefInv, References, RefTypeOK
<1>6. OpensFinite' /\ NodePinned' /\ ContextHeld' /\ RefsCounted'
  <2>1. OpenFds("node")' = OpenFds("node") /\ \A f \in EventfdId : FdsOf(f)' = FdsOf(f)
    BY <1>0 DEF OpenFds, FdsOf
  <2>2. IsFiniteSet(MappedObjects') /\ Cardinality(MappedObjects') = Cardinality(MappedObjects)
    BY <1>1, MappingsStay
  <2>3. OpensFinite' /\ NodePinned'
    BY <1>0, <2>1, <2>2, RefShape DEF RefInv, References, OpensFinite, NodePinned, SetEventfd
  <2>4. ContextHeld'
    BY <1>0 DEF ContextHeld, SetEventfd
  <2>5. ASSUME NEW f \in EventfdId
        PROVE  refs'[f] = Cardinality(FdsOf(f)') + (IF f \in registered' THEN 1 ELSE 0)
    <3>1. refs[f] = Cardinality(FdsOf(f)) + (IF f \in registered THEN 1 ELSE 0)
      BY DEF RefInv, References, RefsCounted
    <3>2. refs'[f] = refs[f] + (IF f = e THEN 1 ELSE 0) - (IF f \in registered THEN 1 ELSE 0)
      BY <1>0 DEF RefsAfter
    <3>3. f \in registered' <=> f = e
      BY <1>0
    <3>4. Cardinality(FdsOf(f)) \in Nat /\ FdsOf(f)' = FdsOf(f)
      BY <2>1, RefShape
    <3> QED
      BY <3>1, <3>2, <3>3, <3>4
  <2> QED
    BY <2>3, <2>4, <2>5 DEF RefsCounted
<1>7. NewestInUse' /\ SignalsReachNewest'
  BY <1>0, <1>1, <1>2 DEF NewestInUse, SignalsReachNewest, SetEventfd
<1> QED
  BY <1>4, <1>5, <1>6, <1>7 DEF References

\* Anything else does not register: the object is gone, its descriptors stay open.
LEMMA NotRegistered ==
    ASSUME RefInv, NEW o \in Obj, RegisterFails(o)
    PROVE  LifeInv' /\ References'
<1>0. /\ obj[o].at = "made" /\ obj' = [obj EXCEPT ![o] = NoObj]
      /\ UNCHANGED <<vars, fdtab, refs, registered, newest>>
  BY DEF RegisterFails
<1>1. /\ obj'[o] = NoObj /\ NoObj.mapped = FALSE /\ NoObj.fd = NoFd /\ NoObj.evt = NoFd
      /\ NoObj.at = "none" /\ \A p \in Obj : p # o => obj'[p] = obj[p]
  BY <1>0, RefShape DEF NoObj
<1>2. \A p \in Obj : obj'[p].mapped = obj[p].mapped
  BY <1>0, <1>1, RefShape
<1>3. OpenFds("node")' = OpenFds("node") /\ \A f \in EventfdId : FdsOf(f)' = FdsOf(f)
  BY <1>0 DEF OpenFds, FdsOf
<1>4. LifeInv'
  BY <1>0, LifeInvStep DEF RefInv
<1>5. RefTypeOK'
  BY <1>0, <1>1, RefShape DEF RefInv, References, RefTypeOK
<1>6. OpensFinite' /\ NodePinned' /\ ContextHeld' /\ RefsCounted'
  BY <1>0, <1>2, <1>3, MappingsStay, RefShape
     DEF RefInv, References, OpensFinite, NodePinned, ContextHeld, RefsCounted, vars
<1>7. NewestInUse' /\ SignalsReachNewest'
  BY <1>0, <1>1, RefShape DEF RefInv, References, NewestInUse, SignalsReachNewest, vars
<1> QED
  BY <1>4, <1>5, <1>6, <1>7 DEF References

\* A mapping is one more reference on the driver's file.
LEMMA RingsMapped ==
    ASSUME RefInv, driver = "edu_pci", NEW o \in Obj, MapRings(o)
    PROVE  LifeInv' /\ References'
<1>0. /\ obj[o].at = "live" /\ obj[o].fd # NoFd /\ ~obj[o].mapped /\ files' = files + 1
      /\ obj' = [obj EXCEPT ![o].mapped = TRUE]
      /\ UNCHANGED <<driver, phase, step, todo, held, fdtab, refs, registered, newest>>
  BY DEF MapRings
<1>1. /\ obj'[o].mapped = TRUE /\ obj'[o].at = "live" /\ obj'[o].fd = obj[o].fd
      /\ obj'[o].evt = obj[o].evt /\ \A p \in Obj : p # o => obj'[p] = obj[p]
  BY <1>0, RefShape
<1>2. obj[o].fd \in Fd /\ fdtab[obj[o].fd].kind = "node"
  BY <1>0, RefShape DEF RefInv, References, RefTypeOK
<1>3. phase \in {"probing", "bound"} /\ "node" \in held
  BY <1>2, NodeKeepsDriver
<1>4. LifeInv'
  BY <1>0, <1>3, FilesChange, RefShape DEF RefInv
<1>5. RefTypeOK'
  BY <1>0, <1>1, RefShape DEF RefInv, References, RefTypeOK
<1>6. OpensFinite' /\ NodePinned' /\ ContextHeld' /\ RefsCounted'
  <2>1. OpenFds("node")' = OpenFds("node") /\ \A f \in EventfdId : FdsOf(f)' = FdsOf(f)
    BY <1>0 DEF OpenFds, FdsOf
  <2>2. /\ IsFiniteSet(MappedObjects')
        /\ Cardinality(MappedObjects') = Cardinality(MappedObjects) + 1
    <3>1. obj[o].mapped = FALSE
      BY <1>0, RefShape
    <3>2. /\ IsFiniteSet(MappedObjects')
          /\ Cardinality(MappedObjects') =
                Cardinality(MappedObjects) - (IF obj[o].mapped THEN 1 ELSE 0)
                                           + (IF obj'[o].mapped THEN 1 ELSE 0)
      BY <1>1, RefShape, ObjectCounts
    <3> QED
      BY <1>1, <3>1, <3>2, RefShape
  <2>3. OpensFinite' /\ NodePinned'
    BY <1>0, <2>1, <2>2, RefShape DEF RefInv, References, OpensFinite, NodePinned
  <2> QED
    BY <1>0, <2>1, <2>3 DEF RefInv, References, ContextHeld, RefsCounted
<1>7. NewestInUse' /\ SignalsReachNewest'
  BY <1>0, <1>1, RefShape DEF RefInv, References, NewestInUse, SignalsReachNewest
<1> QED
  BY <1>4, <1>5, <1>6, <1>7 DEF References

\* unmap_rings, on its own, in the destructor and in operator=, where the source of the
\* assignment then waits for its target.
LEMMA RingsUnmapped ==
    ASSUME RefInv, driver = "edu_pci", NEW o \in Obj, obj[o].at = "live",
           NEW at \in {"live", "closing_evt", "assign_evt"},
           obj'[o] = [obj[o] EXCEPT !.mapped = FALSE, !.at = at],
           \A p \in Obj : p # o => \/ obj'[p] = obj[p]
                                   \/ obj[p].at = "live" /\ obj'[p] = [obj[p] EXCEPT !.at = "source"],
           IF obj[o].mapped THEN Close ELSE UNCHANGED vars,
           UNCHANGED <<fdtab, refs, registered, newest>>
    PROVE  LifeInv' /\ References'
<1>1. /\ obj'[o].mapped = FALSE /\ obj'[o].at = at /\ obj'[o].fd = obj[o].fd
      /\ obj'[o].evt = obj[o].evt
      /\ \A p \in Obj : p # o => /\ obj'[p].mapped = obj[p].mapped /\ obj'[p].fd = obj[p].fd
                                 /\ obj'[p].evt = obj[p].evt
                                 /\ \/ obj'[p].at = obj[p].at
                                    \/ obj[p].at = "live" /\ obj'[p].at = "source"
  <2>1. /\ obj'[o].mapped = FALSE /\ obj'[o].at = at /\ obj'[o].fd = obj[o].fd
        /\ obj'[o].evt = obj[o].evt
    BY RefShape
  <2>2. ASSUME NEW p \in Obj, p # o
        PROVE  /\ obj'[p].mapped = obj[p].mapped /\ obj'[p].fd = obj[p].fd
               /\ obj'[p].evt = obj[p].evt
               /\ \/ obj'[p].at = obj[p].at
                  \/ obj[p].at = "live" /\ obj'[p].at = "source"
    <3>1. CASE obj'[p] = obj[p]
      BY <3>1
    <3>2. CASE obj[p].at = "live" /\ obj'[p] = [obj[p] EXCEPT !.at = "source"]
      BY <3>2, RefShape
    <3> QED
      BY <2>2, <3>1, <3>2
  <2> QED
    BY <2>1, <2>2
<1>2. /\ IsFiniteSet(MappedObjects')
      /\ Cardinality(MappedObjects') =
            Cardinality(MappedObjects) - (IF obj[o].mapped THEN 1 ELSE 0)
                                       + (IF obj'[o].mapped THEN 1 ELSE 0)
  BY <1>1, RefShape, ObjectCounts
<1>3. /\ files' = files - (IF obj[o].mapped THEN 1 ELSE 0) /\ files' \in Nat
      /\ UNCHANGED <<driver, phase, step, todo, held>>
  BY RefShape DEF Close, vars
<1>4. LifeInv'
  <2>1. files' > 0 => files > 0
    BY <1>3, RefShape
  <2> QED
    BY <1>3, <2>1, FilesChange DEF RefInv, LifeInv, FilesPinned
<1>5. RefTypeOK'
  <2>1. ASSUME NEW p \in Obj
        PROVE  /\ obj'[p].mapped => obj'[p].at \in {"live", "source"}
               /\ obj'[p].at \notin {"opened", "made"} /\ obj'[p].fd # NoFd =>
                     fdtab'[obj'[p].fd].kind = "node"
    <3>1. /\ obj[p].mapped => obj[p].at \in {"live", "source"}
          /\ obj[p].at \notin {"opened", "made"} /\ obj[p].fd # NoFd =>
                fdtab[obj[p].fd].kind = "node"
      BY DEF RefInv, References, RefTypeOK
    <3>2. CASE p = o
      BY <1>1, <3>1, <3>2
    <3>3. CASE p # o
      BY <1>1, <3>1, <3>3
    <3> QED
      BY <3>2, <3>3
  <2> QED
    BY <2>1, RefShape DEF RefInv, References, RefTypeOK
<1>6. OpensFinite' /\ NodePinned' /\ ContextHeld' /\ RefsCounted'
  <2>1. OpenFds("node")' = OpenFds("node") /\ \A f \in EventfdId : FdsOf(f)' = FdsOf(f)
    BY DEF OpenFds, FdsOf
  <2>2. OpensFinite' /\ NodePinned'
    BY <1>1, <1>2, <1>3, <2>1, RefShape DEF RefInv, References, OpensFinite, NodePinned
  <2> QED
    BY <1>3, <2>1, <2>2 DEF RefInv, References, ContextHeld, RefsCounted
<1>7. NewestInUse' /\ SignalsReachNewest'
  <2>1. ASSUME newest \in Obj
        PROVE  /\ obj'[newest].at \in {"live", "source", "closing_evt", "assign_evt"}
               /\ obj'[newest].fd = obj[newest].fd /\ obj'[newest].evt = obj[newest].evt
    <3>1. CASE newest = o
      BY <1>1, <3>1
    <3>2. CASE newest # o
      BY <1>1, <2>1, <3>2, RefShape
    <3> QED
      BY <3>1, <3>2
  <2>2. UNCHANGED <<driver, newest, registered, fdtab>>
    BY <1>3
  <2> QED
    BY <2>1, <2>2 DEF RefInv, References, NewestInUse, SignalsReachNewest
<1> QED
  BY <1>4, <1>5, <1>6, <1>7 DEF References

\* Both moves: o closes the file it has left, if any, and takes p's members.
LEMMA MembersTaken ==
    ASSUME RefInv, driver = "edu_pci", NEW o \in Obj, NEW p \in Obj, o # p,
           obj[o].at \in {"none", "assign_fd"}, obj[p].at \in {"live", "source"},
           CloseFile(obj[o].fd), obj' = Moved(o, p), newest' = NewestMoved(o, p),
           UNCHANGED <<refs, registered>>
    PROVE  LifeInv' /\ References'
<1>1. /\ obj'[o].mapped = obj[p].mapped /\ obj'[o].at = "live" /\ obj'[o].fd = obj[p].fd
      /\ obj'[o].evt = obj[p].evt
      /\ obj'[p].mapped = FALSE /\ obj'[p].at = "live" /\ obj'[p].fd = NoFd /\ obj'[p].evt = NoFd
      /\ \A q \in Obj : q # o /\ q # p => obj'[q] = obj[q]
  BY RefShape DEF Moved, MovedFrom, NoObj
<1>2. newest \in Obj => newest # o
  BY RefShape
<1>3. obj[o].mapped = FALSE /\ obj[p].mapped \in BOOLEAN
  BY RefShape
<1>4. IsFiniteSet(MappedObjects') /\ Cardinality(MappedObjects') = Cardinality(MappedObjects)
  BY <1>1, <1>3, RefShape, MovedCounts
<1>5. /\ LifeInv' /\ driver' = driver
      /\ OpensFinite' /\ NodePinned' /\ ContextHeld' /\ RefsCounted'
      /\ obj[o].fd # NoFd => fdtab'[obj[o].fd] = Nothing
      /\ \A g \in Fd : g # obj[o].fd => fdtab'[g] = fdtab[g]
  BY <1>4, FileCloses
<1>6. \A q \in Obj \ {o} : /\ obj[q].fd # NoFd => fdtab'[obj[q].fd] = fdtab[obj[q].fd]
                           /\ obj[q].evt # NoFd => fdtab'[obj[q].evt] = fdtab[obj[q].evt]
  BY <1>5, NotOthers
<1>7. RefTypeOK'
  <2>1. ASSUME NEW q \in Obj
        PROVE  /\ obj'[q].mapped => obj'[q].at \in {"live", "source"}
               /\ obj'[q].at \notin {"opened", "made"} /\ obj'[q].fd # NoFd =>
                     fdtab'[obj'[q].fd].kind = "node"
    <3>1. \A r \in Obj : /\ obj[r].mapped => obj[r].at \in {"live", "source"}
                         /\ obj[r].at \notin {"opened", "made"} /\ obj[r].fd # NoFd =>
                               fdtab[obj[r].fd].kind = "node"
      BY DEF RefInv, References, RefTypeOK
    <3>2. CASE q = o
      BY <1>1, <1>6, <3>1, <3>2
    <3>3. CASE q = p
      BY <1>1, <3>3
    <3>4. CASE q # o /\ q # p
      BY <1>1, <1>6, <3>1, <3>4
    <3> QED
      BY <3>2, <3>3, <3>4
  <2> QED
    BY <1>5, <2>1, RefShape DEF RefInv, References, RefTypeOK, Nothing
<1>8. NewestInUse' /\ SignalsReachNewest'
  <2>1. newest \in Obj =>
           /\ newest # o /\ obj[newest].fd # NoFd /\ obj[newest].evt # NoFd
           /\ fdtab'[obj[newest].evt] = fdtab[obj[newest].evt]
           /\ registered = {fdtab[obj[newest].evt].id}
           /\ obj[newest].at \in {"live", "source", "closing_evt", "assign_evt"}
    BY <1>2, <1>6 DEF RefInv, References, NewestInUse, SignalsReachNewest
  <2>2. CASE newest = p
    BY <1>1, <1>5, <2>1, <2>2 DEF NewestInUse, SignalsReachNewest, NewestMoved
  <2>3. CASE newest # p
    BY <1>1, <1>5, <2>1, <2>3 DEF NewestInUse, SignalsReachNewest, NewestMoved
  <2> QED
    BY <2>2, <2>3
<1> QED
  BY <1>5, <1>7, <1>8 DEF References

\* The rest of the process opens and closes files of its own.
LEMMA OthersCount ==
    ASSUME RefInv, driver = "edu_pci", NEW fd \in Fd, fdtab[fd].kind \in {"none", "other"},
           NEW x \in {Nothing, File("other")}, fdtab' = [fdtab EXCEPT ![fd] = x],
           UNCHANGED <<vars, obj, refs, registered, newest>>
    PROVE  LifeInv' /\ References'
<1>1. /\ fdtab'[fd] = x /\ x.kind \in {"none", "other"}
      /\ \A g \in Fd : g # fd => fdtab'[g] = fdtab[g]
      /\ \A p \in Obj : obj[p].fd # fd /\ obj[p].evt # fd
  BY RefShape DEF Nothing, File, RefInv, HandleInv, MembersOpen, OurKinds
<1>2. LifeInv'
  BY LifeInvStep DEF RefInv
<1>3. RefTypeOK'
  BY <1>1, RefShape DEF RefInv, References, RefTypeOK
<1>4. OpensFinite' /\ NodePinned' /\ ContextHeld' /\ RefsCounted'
  <2>1. files' = files - (IF fdtab[fd].kind = "node" THEN 1 ELSE 0)
                       + (IF x.kind = "node" THEN 1 ELSE 0)
    BY <1>1, RefShape DEF vars
  <2>2. driver' = driver /\ held' = held
    BY DEF vars
  <2>3. IsFiniteSet(MappedObjects') /\ Cardinality(MappedObjects') = Cardinality(MappedObjects)
    BY MappingsStay
  <2> QED
    BY <2>1, <2>2, <2>3, FileChanges
<1>5. NewestInUse' /\ SignalsReachNewest'
  BY <1>1, RefShape DEF RefInv, References, NewestInUse, SignalsReachNewest, vars
<1> QED
  BY <1>2, <1>3, <1>4, <1>5 DEF References

\* The process ends: only the driver's reference is left.
LEMMA EndCounts ==
    ASSUME RefInv, ProcessEnds
    PROVE  LifeInv' /\ References'
<1>1. /\ driver = "edu_pci" /\ files' = 0 /\ newest' = "nobody"
      /\ obj' = [o \in Obj |-> NoObj] /\ fdtab' = [fd \in Fd |-> Nothing]
      /\ refs' = [e \in EventfdId |-> IF e \in registered THEN 1 ELSE 0]
      /\ UNCHANGED <<driver, phase, step, todo, held, registered>>
  BY DEF ProcessEnds
<1>2. /\ \A o \in Obj : ~obj'[o].mapped /\ obj'[o].fd = NoFd
      /\ \A fd \in Fd : fdtab'[fd].kind = "none"
  BY <1>1 DEF NoObj, Nothing
<1>3. OpenFds("node")' = {} /\ MappedObjects' = {} /\ \A e \in EventfdId : FdsOf(e)' = {}
  BY <1>2 DEF OpenFds, MappedObjects, FdsOf, Efd
<1>4. IsFiniteSet({}) /\ Cardinality({}) = 0
  BY FS_EmptySet
<1>5. LifeInv'
  BY <1>1, FilesChange DEF RefInv
<1>6. RefTypeOK'
  BY <1>1, <1>2 DEF RefInv, References, RefTypeOK
<1>7. OpensFinite'
  BY <1>3, <1>4 DEF OpensFinite
<1>8. NodePinned'
  <2>1. Cardinality(OpenFds("node")') = 0 /\ Cardinality(MappedObjects') = 0
    BY <1>3, <1>4
  <2> QED
    BY <1>1, <2>1 DEF NodePinned
<1>9. ContextHeld'
  BY <1>1 DEF RefInv, References, ContextHeld
<1>10. RefsCounted'
  <2>1. \A e \in EventfdId : Cardinality(FdsOf(e)') = 0
    BY <1>3, <1>4
  <2> QED
    BY <1>1, <2>1 DEF RefsCounted
<1>11. NewestInUse' /\ SignalsReachNewest'
  BY <1>1, HandlesAssumption DEF NewestInUse, SignalsReachNewest
<1> QED
  BY <1>5, <1>6, <1>7, <1>8, <1>9, <1>10, <1>11 DEF References

\* The driver comes up and goes down around the objects: it puts the eventfd when it
\* gives up its context, and by then no object is left that sleeps on one.
LEMMA DriverCounts ==
    ASSUME RefInv, DriverStep
    PROVE  LifeInv' /\ References'
<1>1. driver' = driver /\ files' = files /\ UNCHANGED <<obj, fdtab, newest>>
  BY DEF DriverStep, ReleaseOne, Probe, ProbeStep, ProbeStepFails, Remove, Release, handleVars
<1>2. LifeInv'
  BY LifeInvStep DEF RefInv, DriverStep, ReleaseOne
<1>3. /\ OpenFds("node")' = OpenFds("node") /\ MappedObjects' = MappedObjects
      /\ \A e \in EventfdId : FdsOf(e)' = FdsOf(e)
  BY <1>1 DEF OpenFds, MappedObjects, FdsOf
<1>4. OpensFinite' /\ NodePinned'
  BY <1>1, <1>3 DEF RefInv, References, OpensFinite, NodePinned
<1>5. CASE UNCHANGED <<refs, registered>> /\ ("evt_ctx" \in held' <=> "evt_ctx" \in held)
  <2>1. RefTypeOK'
    BY <1>1, <1>5 DEF RefInv, References, RefTypeOK
  <2>2. ContextHeld' /\ RefsCounted'
    BY <1>3, <1>5 DEF RefInv, References, ContextHeld, RefsCounted
  <2>3. NewestInUse' /\ SignalsReachNewest'
    BY <1>1, <1>5 DEF RefInv, References, NewestInUse, SignalsReachNewest
  <2> QED
    BY <1>2, <1>4, <2>1, <2>2, <2>3 DEF References
<1>6. CASE Release /\ todo # <<>> /\ Head(todo) = "evt_ctx" /\ refs' = RefsPut /\ registered' = {}
  <2>1. newest \notin Obj
    <3>1. SUFFICES ASSUME newest \in Obj PROVE FALSE
      OBVIOUS
    <3>2. /\ driver = "edu_pci" /\ obj[newest].fd \in Fd
          /\ fdtab[obj[newest].fd].kind = "node"
      BY <3>1, RefShape DEF RefInv, References, NewestInUse, RefTypeOK
    <3>3. phase \in {"probing", "bound"}
      BY <3>2, NodeKeepsDriver
    <3> QED
      BY <1>6, <3>3 DEF Release
  <2>2. RefTypeOK'
    <3>1. refs' \in [EventfdId -> Int]
      BY <1>6, RefShape DEF RefsPut
    <3> QED
      BY <1>1, <1>6, <3>1 DEF RefInv, References, RefTypeOK
  <2>3. ContextHeld'
    BY <1>6 DEF Release, ContextHeld
  <2>4. RefsCounted'
    <3>1. ASSUME NEW e \in EventfdId
          PROVE  refs'[e] = Cardinality(FdsOf(e)')
      <4>1. refs[e] = Cardinality(FdsOf(e)) + (IF e \in registered THEN 1 ELSE 0)
        BY DEF RefInv, References, RefsCounted
      <4>2. refs'[e] = refs[e] - (IF e \in registered THEN 1 ELSE 0)
        BY <1>6 DEF RefsPut
      <4>3. Cardinality(FdsOf(e)) \in Nat /\ FdsOf(e)' = FdsOf(e)
        BY <1>3, RefShape
      <4> QED
        BY <4>1, <4>2, <4>3
    <3>2. ASSUME NEW e \in EventfdId
          PROVE  Cardinality(FdsOf(e)') + 0 = Cardinality(FdsOf(e)')
      <4>1. Cardinality(FdsOf(e)) \in Nat /\ FdsOf(e)' = FdsOf(e)
        BY <1>3, RefShape
      <4> QED
        BY <4>1
    <3> QED
      BY <1>6, <3>1, <3>2 DEF RefsCounted
  <2>5. NewestInUse' /\ SignalsReachNewest'
    BY <1>1, <2>1 DEF NewestInUse, SignalsReachNewest
  <2> QED
    BY <1>2, <1>4, <2>2, <2>3, <2>4, <2>5 DEF References
<1>7. CASE Probe \/ ProbeStepFails \/ Remove
  BY <1>5, <1>7 DEF DriverStep, ReleaseOne, Release, Probe, ProbeStepFails, Remove, handleVars
<1>8. CASE ProbeStep
  <2>1. Steps[step] # "evt_ctx"
    <3>1. driver \in Drivers /\ step \in DOMAIN Steps
      BY <1>8 DEF RefInv, LifeInv, LifeTypeOK, ProbeStep
    <3> QED
      BY <3>1, StepTables
  <2>2. "evt_ctx" \in held' <=> "evt_ctx" \in held
    BY <1>8, <2>1 DEF ProbeStep
  <2>3. UNCHANGED <<refs, registered>>
    BY <1>8 DEF DriverStep, ReleaseOne, Release, ProbeStep, handleVars
  <2> QED
    BY <1>5, <2>2, <2>3
<1>9. CASE ReleaseOne
  <2>1. CASE todo # <<>> /\ Head(todo) = "evt_ctx"
    BY <1>6, <1>9, <2>1 DEF ReleaseOne
  <2>2. CASE ~(todo # <<>> /\ Head(todo) = "evt_ctx")
    <3>1. "evt_ctx" \in held' <=> "evt_ctx" \in held
      BY <1>9, <2>2 DEF ReleaseOne, Release
    <3>2. UNCHANGED <<refs, registered>>
      BY <1>9, <2>2 DEF ReleaseOne
    <3> QED
      BY <1>5, <3>1, <3>2
  <2> QED
    BY <2>1, <2>2
<1> QED
  BY <1>7, <1>8, <1>9 DEF DriverStep

\* Another driver has no objects: what its programs open is not counted.
LEMMA OthersFiles ==
    ASSUME RefInv, OtherDriverFiles
    PROVE  LifeInv' /\ References'
<1>1. driver # "edu_pci" /\ UNCHANGED <<driver, phase, step, todo, held>> /\ UNCHANGED handleVars
  BY DEF OtherDriverFiles, Open, Close
<1>2. LifeInv'
  <2>1. CASE Open
    BY <1>1, <2>1, FilesChange, RefShape DEF Open, RefInv
  <2>2. CASE Close
    <3>1. files > 0 /\ files' = files - 1 /\ files' \in Nat
      BY <2>2, RefShape DEF Close
    <3> QED
      BY <1>1, <3>1, FilesChange DEF RefInv, LifeInv, FilesPinned
  <2> QED
    BY <2>1, <2>2 DEF OtherDriverFiles
<1>3. /\ OpenFds("node")' = OpenFds("node") /\ MappedObjects' = MappedObjects
      /\ \A e \in EventfdId : FdsOf(e)' = FdsOf(e)
  BY <1>1 DEF OpenFds, MappedObjects, FdsOf, handleVars
<1>4. RefTypeOK'
  BY <1>1 DEF RefInv, References, RefTypeOK, handleVars
<1>5. OpensFinite' /\ NodePinned' /\ ContextHeld' /\ RefsCounted'
  BY <1>1, <1>3 DEF RefInv, References, OpensFinite, NodePinned, ContextHeld, RefsCounted,
     handleVars
<1>6. NewestInUse' /\ SignalsReachNewest'
  BY <1>1 DEF RefInv, References, NewestInUse, SignalsReachNewest, handleVars
<1> QED
  BY <1>2, <1>4, <1>5, <1>6 DEF References

\* Nothing happens.
LEMMA NothingCounts ==
    ASSUME RefInv, UNCHANGED allVars
    PROVE  LifeInv' /\ References'
<1>1. UNCHANGED vars /\ UNCHANGED handleVars /\ driver' = driver /\ files' = files /\ held' = held
  BY DEF allVars, vars
<1>2. LifeInv'
  BY <1>1, LifeInvStep DEF RefInv
<1>3. /\ OpenFds("node")' = OpenFds("node") /\ MappedObjects' = MappedObjects
      /\ \A e \in EventfdId : FdsOf(e)' = FdsOf(e)
  BY <1>1 DEF OpenFds, MappedObjects, FdsOf, handleVars
<1> QED
  BY <1>1, <1>2, <1>3 DEF RefInv, References, RefTypeOK, OpensFinite, NodePinned, ContextHeld,
     RefsCounted, NewestInUse, SignalsReachNewest, handleVars

-----------------------------------------------------------------------------
(* The theorems.                                                            *)

\* Every step keeps the invariant.
LEMMA RefInvStep == RefInv /\ [HandlesNext]_allVars => RefInv'
<1> SUFFICES ASSUME RefInv, [HandlesNext]_allVars PROVE LifeInv' /\ References'
  BY HandleInvStep DEF RefInv
<1>1. ASSUME NEW o \in Obj, driver = "edu_pci", ConstructNode(o) PROVE LifeInv' /\ References'
  <2>1. /\ obj[o].at = "none" /\ FreeFds # {} /\ Open
        /\ fdtab' = [fdtab EXCEPT ![NewFd] = File("node")]
        /\ obj' = [obj EXCEPT ![o] = Object("opened", NewFd, NoFd)]
        /\ UNCHANGED <<refs, registered, newest>>
    BY <1>1 DEF ConstructNode
  <2> QED
    BY <1>1, <2>1, FileOpened
<1>2. ASSUME NEW o \in Obj, driver = "edu_pci", ConstructForeign(o)
      PROVE  LifeInv' /\ References'
  <2>1. /\ obj[o].at = "none" /\ FreeFds # {} /\ UNCHANGED vars
        /\ fdtab' = [fdtab EXCEPT ![NewFd] = File("foreign")]
        /\ obj' = [obj EXCEPT ![o] = Object("opened", NewFd, NoFd)]
        /\ UNCHANGED <<refs, registered, newest>>
    BY <1>2 DEF ConstructForeign
  <2> QED
    BY <1>2, <2>1, FileOpened
<1>3. ASSUME NEW o \in Obj, driver = "edu_pci",
             \/ MakeEventfd(o) \/ Register(o) \/ RegisterFails(o) \/ MapRings(o)
      PROVE  LifeInv' /\ References'
  BY <1>3, EventfdMade, Registered, NotRegistered, RingsMapped
<1>4. ASSUME NEW o \in Obj, driver = "edu_pci", MakeEventfdFails(o) \/ DestroyFd(o)
      PROVE  LifeInv' /\ References'
  BY <1>4, FileClosed DEF MakeEventfdFails, DestroyFd
<1>5. ASSUME NEW o \in Obj, driver = "edu_pci", UnmapRings(o) \/ Destroy(o)
      PROVE  LifeInv' /\ References'
  <2>1. PICK at \in {"live", "closing_evt"} :
           /\ obj[o].at = "live" /\ obj' = [obj EXCEPT ![o].mapped = FALSE, ![o].at = at]
           /\ IF obj[o].mapped THEN Close ELSE UNCHANGED vars
           /\ UNCHANGED <<fdtab, refs, registered, newest>>
    BY <1>5 DEF UnmapRings, Destroy, Unmapped
  <2>2. obj'[o] = [obj[o] EXCEPT !.mapped = FALSE, !.at = at]
    BY <2>1, RefShape
  <2>3. \A p \in Obj : p # o => obj'[p] = obj[p]
    BY <2>1, RefShape
  <2> QED
    BY <1>5, <2>1, <2>2, <2>3, RingsUnmapped
<1>6. ASSUME NEW o \in Obj, driver = "edu_pci", DestroyEventfd(o) \/ AssignEventfd(o)
      PROVE  LifeInv' /\ References'
  BY <1>6, EventfdClosed DEF DestroyEventfd, AssignEventfd
<1>7. ASSUME NEW o \in Obj, NEW p \in Obj, driver = "edu_pci", MoveConstruct(o, p)
      PROVE  LifeInv' /\ References'
  <2>1. /\ o # p /\ obj[o].at = "none" /\ obj[p].at = "live" /\ obj[o].fd = NoFd
        /\ obj' = Moved(o, p) /\ newest' = NewestMoved(o, p)
        /\ UNCHANGED <<vars, fdtab, refs, registered>>
    BY <1>7 DEF MoveConstruct, RefInv, HandleInv, MembersFit
  <2>2. CloseFile(obj[o].fd)
    BY <2>1 DEF CloseFile
  <2> QED
    BY <1>7, <2>1, <2>2, MembersTaken
<1>8. ASSUME NEW o \in Obj, NEW p \in Obj, driver = "edu_pci", MoveAssign(o, p)
      PROVE  LifeInv' /\ References'
  <2>1. /\ o # p /\ obj[o].at = "live" /\ obj[p].at = "live"
        /\ obj' = [obj EXCEPT ![o].mapped = FALSE, ![o].at = "assign_evt", ![p].at = "source"]
        /\ IF obj[o].mapped THEN Close ELSE UNCHANGED vars
        /\ UNCHANGED <<fdtab, refs, registered, newest>>
    BY <1>8 DEF MoveAssign
  <2>2. obj'[o] = [obj[o] EXCEPT !.mapped = FALSE, !.at = "assign_evt"]
    BY <2>1, RefShape
  <2>3. obj'[p] = [obj[p] EXCEPT !.at = "source"]
    BY <2>1, RefShape
  <2>4. \A q \in Obj : q # o /\ q # p => obj'[q] = obj[q]
    BY <2>1, RefShape
  <2> QED
    BY <1>8, <2>1, <2>2, <2>3, <2>4, RingsUnmapped
<1>9. ASSUME NEW o \in Obj, NEW p \in Obj, driver = "edu_pci", AssignTake(o, p)
      PROVE  LifeInv' /\ References'
  BY <1>9, MembersTaken DEF AssignTake
<1>10. CASE driver = "edu_pci" /\ OtherOpens
  <2>1. NewFd \in Fd /\ fdtab[NewFd].kind = "none"
    BY <1>10, NewFdFree DEF OtherOpens, Nothing
  <2> QED
    BY <1>10, <2>1, OthersCount DEF OtherOpens
<1>11. CASE driver = "edu_pci" /\ OtherCloses
  BY <1>11, OthersCount DEF OtherCloses
<1>12. CASE ProcessEnds \/ DriverStep \/ OtherDriverFiles \/ UNCHANGED allVars
  BY <1>12, EndCounts, DriverCounts, OthersFiles, NothingCounts
<1> QED
  BY <1>1, <1>2, <1>3, <1>4, <1>5, <1>6, <1>7, <1>8, <1>9, <1>10, <1>11, <1>12
     DEF HandlesNext, ObjectStep

\* Whichever step of a probe fails and whenever the module is unloaded, the driver
\* gives back all that it had acquired; the files that keep it loaded are those of the
\* objects.
THEOREM DriverLeavesNothing == HandlesSpec => []NothingLeft
<1>1. RefInv => NothingLeft
  BY DEF RefInv, LifeInv
<1> QED
  BY <1>1, RefInvInit, RefInvStep, PTL DEF HandlesSpec

\* No way into the driver, be it the handler, the node or a file of debugfs or sysfs,
\* outlives what it works on, whatever the user has open.
THEOREM EntriesKeepDevice == HandlesSpec => []EntriesHaveDevice
<1>1. RefInv => EntriesHaveDevice
  BY LifeInvDevice DEF RefInv
<1> QED
  BY <1>1, RefInvInit, RefInvStep, PTL DEF HandlesSpec

\* The labels of edu_probe, edu_remove, err_free and proto_destroy_device release
\* nothing unseen that is not there.
THEOREM DriverReleasesOnce == HandlesSpec => ReleasedOnce
<1>1. RefInv /\ [HandlesNext]_allVars =>
        [(Release /\ todo # <<>>) => Head(todo) \in held \cup Checked \cup {"sysfs"}]_vars
  BY ReleaseFinds DEF RefInv
<1> QED
  BY <1>1, RefInvInit, RefInvStep, PTL DEF HandlesSpec, ReleasedOnce

\* However many objects there are and whatever becomes of them, the driver's node is
\* held open by the descriptors and the mappings they still have, and by no more.
THEOREM NodeCounted == HandlesSpec => []NodePinnedByObjects
  BY RefInvInit, RefInvStep, RefInvCounts, PTL DEF HandlesSpec

\* What the handler signals is never free, and what nobody holds is, for any number of
\* eventfds and in any order of closing, registering, dying and unloading.
THEOREM ReferencesBalance == HandlesSpec => []RefsBalanced
  BY RefInvInit, RefInvStep, RefInvCounts, PTL DEF HandlesSpec

\* The driver signals the object that registered last, through every move of it and
\* until it closes its eventfd.
THEOREM NewestSignalled == HandlesSpec => []SignalsReachNewest
<1>1. RefInv => SignalsReachNewest
  BY DEF RefInv, References
<1> QED
  BY <1>1, RefInvInit, RefInvStep, PTL DEF HandlesSpec
=============================================================================
