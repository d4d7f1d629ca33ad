# A TLA+ development of pcie-driver

The repository holds four generations of a Linux PCIe driver.  The main one,
`pcie_prototype_async`, drives the EDU device of QEMU; `pcie_prototype_sim`
adds a simulation mode to the first prototype, and `pcie_prototype_ring` a
simulated command ring.  This directory models them, checks them with TLC on
small instances and proves the central results with TLAPS for every size.

## 1. The system

| Part | State | Operations | Hard because |
|---|---|---|---|
| `edu_pci.c`, rings | `sq`, `cq`, `sq_tail`, `cq_tail`, `cq_head`, `inflight[]`, under `ring_lock` | the locked parts of `edu_ring_submit`, `edu_irq_handler`, `edu_poll_cq`, `edu_open`; writes of the SQ without the lock (mmap, DMA test) | producer and consumer are an interrupt and a system call; the handler has no check of its own; indices wrap |
| `edu_pci.c`, blocking calls | mutex `lock`, completion `irq_done`, `last_irq`, `last_fact_in`, `last_fact_out`, `dma_ok`, `inject_fault` | `EDU_IOC_RUN_FACTORIAL`, `EDU_IOC_RUN_DMA_TEST`, the sysfs knob | the interrupt may come before the wait, late, never, or for someone else; the DMA buffer is the start of the SQ |
| `edu_pci.c`, interrupt | `evt_ctx`, the progress of the handler | `edu_irq_handler`, `EDU_IOC_SET_EVENTFD` | runs between any two steps of any call |
| EDU device (QEMU, external) | FACT and its busy bit, STATUS, DMA unit and buffer, IRQ status | register writes, end of a factorial, end of a transfer | drops writes while busy; raises one bit per unit |
| user space (`EduDevice`, C API, Python) | descriptors, mapping, shadow `sq_tail_` | constructor, destructor, moves, mapping, one method per ioctl, `wait_completion`, `submit_zc` | time-outs, the shadow index, ownership of descriptors whose numbers are used again |
| `edu_pci.c`, debugfs | seven counters | show, reset | incremented at three moments of an interrupt, reset one by one, no lock |
| `edu_pci.c`, probe and remove | what has been acquired | `edu_probe`, `edu_remove` | failure at each step; open files |
| `pcie_prototype_ring`, simulation | command ring with payloads, completion log, counters, DMA buffer | `RESET`, `SEND_CMD`, `PROCESS_PENDING`, three readers | heads, tails and counts kept separately; the log overwrites |
| `pcie_prototype*`, hardware path, and `qemu/proto_pcie_device.c` | `last_status`, `dma_len`; device status, timer, interrupt line | send, reset, interrupt; register writes, timer | handler writes `last_status` without the mutex; reset does not stop the timer |
| scripts, demos, Jenkinsfile | none | | |

How they interact: a caller enters an ioctl of `edu_pci.c`, which takes the
mutex (blocking calls) or `ring_lock` (ring calls), writes device registers and
returns at once (ring) or sleeps on `irq_done` (blocking).  The device finishes
and raises an interrupt; the handler acknowledges it, posts at most one
completion for the lowest slot in flight, signals the eventfd, and wakes all
sleepers.  A ring caller polls, or sleeps on its eventfd and then polls.

What makes each part correct: a completion is never lost, overwritten,
reordered or repeated; it carries the tag and the result of its own command;
every command is answered and every call returns; the mutex keeps blocking
calls apart; a failure is reported only when there is one; the accounting of
the simulated ring agrees with what was sent; the counters of debugfs agree with
the rings; everything acquired, in the kernel or by an `EduDevice`, is given back
once.

## 2. Modules

| Module | What it is |
|---|---|
| `BoundedFifo` | the abstract promise of a ring: a queue of at most `Capacity` values |
| `EduRing` | the rings of `edu_pci.c`: one action per critical section |
| `EduRingProofs` | its theorems |
| `EduPci` | extends `EduRing` with threads, interrupt handler and device; its ring steps are the actions of `EduRing` |
| `EduPciProofs` | theorems of the whole driver |
| `EduLegacyProofs` | theorems of its blocking calls |
| `EduClient` | extends `EduPci` with the program of an `EduDevice` object: submission by ioctl or through the mapping, `wait_completion` |
| `CommandService` | the abstract promise of an object: it takes one command at a time and answers it once, as is due |
| `EduClientProofs` | theorems of an object and its commands |
| `EduStats` | extends `EduRing` with the counters of debugfs, where they are incremented and reset |
| `EduStatsProofs` | its theorems |
| `ProtoRing` | the simulated ring of `pcie_prototype_ring` |
| `ProtoRingProofs` | its theorems |
| `ProtoHw` | the driver of `pcie_prototype_sim` in both modes, with the QEMU device |
| `ProtoHwProofs` | its theorems |
| `Lifecycle` | probe and remove of `edu_pci.c` and of the prototypes, with the two probes of `pcie_prototype_sim` and the simulation probe of `pcie_prototype_ring` |
| `EduHandles` | extends `Lifecycle` with the life of `EduDevice` objects, their descriptors and mappings, and the references on eventfds |
| `EduHandlesProofs` | theorems of the objects, and of probe and remove under them |
| `MCEduRing`, `MCEduPci`, `MCEduPciMixed`, `MCEduClient`, `MCProtoRing`, `MCProtoHw`, `MCLifecycle` | instances for TLC |

### EduRing

The variables are the fields of `struct edu_dev` with the same names.
`ring_next` and `ring_full` are the helpers of the code; `SubmitLocked`,
`PostCompletion`, `PollCq` and `ResetRing` are the four critical sections.
Early returns (`-ENOSPC`, `-EAGAIN`, nothing in flight) change nothing and are
the disabled cases.  `SlabWrite` is any write of SQ entries that does not take
the lock: through the mapping, by the DMA test, or by a DMA transfer.  Entries
drop `flags`, `rsvd`, which are always written as 0, and keep the rest.

### EduPci

A step of a thread runs from one access to shared state to the next.

| Code | Steps |
|---|---|
| `edu_run_factorial` | `Factorial` (lock, `last_irq = 0`), `Kick`, `Reinit`, `FactorialReply` or `Timeout` |
| `edu_run_dma_test` | `DmaTest`, `Kick`, `Reinit`, `DmaTurn`, `Kick`, `Reinit`, `DmaVerify`; `Timeout` from either wait |
| `edu_ring_submit` | `Submit` (under `ring_lock`), `RingKick` (the switch after it) |
| `edu_poll_cq` | `Poll`; `Drain` when an event-driven client polls |
| `edu_irq_handler` | `IsrEnter` (read, acknowledge), `IsrPost` (under `ring_lock`), `IsrSignal`, `IsrWake` |
| `EDU_IOC_SET_EVENTFD`, `edu_open`, `inject_fault_store` | `SetEventfd`, `Open`, `InjectFault` |
| EDU device | `FactDone`, `DmaDone`, and what `StartFact`, `StartDma`, `FactIrq` do on a register write |
| eventfd (kernel) | `signalled`, `WaitEventfd` |

The register writes of one kick are one step, because only the last of them
starts the device.  `track` is a history variable: what has become of the
command of each tag.  `Program` says which calls a thread makes; `OneAtATime`
is the discipline that demo.cpp and the Python tests follow (a command is
started when the one before is answered); `SlowDevice` lets the device take
longer than the one-second time-out.  Without it a `Timeout` happens only when
no interrupt can still come.

`LegacySpec` is the same driver when its callers make blocking calls only:
`ThreadCall` and `ThreadStep` are built on the `LegacyCall` and `LegacyStep` of which
it consists.

### EduClient

One thread, the owner, has the object; `client` is where it is in its program, the
shadow tail and the command it is at.  `Construct` and `RegisterEventfd` are the
constructor.  `SubmitIoctl` and `SubmitReturns` are `submit`; `WriteSlot` comes before
them in `submit_zc`, and it writes wherever `sq_tail_` points.  `StartWait`, then
`WaitReturns` or `WaitGivesUp`, are the polling loop of `wait_completion`; its limit
passes when nothing can come any more, or at any time under `SlowDevice`.  The
other threads sleep on the eventfd or poll.  `mode` is drawn at the start, because
the two ways to take completions are not mixed in any caller.  The C API and the
Python binding call these methods one for one.

### EduStats

The actions of `EduRing` with the increment next to each, inside `ring_lock` for
submission, completion and poll, before and after it for the interrupt and the
signal.  A write of the stats file sets the counters to 0 in the order of the code,
one `ResetStep` each, and any number of writers do so at once.  `dma_errors` and
`factorial_ops` count blocking calls, relate to nothing in the rings and are left out.

### ProtoRing

Each ioctl runs under `d->lock`.  `Reset` and `SendCommand` are one step;
`PROCESS_PENDING` is `BeginProcess`, one `ProcessOne` for each command, and
`EndProcess`.  A payload is a value; `checksum`, `payload_preview` and
`reserved` are derived from it or constant and are left out, and `comp_head`
is always 0.

### ProtoHw

`d->lock` admits one ioctl at a time, so one `pc` stands for whoever holds it.
`SendCommand` copies the payload; `Kick` writes the registers, of which only
CTRL does more than remember a value; `ReadStatus` and `StoreStatus` are the two
halves of `last_status = proto_readl(REG_STATUS)`, because the handler
(`IrqRead`, `IrqStore`, `IrqAck`) writes `last_status` too, without the lock.  The
device is one operator per register and `Complete` for the timer.  Every byte of
a payload is that payload.  `newest` and `lastCall` are history variables.

The device has no register at REG_IRQ_ACK, and only a reset lowers its line.  It
is level-triggered, so the handler is entered again as long as it is up.  That
is what makes `SendSettles` true: the ioctl and the handler can each overwrite
`last_status` with what they read before the other, and the next entry of the
handler corrects it.  With one interrupt for each completion (the deviation
`IrqReadMsi`) a command can be shown as not done for ever.

### Lifecycle

`ProbeStep` and `ProbeStepFails` go through what a probe acquires; a failure
leaves `todo` with what is to be released, in order: the rest of the label chain of
`edu_probe`, or all of `proto_destroy_device`.  What a flag or a pointer guards is in
`Checked`: to release it when it is not there does nothing.  The simulation probe of
`pcie_prototype_ring` looks at its allocations only when all were tried, so a failed one
goes on to `check` and unwinds from there.  `Remove` fills
`todo` with the order of `edu_remove`.  The module is unloaded only with no file
open (`.owner` of the file operations).

### EduHandles

One step of an object is one system call, so the destructor and `operator=` take
several, and other code of the process opens and closes descriptors in between: the
kernel gives out the lowest free number, hence a number just closed is in use again.
`abandoned` holds the descriptors of a constructor that threw in
`register_eventfd`, for which the code has no destructor.  `Register` stands for
`EDU_IOC_SET_EVENTFD` as a whole: the reference on the new context is taken, the
one on the old is put.  `ReleaseOne` puts the last one when `edu_remove` comes to
`evt_ctx`.  `ProcessEnds` closes whatever is open.  `newest` is a history variable:
the object registered last, followed through its moves.

## 3. Runs

| Run | Instance | Properties | Shows |
|---|---|---|---|
| `ring` | `EduStats`: 3 slots, opcodes 0 and factorial, one writer of the stats file, counters up to 3 | `RingTypeOK`, `InflightWithinUsed`, `CqNeverOverrun`, `RingCountersAgree`, `IrqCountersAgree` | the unchecked post of the handler is safe, because a submission is checked against `cq_head` and a post takes a slot in flight; the counters are never apart by more than the ring holds |
| `event` | `EduClient`: 2 slots, an owner that opens again at will, both ways to submit and to wait, a thread that may poll early | `EchoOK`, `OwnerIsQuiet`, `NoneStranded`, `SleepersAreWoken`, `WaitGetsOwn`, `ZeroCopyInPlace`, `AnsweredOnce`, `CommandsAdvance`, `EveryCommandAnswered` | a program that waits for each answer gets every one, once and its own, also through the mapping; no accepted command is left with nobody to take it further, and no completion is slept through |
| `legacy` | `LegacySpec`: two threads in blocking calls, injected faults | `LegacyExclusive`, `LegacyFactorialCorrect`, `EioTakesFault` | the mutex is held from kick to reply on every path, results are right, `-EIO` only for an injected fault |
| `mixed` | one blocking call against three ring calls, unknown opcodes, a slow device | `TypeOK`, `CallsReturn`, `RingRefined`, `CompletionsAreFifo` | calls return whatever is lost; the driver implements `RingSpec`, and its completions a FIFO |
| `protoring` | 3 slots, 5 commands between resets, lengths within and beyond the maximum | `TypeOK`, `Accounted`, `PendingInOrder`, `LogHoldsNewest`, `LastIsLogged`, `CommandsAreFifo` | accounting, order, and a log that holds the newest completions |
| `protohw` | buffer of 3, payloads of at most 2, two opcodes, both modes | `TypeOK`, `CommandIntact`, `NothingForgotten`, `SendApproaches`, `SendSettles` | buffer and registers agree, a started command is not forgotten, `last_status` comes nearer to DONE at every step after a send, and settles |
| `lifecycle` | `EduHandles`: four drivers, two objects, four descriptors, three eventfds | `NothingLeft`, `EntriesHaveDevice`, `ReleasedOnce`, `DescriptorsOwned`, `NodePinnedByObjects`, `RefsBalanced`, `SignalsReachNewest` | whichever step fails, everything is given back, once, and in an order that no entry outlives what it needs; objects close what is theirs and nothing else; what the handler signals is never free |

Bounds.  Three ring slots (two in `event`, where one command is outstanding at
a time, so that each one wraps) hold two commands, enough for a full ring, for the
wrap of every index and for two slots in flight; the DMA buffer lies over the
first slot, or the first two in `legacy` (four of 64 in the driver).
Operands 3 and 4 have results that differ from each other and
from the inputs.  Tag 9 and opcode 85 stand for what an SQ entry reads as under the test
pattern.  `MaxSeqno` bounds `next_seqno`, which a 32-bit counter does not reach
in the instance; its wrap is not modelled.  `MCEduPciMixed` bounds the calls of
each thread, so the run ends in states with no call left and deadlock is
not checked there.  In the `ring` run one tag, operand and result are enough: its properties
count entries.  `MaxCount` is the size of the ring, so each counter gets as far ahead
of another as the ring allows; a second writer of the stats file adds interleavings
that the theorems cover.  In `lifecycle` two objects with two descriptors each
fill the table of four, and while one is destroyed the other, or the rest of the
process, takes its numbers; the eventfd that an unbound object leaves to the driver is
the third; `MaxFiles` is two descriptors and two mappings.  The objects are
symmetric there, and nothing in that run is about liveness.  In `protohw` a payload of 4 is cut to 2, and a length of 0 is a command without
payload; the third byte is never written by a command.

Fairness.  `Fairness` of `EduPci`, in `mixed`: a thread inside a call runs on
and its timer fires (the scheduler and `wait_for_completion_timeout`); a
pending interrupt is taken and its handler runs to the end; the device finishes
what it runs; a client that waits for its eventfd wakes when it is ready. Nobody
is obliged to make a call.  `ClientFairness`, in `event`, says the same of the
driver and the sleeping threads, and of the object that a submission returns from its
ioctl, that a program in the mode "wait" then calls `wait_completion`, and that this
loop ends one way or the other.  `FairSpec` of `ProtoHw`, in `protohw`: the
ioctl, the handler and the timer go on; an ioctl makes progress while
the handler is entered again and again only if it runs on another CPU.  All are
weak: each such step stays enabled until it is taken.

### What the code does against what it says

Five runs expect a violation; each trace is a behaviour of the driver that one
of its comments or tests excludes.

| Run | Where | What happens |
|---|---|---|
| `lost_wakeup` | edu_pci.c:290 | the device answers between the kick and `reinit_completion`; the wake-up is forgotten and a blocking call times out after a second |
| `rejected` | edu_pci.c:409 | a submission refused with `-EINVAL` stays in flight and the next interrupt completes it with status 0 |
| `restart` | edu_pci.c:608 | `edu_open` resets the rings and not the device: a command of the process before completes the first command of the next |
| `pipelined` | edu_pci.c:409 | with two ring commands outstanding interrupts complete the lower slot, whichever is done and however long the other has waited; in the end a slot still in flight lies where the next submission goes, and its command is lost although the ring is not full |
| `late_wake` | edu_pci.c:283 | `complete_all` comes after the completion is visible, and ends the wait of a factorial that has only just started, which succeeds with its input as result |

`restart` and `event` state the same `EchoOK`: it holds for opens between
commands, and fails when a process dies inside one.  `late_wake` and `legacy`
state the same `LegacyFactorialCorrect`: it holds, and is proved, among blocking
calls, and fails when ring commands precede one.  The lost wake-up of the first run
makes a blocking call time out, never succeed wrongly: both hold together.

## 4. Proofs

Nothing is bounded: the constants take any values the assumptions allow.

`EduRingProofs` (every `RING_SIZE >= 2`, every set of tags, operands and results):

* `RingTypeCorrect`: `RingSpec => []RingTypeOK`.
* `RingInvariant`: `Ready + Cardinality(InflightSlots) <= Used` always.  With
  `RingTypeOK` it is inductive: a submission adds one to `Used` (the check
  of `ring_full` keeps it from wrapping to 0) and at most one slot in flight; a
  post moves one from in flight to ready; a poll takes one from `Used` and
  `Ready`.
* `NoOverrun`: a post needs a slot in flight, so `Ready < Used <= RING_SIZE - 1`
  and the post never fills the last free entry.
* `RingImplementsFifo`: the ready entries are the queue of `BoundedFifo` with
  capacity `RING_SIZE - 1`: a post is a `Put`, a poll a `Get`, an open a
  `Clear`, and everything else a stutter.  It rests on `NoOverrun` and on the arithmetic of
  distances modulo `RING_SIZE` at the head of the module.

`ProtoRingProofs` (every `RING_ENTRIES`, `MAX_PAYLOAD` and bound of the counter):

* `ProtoTypeCorrect` and `ProtoAccounted`: the total of commands keeps its type
  only because it is pending plus completed, and that sum is kept only
  by counts of the right type, so the two are proved together.
* `ProtoPendingInOrder`: a command goes to the slot after the last pending one with
  the next number, and a completion takes the first.
* `ProtoLogHoldsNewest` and `ProtoLastIsLogged`: the log overwrites its oldest
  entry, so the newest ones stay consecutive up to the number before the oldest
  pending command; that link to `PendingInOrder` makes it inductive.
* `ProtoRingImplementsFifo`: the pending commands are the queue of `BoundedFifo`.

`ProtoHwProofs` (every `MAX_PAYLOAD <= BUF_SIZE`, opcodes, lengths and payloads):
`ProtoHwTypeCorrect`; `ProtoHwCommandIntact`, strengthened by the buffer
agreeing also between the copy and the registers and by the simulation having no
timer; `ProtoHwNothingForgotten`, inductive beside the types.
`ProtoHwSendApproaches` is the variant of `SendSettles`: when callers are quiet after a
send, `ToSettle` counts what is still to happen until `last_status` is DONE for good.  An
ioctl or an interrupted handler may have stored, or be about to store, a READY that is out
of date; but after the completion whatever the handler reads is DONE (READY is always on,
and `NothingForgotten` has DONE and the line up), so each of its accesses counts down and
none counts up.

`EduPciProofs` (every set of threads, programs and eventfds, with or without
`OneAtATime` and `SlowDevice`):

* `PciTypeCorrect`: by `PciInv`, the types by group of variables with what they
  need of each other: a thread between kick and reply is in a blocking call
  (`Kick` has a case for no other), one about to kick for the ring carries a
  request of a caller (its tag becomes the one the device works for), and
  FACT shows an operand while a factorial is computed (its result is then one).
* `PciImplementsRing`: every step of a thread, of the handler or of the device is a
  step of `EduRing` or leaves the rings alone.  The type of the DMA buffer is what
  makes the end of a transfer a `SlabWrite`.  With it the theorems about the
  rings carry over to the driver: `PciNoOverrun`, `PciCompletionsAreFifo` and
  `PciInflightWithinUsed`.
* `PciLegacyExclusive`: inductive as it stands beside `PciInv`.

`EduLegacyProofs` (every set of threads that make blocking calls, every RING_SIZE and
DMA_SLOTS the assumptions allow, `SlowDevice` false):

* `LegacyImplements`: `LegacySpec` implements `Spec`, so the theorems above hold of it.
* `LegacyFactorials` and `LegacyEioTakesFault`, from one invariant.  While nobody has the
  mutex no interrupt can come; from the kick to the reply exactly one of three
  things is so: the device computes, its interrupt is pending, or the handler has noted
  it.  A thread that is woken therefore knows that its interrupt has been taken,
  although `irq_done` belongs to everyone; and the pattern of a DMA test is in the
  device, or back in the slab.  A timeout and a wake-up lost before
  `reinit_completion` leave the device at rest too.  Both theorems need a device
  that answers within the second: one that does not leaves its interrupt to the next
  caller.  They do not hold with ring calls: that is `late_wake`.

`EduStatsProofs` (every `RING_SIZE`, every bound on the counters, any number of writers):

* `StatsImplementRing`: the counters leave the rings as they are.
* `StatsRingCountersAgree` and `StatsIrqCountersAgree`: each inequality holds unless a
  reset stands between its two counters.  A write passes that place with
  the counter on the left still to be reset, and restores the inequality when it sets
  that one, because the ring holds no more than `RING_SIZE - 1` (by `InflightWithinUsed`)
  and one handler is under way.  It depends on the order of the reset: what is
  derived is reset last.

`EduHandlesProofs` (every set of objects, descriptors and eventfds, all four drivers, a
failure at every step):

* `HandlesOwned`, from `HandleInv`: members which are descriptors are open and of their
  kind, no two objects share one, an object at each point of its life has the members
  it should have, and each descriptor of the class has an owner or was abandoned.  A
  new descriptor is a free one because the lowest of a set of numbers that is not empty
  exists.
* `DriverLeavesNothing`, `EntriesKeepDevice` and `DriverReleasesOnce`, from `LifeInv`.
  What is held is no function of the phase, because steps may fail and be passed over,
  so the invariant says it in both directions.  `GoingUp`: what is held is among the
  steps taken, and every step taken that is not tolerated is held.  `ComingDown`: what
  is held is among what is still to be released, and the head of that is held
  unless the code looks first.  `EntriesFirst`: an entry is released before what it needs.
  `FilesPinned`: a file is open only while the node is there and the driver is not
  coming down.  Each label of `edu_probe` has to be the one that makes `ComingDown`
  true of the step that failed.
* `NodeCounted` and `ReferencesBalance`, from `References`, by counting: `files` is the
  number of descriptors on the device and of mappings, and the references on a context are
  the descriptors that name it, one more if the driver has it registered.
  Nothing assumes that the sets are finite: that the open ones are is part
  of the invariant, and that each step changes their number by one is by the
  cardinality facts of `FiniteSetTheorems`.
* `NewestSignalled`: the newest object registered its eventfd last, so that
  `evt_ctx` names the description behind its descriptor as long as it has one.  When the
  driver puts the context no file is open, hence no object is in use.

`HandlesAssumption` keeps "nobody" from being the name of an object.

`EduClientProofs` (every `RING_SIZE`, `DMA_SLOTS`, set of tags, operands and threads):

* `ClientImplementsRing`: the object is a caller of the driver, and its write through
  the mapping is a `SlabWrite`; so all that is proved of the rings holds of it.
* `ClientEcho`, `ClientSlotFree`, `WaitKeepsQuiet`, `WaitAnswersOwn` and `WrittenInPlace`,
  from one invariant, which follows the life of a command.  `Rest`: there is none, the rings are
  empty, and device and handler have nothing to say.  `Accepted`: it is in the slot of the
  consumer and the device still rests, so that the kick is not dropped.  `Computing`:
  its unit works for it.  `Computed`: the unit is done, FACT has its result, and either
  the interrupt is pending or the handler is before its critical section, never both.
  `Posted`: its completion is at `cq_head`.  Then a poll takes it, and there is `Rest`
  again.  That the handler takes the lowest slot in flight and what FACT shows is right
  because there is one slot in flight and nothing has written FACT since.  The
  shadow tail is `sq_tail` except between the two halves of a submission.

  `Disciplined` says what this asks of the caller: opcodes the driver knows (without, it is
  `rejected`); no process that died inside a call (without, `restart`); and one command at a
  time (without, `pipelined`), which is so when the caller waits for the answer
  (`OneAtATime`), or when it does not but always calls `wait_completion`, on a
  device that answers in time.  `WaitKeepsQuiet` and `WaitAnswersOwn` make use of the
  second only: a loop that runs to its limit with a command under way leaves the next
  caller with two.  TLC checks the instance of the first.
* `ClientNoneStranded`, from the same invariant: in each of its places a command is with
  somebody who takes it further.
* `ClientCommandsAdvance` is the variant that goes with it: `ToComplete` is 4 in `Accepted`, 3
  in `Computing`, 2 or 1 in `Computed` on this side or the other of the acknowledgement, and 0 in
  `Posted`.  Every kick, end of a unit, entry of the handler and critical section of it
  lowers the number of the command under way, and nothing raises it: there is no interrupt
  without a command to account for it.
* `ClientImplementsService`: under `Disciplined` the object implements `CommandService`, with
  `Outstanding` (the requests running or done, at most one) for what the service has
  taken.  A submission is a `Take`, the poll of whichever thread is the `Answer`, with the
  reply due to that request, and every other step is a stutter: opening again too, because the
  discipline lets it happen only at `Rest`.  Whether the caller is `Disciplined` does not
  change during a run, so the theorem asks for it in the first state only.  `ClientEcho` says
  of what is ready that it is right; this says besides that it is taken once and that
  nothing taken is given up.
* `ClientWakesSleepers` asks nothing of the caller: any number of commands, unknown
  opcodes, restarts and a slow device are allowed.  It is inductive (`WakeInv`) with one
  thing more: until an eventfd is registered the rings hold nothing that could ask for a
  signal, and afterwards one stays registered.  A signal is removed only by a thread that
  goes on to poll; it stops only at an empty ring; and the handler that fills it again is
  between its post and its signal with `ring_pending` set.

The assumptions are those of the modules, which TLC evaluates in the runs.
Every invariant and action property of the passing runs is proved.  Only
model-checked: the liveness properties (`EveryCommandAnswered`,
`CallsReturn`, `SendSettles`), because TLAPS does not reason about fairness and ENABLED.
What is safety in their arguments is proved: by `NoneStranded`, `CommandsAdvance` and
`SleepersAreWoken` a command of `EveryCommandAnswered` always has a next step, each
step is one less, and its completion has somebody who comes for it; `NothingForgotten` and
`SendApproaches` are the progress of `SendSettles`, and for `CallsReturn` there is
`PciLegacyExclusive`, by which whoever waits for the mutex waits for a thread whose timer
runs.  From there it is the weak fairness of each step.  What
`Fact` computes would need induction over data, which TLAPS cannot instantiate
either; `FactAssumption` states what the proofs need of it, that the results of
the operands are results.

## 5. Not modelled, and what is left

Not modelled:

* formatting and printing, the demos, scripts, the benchmark, the Jenkinsfile, and
  the left-over `kernel/proto_pcie.h`, which nothing includes; they keep no
  state of the system.  The user-space classes of the prototypes are one ioctl for
  each method.
* what only reads: `EDU_IOC_GET_STATE`, the show of the stats file, `GET_INFO`,
  `GET_STATUS` and `edu_poll`, which registers no wait queue, as its comment says.
* failures of `copy_from_user` and `copy_to_user`: every caller in the repository passes
  the address of a live object.
* two registrations of an eventfd, or a registration and a signal, at the same
  instant: `SetEventfd` and `Register` are one step.
* an unbind through sysfs while files are open: the driver does nothing about it, and
  `Lifecycle` unloads the module only with none.
* the counters `dma_errors` and `factorial_ops`, the wrap of 32-bit sequence numbers and
  64-bit counters.
* `pcie_prototype`: its source ends in the middle of `proto_fops`.  Up to there it is the
  hardware path of `pcie_prototype_sim`.  The hardware mode of `pcie_prototype_ring`
  makes the register accesses of `ProtoHw` and has its probe.

Left to do: the step from the proved safety parts to the three liveness properties, with a
prover that knows ENABLED.
