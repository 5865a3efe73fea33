# Perenne: a TLA+ verification of the kernel

This directory holds TLA+ specifications of the Perenne microkernel
(`arch/riscv64`, `kernel`, `libs/common`, `libs/crypto`, `tools/mkfs`), the TLC configurations
that model-check them on small instances, and theorems about them that TLAPS
proves for every instance. `PROJECT.json` maps every definition to the lines it
translates and lists runs, mutants, findings, hazards and theorems.

## 1. The system

One hart runs a fixed set of tasks created at boot. *User* tasks run in U-mode,
each in an address space of its own, and enter the kernel only through traps,
which run with interrupts off. *Kernel* tasks run in S-mode with interrupts on
and call the scheduler directly. Everything else is communication between them.

| part | state | operations | talks to |
|---|---|---|---|
| scheduler (`sched.rs`, `task.rs`) | the task table: state of each task, current slot | yield, preempt, park, exit, crash, restart | everything |
| IPC and capabilities (`sched.rs`, `cap.rs`, `syscall.rs`) | capability slots, one-message inboxes, capability in transit | send, recv, call, reply, grant, revoke; recv_message, call_message in kernel tasks | scheduler |
| traps and interrupts (`trap.rs`, `plic.rs`) | claimed and pending sources | tick, external interrupt, wait_irq | scheduler, drivers |
| healer (`healer_task`, `exit_current`, `restart`) | crash badge, restart budget | report a crash, restart | scheduler, knowledge base |
| knowledge base (`heal.rs`, `kb.rs`) | table of known issues, counters, one-slot mailbox of unknown causes | diagnose, count, escalate, record | healer, file system |
| file system (`fs.rs`, `mkfs`, `fs_*` in `main.rs`) | superblock, directory, extents; one cached block | read, append, update in place | block driver |
| memory (`mem/*`) | frame bitmap, page tables | alloc, free, map_page, build a space | boot |
| start (`dt.rs`, `virtio.rs`, `kmain`) | the machine found, the tables built | parse the device tree, find devices, spawn, grant, route interrupts | everything |
| block driver (`blk_component`) | a virtqueue, a DMA page | serve a read or a write | file system, device |
| network driver and client (`net_*`, `net.rs`) | two virtqueues, a lease, an address | DHCP, ARP, ICMP, DNS | device |
| random service (`entropy_component`, `pqc_consumer`, `entropy.rs`, `crypto`) | a virtqueue, the pool | reseed, draw | device, programs |
| demonstration programs (RTC, delegation, revocation, channel, deferred replies, patients) | an exit code each | a short sequence of system calls | IPC, healer |
| shell | a line buffer | poll, print | nobody |

What makes it hard: a tick can come between any two instructions of a kernel
task, so what a system call does in one step `recv_message` and `call_message`
do in two; a woken task acts on a message that was written while it slept; the
healer is itself a task that can be preempted in the middle of a diagnosis;
two kernel tasks share one DMA page without a lock; a driver learns that its
request is finished from an interrupt alone; the power can fail between any two
of the writes that make up one append; and slots, badges, interrupts and
capabilities are tied together by number in one long function that runs on
machines with and without each device.

## 2. Modules

| module | models |
|---|---|
| `Sched` | scheduler, IPC, capabilities, traps, interrupts, healer and restart |
| `MCSched` | three instances of it: `Ipc`, `Heal`, `Kernel` |
| `SchedProofs` | theorems about `Sched`: types, the running task, its successor |
| `SchedIpcProofs` | what each operation does task by task; messages and rendezvous |
| `SchedHealProofs` | restarts, replies and interrupts |
| `KbStore` | knowledge base, file system, loader, writer, crash path, power loss |
| `MCKbStore` | its instances |
| `KbStoreProofs` | theorems about `KbStore`: the shared page and its cache |
| `KbVolumeProofs` | theorems about `KbStore`: the volume on the disk |
| `BlockStore` | the abstract block server the file system relies on |
| `Virtqueue` | one split virtqueue with its driver's steps, the device, the PLIC source and the trap handler |
| `Drivers` | block server and its clients, entropy component, random pool and its users; implements `BlockStore` |
| `MCDrivers` | its instance |
| `DriversProofs` | theorems about `Drivers` |
| `AddressSpaces` | the abstract specification of address spaces |
| `Memory` | frame allocator and page tables; implements `AddressSpaces` |
| `MCMemory` | its instance |
| `MemoryProofs` | theorems about `Memory` |
| `Net` | network client and driver, the virtio device, the hosts and the wire |
| `MCNet` | its instance |
| `NetProofs` | theorems about `Net` |
| `DeviceTree` | the parser of the firmware's tree and the lookups in its result |
| `Boot` | `kmain`: from the machine found to tasks, capabilities and routed interrupts |
| `Userland` | the demonstration programs, on top of `Sched` |
| `System` | power-on: firmware, parser, `kmain`, and the programs on the tables it built |
| `MCSystem` | its instance: boards, and the reference machine's tables |

How they fit together: in `KbStore` the block server serves a request in one step; `BlockStore`
states that as a specification and `Drivers` is proved to implement it, for
clients that respect the rule `KbStore!OutgoingIntact` establishes. `Sched` takes
tasks, capabilities and badges as constants; `System` checks that for the
reference machine those are what `Boot` makes of the device tree, and that the
tables of every other board have the properties `Sched` and the programs need.

### Sched

A system call of a user task is one step, up to the context switch it may end
in, because it runs in the trap handler with interrupts off. What the handler
does when the task is scheduled again (mint a Reply capability, install a
granted one, copy the message out) is a step of its own, `Resume`, and `at`
says which. The blocking operations of kernel tasks are two steps: the decision
inside `SCHED.with`, then `KernelPark`, with a window in which ticks, interrupts
and other tasks may come; `sie` is the interrupt-enable bit the task happens to
run with. A task's program is a set of calls it may make in any order with any
arguments (`Program`), so one instance covers every program over those calls.
The healer's loop is followed exactly: receive, then restart what the badge
names.

A message is abstracted to who wrote it (and, from the kernel, the badge);
capabilities keep kind and object; the return value of a call that is refused is
not modelled, so a refusal is a stuttering step. `DeviceRaise` and `DriverAck`
stand for the device and for the driver's acknowledgement to it. One thing is
simpler than the code: a user task that was switched to by the park of a kernel task
with interrupts on may take a tick before its `Resume`, and in the model does not
(`Interruptible`). Such a tick would leave the task Ready, at the same place and with
the same message, so the states it could add differ only in who runs.

### KbStore

The state is the disk, the DMA page with its tag `cached`, one outstanding
request per client, the program counters and locals of loader and writer, the
table in memory, the mailbox, and the patients. A block is reduced to what the
code decodes from it: superblock, directory, front matter of an entry, anything
else. A crash, another task's step, or a power loss fits between any two steps of
a block request: the client decides in `call_message` (`call`: hand the request to a
server in `recv`, or queue it), parks, the server receives, serves and replies, and
the client takes the result. A reply that comes before the park is lost, and a server
that enters `recv` before the park of a queued client never sees it, as in `Sched`.
The gate is the same in small: the loader calls once per patient, and a patient is
starting, in `recv`, about to reply, or past the gate. Each boot finds the block
device absent, sound or failing (`device`); without one there is neither server nor
writer and the loader goes straight to the gate. `PowerLoss` keeps only the disk.
`take_novel` is two steps, because it is a read
and a write in a kernel task that can be preempted between them. Whether a
crash finds the healer in `recv` is Sched's business and is a nondeterministic
choice here (`Notify`).

`LAST_DIAGNOSIS` is left out: only the shell prints it.

### Virtqueue, Drivers and BlockStore

`pc` follows each driver through a request: prepare the chain, publish the index,
notify, `wait_irq`, read the interrupt status, acknowledge, read the answer. The
driver is a preemptible user task, so device and trap handler may act between any
two of these. It never reads the used ring, and every ring entry names descriptor
0, so neither is modelled; what remains is the available index, how far the device
has read it, and the interrupt: the device's status bit (a level), and the PLIC
source, pending or claimed. `Complete` inside `WaitIrq` forwards a level that is
still asserted. The device may take a chain before it is notified, and a failed
write may or may not have reached the medium. `BlkPublish` has the checked
addition of a debug build, which kills the driver at the last index, and the
wrapping one of a release build.

The pool is the sequence of seeds and positions its key was derived from, and a
draw is the pool's state when it was served: equal draws are equal histories. That
different histories give different bytes is assumed of ChaCha20. A draw from an
unseeded pool (zeros) is not recorded in `drawn`. The seeds pass from
`entropy_component`, a user task whose send is one step, to `pqc_consumer`, a kernel
task whose `recv_message` decides (`PqcRecv`) and parks (`PqcPark`) in two: a send in
between is queued beside a receiver that parks all the same (`MissedSend`).
A client's request to the block server is one that reached it; the window of the
client's own call is in `KbStore`.

`BlockStore` has a request served in one step. Under the refinement mapping a
request counts as served from the moment the device completes it.

### Memory and AddressSpaces

Addresses are page numbers and every mapping is an identity mapping, as in the
code. Frames *hold* page tables: `mem` maps a frame to its contents, `map_page`
is one step per level, and allocating a table in the middle of a walk writes
into the same memory the walk is reading. A frame starts out holding whatever
was there before (`Garbage`, a table full of valid entries); `alloc_zeroed`
makes it a `ZeroTable`. `Begin` starts the master table or a component's space
with the ranges, in order, of `mem::init`, `build_user_space` and
`build_virtio_space`; `Probe` and `ProbeFree` are `frame_roundtrip`. `panic`
records a failed assertion and stops the model. Components are built in any
order, which includes the one in `kmain`.

`AddressSpaces` promises that a space is created empty, grows one page at a time,
never changes a page that is mapped, and is not affected by anything done to
another space. `View` is the refinement mapping: for each root, the walk the
hardware would do.

### Net

`exchange` and `io` are the place of `net_client` in its sequence of six
exchanges, `pc` that of `net_component` in its loop; the available and used
indices of the two queues, the two buffers of the shared DMA page and the
interrupt status are what they have in common with the device. A frame is its
kind and the one field the parsers compare (server, host, or whether an answer
holds an address). Device, hosts and wire are external: a transmission reads the
buffer as it is *then*, not as it was when it was published; any set of answers
sets out; a frame may arrive at any time, again and again, or be dropped for want
of a posted buffer; unsolicited frames come at any time. They answer no question:
the wire loses, delays, repeats and reorders what hosts sent and forges nothing, which
is the sense in which `AdoptedIsLeased` and `FactsEarned` hold. An exchange ends with
whatever frame comes first, so answers can be one or more exchanges late.
`served` and `lost` are history variables: the questions some answer to which set out,
and whether the question of the present exchange or all answers to it got lost. The
client's call decides (`ClientCall`) and parks (`ClientPark`) in two steps; a reply in
between is lost.

### DeviceTree, Boot, Userland and System

`DeviceTree!Parse` is the token walk of `parse`, token by token, with the per-node
state it buffers; bytes, alignment and bounds checks are not modelled. A tree is
whatever `Blob` makes of a *board*: memory, cpus, RTC, UART, PLIC and virtio nodes
(with or without an interrupt), in any of the listed orders, some on a bus of
their own, with required nodes missing, or the blob damaged. It follows what
firmware does: device nodes are leaves, properties come before subnodes, addresses
are distinct and written with the root's cells.

`Boot!Kmain` is the list of calls `kmain` makes, one definition per block of the
function, and `Execute` is what the calls leave behind: a capability slot holds
what was last granted to it, a Restart capability the slot its task was given. The
boot fails on a full task table, on an interrupt that is not found, and on a board with
a virtio device and no PLIC: `plic::init` then writes to an address near 0, which
`mem::init` has not mapped.

`Userland` has each program as a sequence of system calls on the actions of
`Sched`, and keeps as much data as its exit code depends on: who wrote what it
received, which calls were refused, whose request an answer was made from. Groups
of components that share no endpoint are started separately, from the state in
which the others are done: all of them at once is out of reach, and they share
nothing but the hart. `kb` enters where the loader has read the table (`KbStore`)
and opens the gate.

In `System` a board is parsed and booted with every assignment of device ids to
the virtio slots found. The behaviours that continue into the programs are those
of the reference machine, whose tables are the constants of `Sched`; `Handover`,
inside `TablesSound`, checks that they are exactly what `Boot` builds for it.

## 3. Runs

| run | instance | what it checks |
|---|---|---|
| `sched_ipc` | 3 user tasks, healer, idle; 2 capability slots, one shared endpoint | types; one running task; a successor always exists; a Reply capability names a waiting caller and is unique; no receiver and sender ever wait side by side |
| `sched_heal` | 2 patients that serve each other and fault, 1 restart each | restarts hit only dead tasks; Reply capabilities survive crashes and restarts; a reported crash is healed (liveness); round robin starves nobody (liveness) |
| `sched_kernel` | a user server that is also a driver, a kernel client, a kernel receiver, one source | a message is stable until it is taken, in the windows of kernel tasks too; a sleeping driver can always be woken, and is (liveness) |
| `kb_power` | at each boot no device, a sound or a failing one; two boots, escalation at 2 | the volume is sound after any loss and counters fit their fields; what was committed stays; a quarantine survives reboots with a sound device; the DMA page is never overwritten under a pending write |
| `kb_persist` | one boot without a device or with a failing one | the cache is coherent; the patients get past the gate unless the loader is caught in the window of `call_message` (liveness); counters reach the disk unless the power fails, a request for the entry fails, or the writer is caught in that window (liveness) |
| `drivers` | a machine with either device, two clients, one block and one past the end, index range 4 | a driver never reads before its device has written; what the device owns is not touched; the server implements `BlockStore`; every request is answered (liveness); the pool is seeded and reseeded unless the receiver misses a send in its window (liveness) and never repeats a draw |
| `memory_boot` | 4-entry tables, 64 pages, 40 frames, 3 components | the counter is exact; the tables implement `AddressSpaces`; components reach only their own pages; nothing is writable and executable; finished spaces have no holes; the only assertion that can fire is the one for an empty allocator |
| `net_lease` | two servers, 16 wake-ups per exchange, one earlier answer under way | the receive buffer is stable under the parser; the driver never sleeps on a frame that is there; an adopted address was committed by its server; nothing is reported that was not answered; every call of the client returns unless its own frames are lost or it is caught in the window of `call_message` (liveness) |
| `system_boot` | the reference board, and every tail of four nodes behind memory, processors and RTC: on a bus or not, with one- or two-cell addresses, a required node missing, or damaged; 3 virtio slots; the 26 tasks of the full machine, one restart | the parser finds what is there and leaks nothing between nodes; each driver gets its own device, registers and interrupt; the tables suit the scheduler and the programs; components exit with the codes the smoke test looks for, under every schedule; all of them come to an end (liveness) |

Three further runs (`sched_crash_dropped`, `sched_kernel_call`, `kb_novel_lost`)
state what a comment or a document says and what the code does not do; each ends
in a counterexample (section 7).

**Bounds.** Five tasks are the fewest with two clients competing for one server
beside healer and idle; two capability slots are the fewest in which slots fill
up, so that minting and installing fail for lack of room. One restart makes the
budget run out (`MAX_RESTARTS` is 2 in the code). Two boots are enough to lose power
in any step of an append and to load what is left, with a device of another kind if
need be; with escalation at 2 a counter passes the threshold over the two; the theorems of
section 4 hold for any number of boots. Directory and volume have room for one
append, the table of `kb_power` for one more, so both the append and its
refusal occur. `kb_persist` has one boot, since its liveness properties are about what
happens while the power stays on. A range of 4 lets the block server's
index wrap. The block and the random driver have no variable in common, so each
has a machine of its own in the run; the theorems of section 4 also hold with
both, and for any number of blocks. Forty frames hold the master table and two components and
not the third, whichever is third; every pair is finished in some behaviour and
the exhaustion is met deep in a walk. The guard page and a component without a
device (an empty range) are in the instance. Two servers let an offer of one
arrive while the lease of the other is awaited. `MaxLate = 1` earlier answer under
way beside those of the current exchange is what it takes to mistake one exchange's
answer for another's. Three virtio slots instead of eight are filled by three
nodes, or by two of which one is committed twice. One restart instead of two keeps the patients'
group small; the budget still runs out.

**Fairness.** In `Sched`: strong fairness of `Tick`, because the timer is
re-armed at every tick and its interrupt stays pending while interrupts are off;
of each `ExternalInterrupt`, which stays pending at the PLIC; of `KernelStep`
(the loop of every kernel task ends in `yield_now`), of `KernelPark` and of the
healer's restart, because a task that gets the hart again and again
reaches its next instruction, though each single turn may be cut short by a
tick; weak fairness of `Resume`, which runs with interrupts off. Programs are
not assumed to make any particular call. In `KbStore`: weak fairness of the
steps of loader, writer, block server, patients and healing, which `ReadyRuns` of
`Sched` justifies: a step is enabled only while its task is Ready, and a task that
parked and is not woken has none. Nothing is assumed about crashes, errors or power.
In `Net`: weak fairness of client and driver for the same reason, of the device's
transmit queue, and of the arrival of
an answer that is under way while a buffer is posted; none of unsolicited frames.
In `Drivers`: weak fairness of the drivers and the pool's consumer, of a device
that was notified or holds a chain, and of a pending interrupt; clients need not
ask and nobody needs to call `getrandom`. In `System`: strong fairness of the timer's preemption and weak
fairness of resuming, as in `Sched`; and strong fairness of a program's next step
or park, since a program that gets the hart again and again makes its next call.
One condition covers a *rank*, a set of components of which at most one is
started (`UserAssumption`), which keeps the number of conditions small.
`CHECK_DEADLOCK FALSE` appears only in `Memory.cfg` (a boot ends), in
`Drivers.cfg` (the random driver and its consumers come to an end, and a killed
block server leaves its clients waiting), and in the three `Kb` configurations (a
machine whose writer is absent or parked for ever, and whose patients are done, has
nothing left to do).

## 4. What is proved

Every theorem holds for all values of the constants that satisfy the named
assumptions, which TLC evaluates on each run.

### The scheduler

`SchedAssumption` gives the constants their types. `BootAssumption` is what `kmain`
sets up: nobody but the healer has the crash endpoint or a Restart capability, the
badge of a crash selects the capability for the task that crashed, the healer
only receives, the idle task only yields. `ProgramAssumption` is about the
programs and the routing of interrupts: nobody passes a Reply or an Interrupt
capability to `grant`, and each source is handed to one task. (`System` checks the
boot tables; no program in the repository delegates anything but an endpoint.)

| theorem | module | states |
|---|---|---|
| `TypeCorrect`, `OneTaskRuns`, `SuccessorAlways` | `SchedProofs` | `TypeOK`, `OneRunning`, `SuccessorExists` |
| `MessagesNeverOverwritten` | `SchedIpcProofs` | `MessageStable` |
| `RendezvousNeverMissed` | `SchedIpcProofs` | `NoMissedRendezvous` |
| `RestartsOnlyTheDown` | `SchedHealProofs` | `RestartTargetsExited` |
| `RepliesAlwaysNameWaiters` | `SchedHealProofs` | `ReplyCapNamesWaiter` |
| `RepliesFindTheirCaller` | `SchedHealProofs` | a reply finds its caller asleep, or a kernel task about to park |
| `UserRepliesWake` | `SchedHealProofs` | `ReplyWakesCaller`, if no kernel task uses `call_message` |
| `DriversNeverStuck` | `SchedHealProofs` | `IrqNotStuck` |

* **SchedInv** adds to types and `OneRunning` that the idle task is Ready or Running
  and never anywhere but in its program (so a successor exists), that no
  capability names the healer as the target of a restart (so a restart never resets
  the task that asked for it), and that a kernel task in its window is about to park
  in a state other than Running. Underneath are lemmas about `PickNext` (the cyclic
  scan finds a Ready task if there is one), about minting and installing
  capabilities, and about parking.
* `SchedIpcProofs` then has one *effect* lemma per operation: for each task, what
  the operation can do to its state, message and place. Messages follow directly.
  Rendezvous (`MeetInv`) needs that only a kernel task is ever between a
  decision and a park: a user task goes from looking for its partner to sleep in one
  step, so whoever comes second finds the other asleep.
* **HealInv** confines the crash endpoint: nobody but the healer holds it, waits on
  it, or has it in transit, and the healer's Restart capabilities are those of the
  boot. So only crashes wake the healer, the badge it reads is that of a task which
  exited, and as it is the only one who can undo an exit the target is still down
  when it acts (`RestartInv`).
* **ReplyInv** follows a right to reply from the caller field into a capability
  slot. Its uniqueness is what makes the step of a reply go through: the wait it
  ends is not named by any other right. Exits and crashes are where it could
  break: a task that awaits a reply cannot exit, because it does not run.
* `RepliesFindTheirCaller` and `UserRepliesWake` say exactly how far the disagreement
  of run `sched_kernel_call` reaches: a reply is lost only in the window of
  `call_message`, and never when the callers are user tasks.
* **IrqInv**: a source is claimed only while its driver does not wait for it, because
  `wait_irq` completes before it parks, in one step, and the trap that claims wakes
  the one driver there is.

### The knowledge base and its volume

`KbAssumption`: any image of at least one file that fits the directory, any patients,
causes, capacities and thresholds, with `SEEN_MAX` (the largest count its field
holds) not below `ESCALATE_AT`. Any number of power losses, with and without device
errors.

| theorem | module | states |
|---|---|---|
| `OutgoingAlwaysIntact` | `KbStoreProofs` | `OutgoingIntact` |
| `CacheAlwaysCoherent` | `KbStoreProofs` | `CacheCoherent` |
| `VolumeAlwaysSound` | `KbVolumeProofs` | `VolumeSound` |
| `CommittedAlwaysStays` | `KbVolumeProofs` | `CommittedStays` |

* **IoInv** is about the page two kernel tasks share without a lock. There is no
  mutual exclusion to cite; what keeps them apart is that until the loader
  releases the patients nothing is ever counted or latched, so the writer finds
  nothing to do (`TurnInv`). `RequestInv` says, for each client, that its request is the
  one its program counter stands for, that a pending write finds the page as the
  writer left it and the tag cleared, and that an answered request agrees with the
  disk; `LocalInv` gives the types of the locals at each place.
* **KbInv** adds the disk. `VolumeIn(d)` says of a disk what `VolumeSound` says, and
  that the superblock and directory can be read at all. It is not inductive: a step
  writes what the writer prepared several requests ago. `AppendInv` therefore ties
  the writer's locals to the disk: what it read is still there, except for its
  own writes, each of which is on the disk before the next is issued (data, then
  directory, then superblock). A failed write may have landed, hence the two
  alternatives for the block in question. `UpdateInv` orders the three counts of an
  entry (disk, the writer's copy, table), and `TableInv` makes each issue in memory
  stand for one committed entry, at least as far along as the disk: without that
  the in-place update could hit another entry or lower a count. `LoadInv` is the same
  for the loader.
* Each kind of write is one lemma about an arbitrary sound disk (`WriteData`,
  `WriteDirectory`, `WriteSuperblock`, `WriteRecord`): the result is sound and keeps
  what was committed. `CommittedStays` follows from the second half.
* `ImageSound`: what `mkfs` builds is sound. The start of each file is a recursive
  sum over those before it; that it grows is shown by the least counterexample
  (well-foundedness of the naturals), not by induction.

### Memory

`MemoryAssumption` gives the constants their types. `LayoutAssumption` is the memory
map: `kernel.ld` puts the sections of the kernel, the user text and the user data
with the stacks one after the other, page-aligned; the allocator gets the RAM from
`__kernel_end`; registers lie outside RAM, and the UART and the PLIC are not a
component's device. So no page is in two ranges of a space. The kernel's ranges are
neither for user mode nor writable and executable (`map_kernel_sections`). Nothing
is assumed of the stacks and devices of two different components, and a range may be
empty.

| theorem (all in `MemoryProofs`) | states |
|---|---|
| `CounterExact` | `FreeExact` |
| `BootInvariant` | `MemInv`, the inductive invariant below |
| `SpacesIsolated` | `Isolated` |
| `SpacesComplete` | `Complete` |
| `BootAssertions` | `NoAssertionFails` |
| `TablesImplementSpaces` | `ImplementsAddressSpaces` |
| `TablesArePrivate` | `TablesPrivate`: no two spaces share a table, and no page that user mode reaches is a table of any space |

They hold for every size of tables and memory, every layout, every set of components
built in any order, and whatever the frames held before.

* `CounterExact` needs of the invariant only the type of the bitmap and that the
  probe's frame is a managed one, without which `free` could count a frame twice.
* **MemInv** is about the graph that the entries in memory draw over the frames.
  `TreeInv` gives every frame a *place*: nobody's, or the root of a space, or the
  table at one index of the root, or the one at a pair of indices. A root has the
  place of its space, and an entry of a table leads to a frame with the place one
  level down. As a frame has one place, no table is reached twice, whether in one
  space or in two, and a write to a table changes the translation of no other page.
  Frames with a place are allocated, so first fit never hands out a table, and a new
  frame is zeroed, so that linking it adds no translation. DMA frames and the
  probe's frame have no place.
* `WalkInv` says that `map_page`, between two of its steps, stands at the table on the
  path of its address. `BuildInv` says that what is left to map are final parts of the
  ranges of the space, still apart from each other. `SpaceInv` then says of each page
  that it is translated if and only if it is in a range and not left to do, to itself and
  with the flags of its range: the first half gives `Isolated`, the second `Complete`,
  and that a page left to do is not translated yet is why the `remap` assertion holds.
* `ProbeInv` is why `frame_roundtrip` gets its own frame back: first fit took the
  lowest, and nothing is below it when it is free again.
* The step of the invariant has a lemma for each way of changing the tables, about an
  arbitrary assignment of places: a write to a frame of nobody (`WriteFree`), a new root
  (`AddRoot`), a link in a root or below (`Link2`, `Link1`), a leaf (`LeafWrite`). They
  rest on the arithmetic of `Vpn`: two pages with the same three indices are one.
* For the refinement, `MapPageLeaf` is the step that adds a page, `Begin` the one that
  creates a space, and every other step leaves each translation as it was.

### Drivers and random pool

`DriversProofs`, for every index range above 1, every set of clients, blocks,
contents and random words, and machines with any of the two devices:
`CompletionAlwaysSeen` (`CompletionSeen`), `ChainAlwaysStable` (`ChainStable`),
`DriverImplementsStore` (`ImplementsBlockStore`), `DrawsNeverRepeat` (`NoDrawRepeats`).

* **DriversInv** says, per place of the driver, what device and interrupt can be
  doing (`QueueInv`): between requests the device is quiet and its line low; from
  the publication to the sleep the chain is untaken, held, or finished with the
  interrupt pending or claimed; a driver that sleeps has nothing claimed, so the only
  way to be woken is the completion of *this* request. That the interrupt of the
  request before cannot do it is exactly what the acknowledgement before the next
  `wait_irq` is for: without it (the mutant `NoAck`) TLC finds `CompletionSeen`
  violated. `ServerInv` ties the status byte and the header to the request the server
  holds a Reply capability for, which gives the refinement: every step but the
  device's completion, a client's issue and its return is a stutter of `BlockStore`.
  `BlockStore` states no fairness: that requests are answered is `RequestAnswered`,
  which is model-checked.
* **PoolInv**: every draw was made at an earlier position of the present key, or under
  a key with a shorter history; mixing in a seed makes the history longer.

### Network

`NetProofs`, for any set of servers, any number of attempts and of late answers, on a
lossy wire or not: `FrameAlwaysStable` (`FrameStable`), `ReplyNeverSleptOn`
(`NoSleepOnReply`), `AdoptedAlwaysLeased` (`AdoptedIsLeased`), `FactsAlwaysEarned`
(`FactsEarned`).

* **NetInv** counts buffers: the driver posts one per exchange, so the indices of the
  receive queue are the exchange counter or one more, and a frame of this
  exchange has asserted a line that nobody has acknowledged yet (`RingInv`). While
  the driver works for the client, the client waits or is about to park (`CallInv`);
  if the reply came first it waits on, and touches neither queue nor buffer. Every frame under
  way or received is noise or was sent in answer to a question (`WireInv`),
  which the last two theorems turn into what the client may conclude.

The inductive invariants were first checked by TLC on the instances of section 3,
except `MemInv`, which quantifies over all assignments of places to frames: there
TLC checks what follows from it. The proofs of `KbStoreProofs`, `KbVolumeProofs` and
`MemoryProofs` take about twenty minutes each from nothing, those of the scheduler
about ten.

## 5. What is only model-checked

* All liveness properties (`ReadyRuns`, `CrashHealed`, `IrqWakesDriver`,
  `PatientsReleased`, `CountsReachDisk`, `AnsweredOrLost`, `RequestAnswered`,
  `PoolSeeded`, `ComponentsEnd`): liveness under fairness is out of the prover's reach.
* `QuarantineSurvivesReboot`, which the code promises only for a device that reports no
  errors and a table with room for every entry of the directory: an entry the loader
  cannot read or install is unknown to the diagnosis until the next boot. With
  entries recorded twice (section 7) it also depends on the first match of the table
  being the first on the disk. The property asks for such a device; the table of
  the run has that room.
* `DeviceTree`, `Boot`, `Userland` and `System`: the parser is a recursion over the
  tokens, whose result for every input would need induction over data, and the rest
  are facts about given tables and programs, which the runs check in full.

## 6. What is not modelled

* Contents of registers and stacks, the assembly stubs and CSR wrappers, the
  decoding of system call numbers, wording of messages.
* Bytes: the layout of the device tree, of frames and of on-disk records, and
  checksums; a model value has what the code compares.
* The ciphers and ML-KEM (external libraries), and the nonce counter of the
  channel, which is advanced inside one system call with interrupts off.
* The shell and the console.
* The deadline arithmetic of the timer: a tick may come at any interruptible point.
* `SingleHartCell`: a closure is one step. `recv_message`, `call_message` and the
  pool's `reseed` can enter a cell with interrupts on. A tick inside a closure of
  the scheduler's cell, or a `getrandom` of a task that preempts `reseed`, would
  meet the re-entrancy assertion. The models show what happens when neither does.
* The moment between `timer::start`, which enables interrupts, and `enter`: a tick
  there would preempt `kmain` as if it were task 0.

## 7. Disagreements found

| run | says | does |
|---|---|---|
| `sched_crash_dropped` | the healer drains a crash before another can occur | a tick before its restart lets another patient crash, which is left down |
| `sched_kernel_call` | parking happens with interrupts off | `call_message` publishes the caller, then parks; a reply in between is lost and the caller waits for ever |
| `kb_novel_lost` | an unknown cause is latched until drained | a crash between the read and the clear of the mailbox is lost |

Others have no run of their own.

* **Recorded twice.** The writer empties the mailbox several disk requests before
  it installs the new entry; a second crash with the same cause meanwhile is
  recorded again. `heal.rs:127`: "a token is recorded at most once".
* **The tenant is not refused.** A tick between the lease server's reply
  (`main.rs:1129`) and its revocation (1130) lets the tenant's second call queue
  while its capability is good. Revocation does not wake it, the server exits, and
  the tenant waits for ever; `main.rs:1136` says "the second fails because its cap
  was revoked in between". `ComponentsEnd` names this as `Abandoned`.
* **The gate.** The window of `call_message` has a second consequence: the loader
  is preempted after it decided to queue its call, a patient starts to receive,
  and both wait side by side. `ComponentsEnd` and `PatientsReleased` name it as
  `GateStuck`. The same window can leave the loader or the writer waiting for the
  block server (`BlkStuck` in `PatientsReleased` and `CountsReachDisk`), the network
  client waiting for its driver (`CallMissed` in `AnsweredOrLost`), and, in
  `recv_message`, the consumer of the seeds waiting beside their sender (`MissedSend`
  in `PoolSeeded`). The properties show that there is no other way to wait for ever.
* **Interrupt bit.** `park_current` does not restore it, so a kernel task resumed
  after a park keeps that of whoever switched to it (`sie` in `Sched`); a plan
  says a task always runs with interrupts enabled.
* **Lost frames.** The comment in `net_component` says its sixteen attempts make a
  missing reply an answer of 0, but an attempt is a wake-up: when the frame is lost
  nothing wakes the driver a second time, and it waits for ever, which is why
  `AnsweredOrLost` has to say "or lost".
* **The last index.** `blk_req` adds one to a 16-bit index with a checked addition
  beside the server's wrapping one: a debug build loses the block server after
  65535 requests, which is the exception in `RequestAnswered`.
* **Device tree.** The end of a parent node commits its last child again, which can
  use up a virtio slot; a missing PLIC yields base 0, though the comment at
  `dt.rs:63` promises `None` on any missing value, and `kmain` faults at its first
  driver; a virtio node without an
  interrupt gets IRQ 0, so the `expect` for a missing one cannot fire.
  `ParseFaithful` and `DriverOwnsDevice` state what holds instead.
* **Grants.** `grant` copies any capability; if a program delegated a Reply
  capability (none does), the copy would outlive the reply, so the instances
  restrict `Delegable` to endpoints. `recv_message` leaves the `pending_grant` of a
  queued granter set, and `revoke_endpoint` does not visit one that is in transit.
* **Seeding order.** `main.rs:234` says the user of `getrandom` runs after the pool
  is seeded; nothing orders the two, and an unseeded pool fills zeros. So
  `NoDrawRepeats` speaks of the seeded pool only.
* **PLIC.** The header of `plic.rs` says the enable bit is toggled per interrupt;
  the code enables a source once and holds it off by the claim. `rtc_server`
  hard-codes the RTC's address instead of the one from the device tree.
* **Spawn order.** `main.rs:268` says the block server is spawned before its client;
  `kb` is spawned first. Nothing depends on it.

## 8. Open

* An abstract specification of call and reply that `Sched` implements for programs
  that do not delegate Reply capabilities.
* The cells at the grain of single instructions, with their assertion.
