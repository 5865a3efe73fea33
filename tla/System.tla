------------------------------ MODULE System ------------------------------
(***************************************************************************)
(* The machine from power-on: the firmware's device tree is parsed         *)
(* (DeviceTree), kmain builds the task and capability tables from it       *)
(* (Boot), and the components run on those tables (Userland).  The         *)
(* scheduler's constants are the tables kmain builds for Reference.        *)
(*                                                                         *)
(* A board is what the firmware describes: memory, the cpus and an RTC,    *)
(* then the nodes of tail, of which those from bus.first to bus.last sit   *)
(* on a bus of their own.  A node's address is its position.  Device nodes *)
(* are leaves, and every reg is written with the root's cells.             *)
(***************************************************************************)
EXTENDS Userland, Boot

CONSTANTS
    Boards,
    Reference, ReferenceIds     \* the board whose tables the scheduler's constants are

VARIABLES
    board,      \* what the firmware describes
    phase,      \* "firmware", "parsed", "entered" or "panic"
    machine,    \* MachineInfo
    ids,        \* what the DeviceID register at each virtio base reads
    kernel      \* the tables kmain built

bootVars == <<board, phase, machine, ids, kernel>>

DeviceIds == {"rng", "blk", "net", "empty"}

Leaves(b) ==
    SelectSeq(<<"memory", "cpus", "rtc">>, LAMBDA kind : kind # b.missing) \o b.tail

(* The device a node is compatible with: a "mute" virtio node names no     *)
(* interrupt.                                                              *)
Device(kind) == IF kind = "mute" THEN "virtio" ELSE kind

(* The tokens of the node at position i.  The PLIC is also an interrupt    *)
(* parent and carries its own #address-cells.                              *)
LeafTokens(b, i) ==
    LET kind == Leaves(b)[i]
        reg == Prop("reg", Reg(i, b.cells, 2 * b.cells))
        irq == IF kind = "mute" THEN << >> ELSE <<Prop("interrupts", i)>>
    IN  CASE kind = "memory" -> <<Begin("memory"), reg, EndOfNode>>
          [] kind = "cpus" -> <<Begin("cpus"), Prop("timebase-frequency", i), EndOfNode>>
          [] kind = "plic" ->
                <<Begin("plic"), reg, Prop("compatible", kind), Prop("#address-cells", 0), EndOfNode>>
          [] OTHER -> <<Begin("device")>> \o irq
                          \o <<reg, Nop, Prop("compatible", Device(kind)), EndOfNode>>

(* The blob of a board; truncated, it lacks its last token.                *)
Blob(b) ==
    LET n == Len(Leaves(b))
        offset == n - Len(b.tail)
        leaf(i) == (IF i = offset + b.bus.first THEN <<Begin("soc")>> ELSE << >>)
                       \o LeafTokens(b, i)
                       \o (IF i = offset + b.bus.last THEN <<EndOfNode>> ELSE << >>)
        whole == <<Begin("root"), Prop("#address-cells", b.cells), Prop("#size-cells", b.cells)>>
                     \o FlattenSeq([i \in 1 .. n |-> leaf(i)]) \o <<EndOfNode, EndOfBlob>>
    IN  CASE b.damage = "none" -> whole
          [] b.damage = "truncated" -> Front(whole)
          [] b.damage = "unknown" -> <<[tok |-> "unknown"]>> \o whole
          [] b.damage = "unbalanced" -> <<EndOfNode>> \o whole

-----------------------------------------------------------------------------
(* from_ptr, which panics when parse finds no machine.                     *)
ParseTree ==
    /\ phase = "firmware"
    /\ machine' = Parse(Blob(board))
    /\ phase' = IF machine' = None THEN "panic" ELSE "parsed"
    /\ UNCHANGED <<board, ids, kernel, allVars>>

(* The rest of kmain, whatever devices answer at the virtio bases.         *)
BuildTables ==
    /\ phase = "parsed"
    /\ ids' \in [{s.base : s \in ToSet(machine.virtio)} -> DeviceIds]
    /\ kernel' = Kmain(machine, ids')
    /\ phase' = IF kernel'.panic THEN "panic" ELSE "entered"
    /\ UNCHANGED <<board, machine, allVars>>

(* The panic handler parks the hart.                                       *)
Park == phase = "panic" /\ UNCHANGED <<bootVars, allVars>>

Run == phase = "entered" /\ UserNext /\ UNCHANGED bootVars

(* Either a board is booted, with no component of Reference started, or    *)
(* Reference has been and a group of its components is about to start.     *)
SystemInit ==
    /\ machine = None /\ ids = << >> /\ kernel = None
    /\ \/ board \in Boards /\ phase = "firmware" /\ Start({})
       \/ board = None /\ phase = "entered" /\ UserInit

SystemNext == ParseTree \/ BuildTables \/ Park \/ Run

SystemSpec == SystemInit /\ [][SystemNext]_<<bootVars, allVars>>
FairSystemSpec == SystemSpec /\ UserFairness

-----------------------------------------------------------------------------
(* Properties.                                                             *)

Positions(b, devices) == {i \in 1 .. Len(Leaves(b)) : Device(Leaves(b)[i]) \in devices}
NodeIrq(b, i) == IF Leaves(b)[i] = "mute" THEN 0 ELSE i

(* s without the repetitions of an element right after itself.             *)
Runs(s) == [j \in {i \in DOMAIN s : i = 1 \/ s[i] # s[i - 1]} |-> s[j]]

(* The parser finds in any tree what is there: it fails exactly on a       *)
(* malformed blob or a missing memory, timebase, UART or RTC; it takes the *)
(* first UART and RTC and the last PLIC; the state it buffers per node     *)
(* never leaks into another; and the virtio slots are nodes of the tree,   *)
(* in order, each with its own IRQ.  A slot may repeat its predecessor     *)
(* (the end of a bus commits its last device again), but until the slots   *)
(* are full none is left out.                                              *)
ParseFaithful ==
    LET at_(devices) == Positions(board, devices)
        virtio == SetToSortSeq(at_({"virtio"}), <)
        node(i) == [base |-> i, irq |-> NodeIrq(board, i)]
        slots == machine.virtio
        kept == SetToSortSeq(DOMAIN Runs(slots), <)
    IN
    phase \in {"parsed", "panic"} =>
        /\ machine = None <=>
              \/ board.damage # "none"
              \/ \E device \in {"memory", "cpus", "rtc", "uart"} : at_({device}) = {}
        /\ machine # None =>
              /\ machine.uart.base = LowestSlot(at_({"uart"}))
              /\ machine.uart.irq = machine.uart.base
              /\ machine.rtc = LowestSlot(at_({"rtc"}))
              /\ machine.ram \in at_({"memory"}) /\ machine.timebase \in at_({"cpus"})
              /\ machine.plic = IF at_({"plic"}) = {} THEN 0
                                ELSE CHOOSE i \in at_({"plic"}) : \A j \in at_({"plic"}) : j <= i
              /\ \A k \in 1 .. Len(kept) : slots[kept[k]] = node(virtio[k])
              /\ Len(slots) < VIRTIO_SLOTS => Len(kept) = Len(virtio)

TaskNames == {kernel.tasks[i].name : i \in DOMAIN kernel.tasks}
Drivers == {d \in {"entropy", "blk", "net"} : d \in TaskNames}
TaskOf(name) == kernel.tasks[Position(kernel.tasks, name)]
DriverId(name) == IF name = "entropy" THEN "rng" ELSE name

(* A driver is started exactly when its device answers at a slot, and it   *)
(* gets that device: its registers are mapped and passed to it, it holds   *)
(* the capability for that node's interrupt, and the interrupt is routed   *)
(* at the tree's PLIC.  No other task has the page, or the interrupt if    *)
(* the node names one.                                                     *)
DriverOwnsDevice ==
    phase = "entered" /\ board # None =>
        /\ {DriverId(d) : d \in Drivers} = {ids[b] : b \in DOMAIN ids} \ {"empty"}
        /\ \A d \in Drivers :
              LET base == TaskOf(d).base
                  irq == NodeIrq(board, base)
              IN  /\ ids[base] = DriverId(d)
                  /\ TaskOf(d).page = base
                  /\ TaskOf(d).caps[1] = Interrupt(irq)
                  /\ irq \in kernel.enabled /\ kernel.plics = {machine.plic}
                  /\ \A t \in TaskNames \ {d} :
                        /\ TaskOf(t).page # base
                        /\ irq # 0 => \A s \in Slots : TaskOf(t).caps[s] # Interrupt(irq)

(* The reply and grant slots a program names in its calls.                 *)
NamedSlots(name) ==
    {Code(name, 0)[i].arg : i \in {j \in DOMAIN Code(name, 0) : Code(name, 0)[j].op = "recv"}}

(* The tables are the ones the scheduler's constants hold.                 *)
Handover ==
    /\ Len(kernel.tasks) = MAX_TASKS /\ Irqs = kernel.enabled
    /\ \A t \in Tasks :
          LET task == kernel.tasks[t + 1]
          IN  /\ task.name = Name[t] /\ task.caps = InitCaps[t] /\ task.badge = CrashBadge[t]
              /\ task.mode = "spawn" <=> t \in KernelTasks
    /\ Name[Healer] = "healer" /\ Name[Idle] = "idle"

(* Whatever devices there are, the tables are ones the scheduler is right  *)
(* for: they fit the task table, names are unique, the idle task is last,  *)
(* only the healer holds the crash endpoint and Restart capabilities, and  *)
(* each of those is for the task that crashes with that badge.  And they   *)
(* fit the programs: what a program receives never overwrites a capability *)
(* it was started with, every endpoint has a holder to receive and one to  *)
(* send, and a client is never started without its server.                 *)
TablesSound ==
    phase = "entered" /\ board # None =>
        /\ Len(kernel.tasks) <= TASK_SLOTS /\ Cardinality(TaskNames) = Len(kernel.tasks)
        /\ Last(kernel.tasks).name = "idle" /\ Last(kernel.tasks).mode = "spawn"
        /\ \A t \in TaskNames, s \in Slots :
              LET cap == TaskOf(t).caps[s]
              IN  /\ cap = Endpoint(CRASH_EP) <=> t = "healer" /\ s = CRASH_CAP
                  /\ cap.kind = "Restart" =>
                        /\ t = "healer"
                        /\ LET p == kernel.tasks[cap.obj + 1]
                           IN  p.mode = "spawn_user" /\ p.name # "healer" /\ p.badge = s
                  /\ s \in NamedSlots(t) => cap = NoCap
                  /\ cap.kind = "Endpoint" /\ cap.obj # CRASH_EP =>
                        \E u \in TaskNames \ {t}, r \in Slots : TaskOf(u).caps[r] = cap
        /\ \A t \in TaskNames : TaskOf(t).badge # 0 =>
              TaskOf("healer").caps[TaskOf(t).badge] = Restart(SlotOf(kernel.tasks, t))
        /\ board = Reference /\ ids = ReferenceIds => Handover
=============================================================================
