------------------------------- MODULE Boot -------------------------------
(***************************************************************************)
(* kmain (kernel/src/main.rs): what it makes of the machine the device     *)
(* tree describes, from the search for the virtio devices to the task and  *)
(* capability tables the scheduler starts with and the interrupts that are *)
(* routed.  kmain runs with interrupts off until it starts the timer, so   *)
(* it is its calls one after the other.  Frames and page tables are in     *)
(* Memory.                                                                 *)
(***************************************************************************)
EXTENDS Sched, DeviceTree

CONSTANTS
    TASK_SLOTS,                                             \* MAX_TASKS of sched.rs
    EP0, ENTROPY_EP, DEFER_EP, BLK_EP, GATE_EP, GRANT_EP,
    LEASE_EP, CHAN_EP, NET_EP                               \* endpoint ids

(* The calls of kmain, each with the task it is about.  page is the device *)
(* page mapped into a task, and the argument of SetLaunchArgs tells a      *)
(* driver its registers.                                                   *)
Call(call, name, slt, val) == [call |-> call, name |-> name, slot |-> slt, val |-> val]
SpawnUser(name, page) == Call("spawn_user", name, 0, page)
SpawnKernel(name) == Call("spawn", name, 0, None)
GrantCap(name, slt, cap) == Call("grant", name, slt, cap)
SetCrashBadge(name, badge) == Call("badge", name, 0, badge)
SetLaunchArgs(name, base) == Call("args", name, 0, base)

(* plic::init, set_priority and enable, then sie_enable_external.          *)
RouteIrq(name, plic, irq) == Call("route", name, 0, [plic |-> plic, irq |-> irq])

(* spawn and spawn_user take the first free slot; slots count from 0.      *)
Spawns(ops) == SelectSeq(ops, LAMBDA o : o.call \in {"spawn", "spawn_user"})
Position(tasks, name) == Min({i \in DOMAIN tasks : tasks[i].name = name})
SlotOf(tasks, name) == Position(tasks, name) - 1

(* What the last call of a kind for a task and slot set, if there was one. *)
Latest(ops, call, name, slt, default) ==
    LET calls == SelectSeq(ops, LAMBDA o : o.call = call /\ o.name = name /\ o.slot = slt)
    IN  IF calls = << >> THEN default ELSE Last(calls).val

(* A Restart capability is granted by the task's name, and holds its slot. *)
Granted(ops, name, slt) ==
    LET cap == Latest(ops, "grant", name, slt, NoCap)
    IN  IF cap.kind = "Restart" THEN Restart(SlotOf(Spawns(ops), cap.obj)) ELSE cap

SpawnedTask(ops, spawn) ==
    [name |-> spawn.name, mode |-> spawn.call, page |-> spawn.val,
     base |-> Latest(ops, "args", spawn.name, 0, None),
     caps |-> [s \in Slots |-> Granted(ops, spawn.name, s)],
     badge |-> Latest(ops, "badge", spawn.name, 0, 0)]

(* The kernel after these calls; it panics on a full task table, on the    *)
(* expect of an interrupt that is not found, or on the page fault of       *)
(* plic::init when the tree has no PLIC: a base of 0 is not mapped.        *)
Execute(ops) ==
    LET routes == {o.val : o \in {r \in ToSet(ops) : r.call = "route"}}
    IN  [tasks |-> [i \in DOMAIN Spawns(ops) |-> SpawnedTask(ops, Spawns(ops)[i])],
         plics |-> {r.plic : r \in routes},
         enabled |-> {r.irq : r \in routes},
         panic |-> Len(Spawns(ops)) > TASK_SLOTS \/ \E r \in routes : r.irq = None \/ r.plic = 0]

-----------------------------------------------------------------------------
(* The RTC server, and the delegation of its endpoint.                     *)
SpawnRtc(m) ==
    << SpawnUser("rtc", m.rtc), GrantCap("rtc", 0, Endpoint(EP0)),
       SpawnUser("needy", None), GrantCap("needy", 0, Endpoint(GRANT_EP)),
       SpawnUser("broker", None), GrantCap("broker", 0, Endpoint(GRANT_EP)),
       GrantCap("broker", 1, Endpoint(EP0)) >>

SpawnLease ==
    << SpawnUser("lease", None), GrantCap("lease", 0, Endpoint(LEASE_EP)),
       SpawnUser("tenant", None), GrantCap("tenant", 0, Endpoint(LEASE_EP)) >>

SpawnChannel ==
    << SpawnUser("opener", None), GrantCap("opener", 0, Session),
       GrantCap("opener", 1, Endpoint(CHAN_EP)),
       SpawnUser("sealer", None), GrantCap("sealer", 0, Session),
       GrantCap("sealer", 1, Endpoint(CHAN_EP)),
       SpawnUser("nocap", None), SpawnUser("rogue", None) >>

(* Mutant: the Restart capabilities are in the slots of the other badge.  *)
SpawnPatientsSwapped ==
    << SpawnUser("healer", None), GrantCap("healer", CRASH_CAP, Endpoint(CRASH_EP)),
       SpawnUser("transient", None), GrantCap("healer", 2, Restart("transient")),
       SetCrashBadge("transient", 1), GrantCap("transient", 0, Endpoint(GATE_EP)),
       SpawnUser("flaky", None), GrantCap("healer", 1, Restart("flaky")),
       SetCrashBadge("flaky", 2), GrantCap("flaky", 0, Endpoint(GATE_EP)),
       SpawnUser("novel", None), GrantCap("novel", 0, Endpoint(GATE_EP)) >>

SpawnPatients ==
    << SpawnUser("healer", None), GrantCap("healer", CRASH_CAP, Endpoint(CRASH_EP)),
       SpawnUser("transient", None), GrantCap("healer", 1, Restart("transient")),
       SetCrashBadge("transient", 1), GrantCap("transient", 0, Endpoint(GATE_EP)),
       SpawnUser("flaky", None), GrantCap("healer", 2, Restart("flaky")),
       SetCrashBadge("flaky", 2), GrantCap("flaky", 0, Endpoint(GATE_EP)),
       SpawnUser("novel", None), GrantCap("novel", 0, Endpoint(GATE_EP)) >>

(* A driver is spawned only when its device was found.                     *)
SpawnEntropy(m, rng) ==
    LET irq == IrqForBase(m.virtio, rng)
    IN  IF rng = None THEN << >>
        ELSE << SpawnKernel("pqc"), GrantCap("pqc", 0, Endpoint(ENTROPY_EP)),
                SpawnUser("entropy", rng), GrantCap("entropy", 0, Endpoint(ENTROPY_EP)),
                SetLaunchArgs("entropy", rng), RouteIrq("entropy", m.plic, irq),
                GrantCap("entropy", 1, Interrupt(irq)) >>

SpawnClients ==
    << SpawnUser("rnguser", None), GrantCap("rnguser", 0, Randomness),
       SpawnUser("deferrer", None), GrantCap("deferrer", 0, Endpoint(DEFER_EP)),
       SpawnUser("dclientA", None), GrantCap("dclientA", 0, Endpoint(DEFER_EP)),
       SpawnUser("dclientB", None), GrantCap("dclientB", 0, Endpoint(DEFER_EP)),
       SpawnKernel("kb"), GrantCap("kb", 1, Endpoint(GATE_EP)) >>

SpawnBlk(m, blk) ==
    LET irq == IrqForBase(m.virtio, blk)
    IN  IF blk = None THEN << >>
        ELSE << SpawnUser("blk", blk), GrantCap("blk", 0, Endpoint(BLK_EP)),
                GrantCap("blk", 1, Interrupt(irq)), SetLaunchArgs("blk", blk),
                RouteIrq("blk", m.plic, irq), GrantCap("kb", 0, Endpoint(BLK_EP)),
                SpawnKernel("kbw"), GrantCap("kbw", 0, Endpoint(BLK_EP)) >>

SpawnNet(m, net) ==
    LET irq == IrqForBase(m.virtio, net)
    IN  IF net = None THEN << >>
        ELSE << SpawnUser("net", net), GrantCap("net", 0, Endpoint(NET_EP)),
                GrantCap("net", 1, Interrupt(irq)), SetLaunchArgs("net", net),
                RouteIrq("net", m.plic, irq), SpawnKernel("netcli"),
                GrantCap("netcli", 0, Endpoint(NET_EP)) >>

SpawnLast == << SpawnKernel("shell"), SpawnKernel("idle") >>

(* kmain, from the parsed tree m and the device ids its slots answer with. *)
Kmain(m, ids) ==
    Execute(SpawnRtc(m) \o SpawnLease \o SpawnChannel \o SpawnPatients
                \o SpawnEntropy(m, FindDevice(m.virtio, ids, "rng")) \o SpawnClients
                \o SpawnBlk(m, FindDevice(m.virtio, ids, "blk"))
                \o SpawnNet(m, FindDevice(m.virtio, ids, "net")) \o SpawnLast)
=============================================================================
