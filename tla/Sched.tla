------------------------------- MODULE Sched -------------------------------
(***************************************************************************)
(* The scheduler of the kernel and everything that moves its task table:   *)
(* round-robin selection, preemption by the timer, exit and crash, the     *)
(* synchronous IPC operations over capability tables, the caged restart    *)
(* the user-space healer asks for, and the interrupt path through the      *)
(* PLIC (arch/riscv64/src/sched.rs with cap.rs, task.rs, trap.rs,          *)
(* syscall.rs and plic.rs).                                                *)
(*                                                                         *)
(* The machine has one hart.  A system call of a U-mode task runs in the   *)
(* trap handler with interrupts off, so each one is a single step, up to   *)
(* the context switch it may end in; what the handler does after that      *)
(* switch returns is a step of its own (Resume).  S-mode kernel tasks call *)
(* the scheduler outside any trap, with interrupts on or off (sie), so     *)
(* their blocking operations are two steps with an interrupt window        *)
(* between them.                                                           *)
(*                                                                         *)
(* A refused call (bad capability) only writes the caller's a0, which the  *)
(* model does not hold, and is therefore a stuttering step.                *)
(***************************************************************************)
EXTENDS Naturals, FiniteSets

CONSTANTS
    MAX_TASKS,      \* number of occupied slots; a slot is 0 .. MAX_TASKS - 1
    CAP_SLOTS,      \* capability slots per task
    MAX_RESTARTS,   \* restarts granted per task before the kernel gives up
    KernelTasks,    \* the slots created by spawn (S-mode)
    Idle,           \* the kernel task that never blocks and never exits
    Healer,         \* the user task that runs healer_task
    CRASH_EP,       \* the endpoint crashes are reported on
    CRASH_CAP,      \* the healer's capability slot for CRASH_EP
    Endpoints,
    Irqs,
    InitCaps,       \* the capability tables kmain builds before enter
    CrashBadge,     \* the crash_badge of each task
    Program,        \* the calls each task's program contains
    Delegable,      \* the kinds of capability programs pass to grant
    Nil             \* Rust's None

Tasks == 0 .. MAX_TASKS - 1
UserTasks == Tasks \ KernelTasks
Slots == 0 .. CAP_SLOTS - 1

(* An index the capability-table bounds check rejects.                     *)
SlotArgs == 0 .. CAP_SLOTS

(* Calls a program may contain: the system calls, "fault" for an access or *)
(* instruction that traps, and the in-kernel calls of S-mode tasks.        *)
Calls == {"yield", "exit", "fault", "send", "recv", "call", "reply",
          "grant", "revoke", "wait_irq", "recv_message", "call_message"}

-----------------------------------------------------------------------------
(* Task states and capabilities, as records of one shape each.             *)

TaskState(tag, on, role) == [tag |-> tag, on |-> on, role |-> role]
Ready == TaskState("Ready", Nil, Nil)
Running == TaskState("Running", Nil, Nil)
Exited == TaskState("Exited", Nil, Nil)
AwaitingReply == TaskState("AwaitingReply", Nil, Nil)
Blocked(ep, role) == TaskState("Blocked", ep, role)
WaitingIrq(irq) == TaskState("WaitingIrq", irq, Nil)

TaskStates ==
    {Ready, Running, Exited, AwaitingReply}
        \cup {Blocked(ep, role) : ep \in Endpoints, role \in {"Send", "Recv", "Call"}}
        \cup {WaitingIrq(irq) : irq \in Irqs}

Capability(kind, obj) == [kind |-> kind, obj |-> obj]
NoCap == Capability("None", Nil)
Endpoint(ep) == Capability("Endpoint", ep)
Reply(caller) == Capability("Reply", caller)
Restart(task) == Capability("Restart", task)
Interrupt(irq) == Capability("Interrupt", irq)
Randomness == Capability("Randomness", Nil)
Session == Capability("Session", Nil)

Caps ==
    {NoCap, Randomness, Session}
            \cup {Endpoint(ep) : ep \in Endpoints}
            \cup {Reply(t) : t \in Tasks}
            \cup {Restart(t) : t \in UserTasks}
            \cup {Interrupt(irq) : irq \in Irqs}

(* A message is told apart by who wrote it; a crash notification (from     *)
(* the kernel) also by its badge, which the healer acts on.                *)
Message(from, badge) == [from |-> from, badge |-> badge]
Messages == [from : Tasks \cup {Nil}, badge : SlotArgs]

(* What kmain sets up before the scheduler starts: only the healer holds   *)
(* the crash endpoint and Restart capabilities, nobody starts with a Reply *)
(* capability, and a patient's badge leads to its own Restart capability.  *)
ASSUME SchedAssumption ==
    /\ MAX_TASKS \in Nat \ {0} /\ CAP_SLOTS \in Nat \ {0} /\ MAX_RESTARTS \in Nat
    /\ KernelTasks \subseteq Tasks /\ Idle \in KernelTasks
    /\ Healer \in UserTasks
    /\ CRASH_EP \in Endpoints /\ CRASH_CAP \in Slots
    /\ InitCaps \in [Tasks -> [Slots -> Caps]]
    /\ CrashBadge \in [Tasks -> SlotArgs]
    /\ Program \in [Tasks -> SUBSET Calls]
    /\ Nil \notin Nat \cup Endpoints \cup Irqs

ASSUME BootAssumption ==
    /\ \A t \in Tasks, s \in Slots :
          /\ InitCaps[t][s].kind # "Reply"
          /\ t # Healer => /\ InitCaps[t][s] # Endpoint(CRASH_EP)
                           /\ InitCaps[t][s].kind # "Restart"
    /\ \A s \in Slots : InitCaps[Healer][s].kind = "Restart" =>
          /\ InitCaps[Healer][s].obj # Healer
          /\ \A t \in UserTasks : CrashBadge[t] = s => InitCaps[Healer][s].obj = t
    /\ InitCaps[Healer][CRASH_CAP] = Endpoint(CRASH_EP)
    /\ Program[Healer] \subseteq {"recv"}
    /\ Program[Idle] \subseteq {"yield"}
    /\ \A t \in UserTasks : Program[t] \cap {"recv_message", "call_message"} = {}

(* Each interrupt source is handed to one driver, and the programs pass    *)
(* neither it nor a Reply capability to grant.                             *)
ASSUME ProgramAssumption ==
    /\ Delegable \cap {"Reply", "Interrupt"} = {}
    /\ \A t, u \in Tasks : \A s, p \in Slots :
          InitCaps[t][s].kind = "Interrupt" /\ InitCaps[t][s] = InitCaps[u][p] => t = u

VARIABLES
    current,        \* the running slot
    state,          \* TaskState of each task
    caps,           \* capability table of each task
    message,        \* message buffer of each task
    caller,         \* the caller a woken receiver must mint a Reply for
    pendingGrant,   \* the capability in transit through a task
    restarts,       \* restarts granted to each task
    at,             \* where a task continues when it next runs, see Ats
    slot,           \* the reply_slot argument of a recv in progress
    parkAs,         \* the state a kernel task is about to park in
    sie,            \* sstatus.SIE while a kernel task runs
    verdict,        \* the badge healer_task received and has not acted on
    leftDown,       \* tasks reported as "no healer ready (left down)"
    line,           \* device interrupt lines that are asserted
    pending,        \* interrupts pending at the PLIC
    claimed         \* interrupts claimed and not completed

schedVars == <<current, state>>
ipcVars == <<caps, message, caller, pendingGrant, slot>>
kernVars == <<parkAs, sie>>
healVars == <<restarts, verdict, leftDown>>
plicVars == <<line, pending, claimed>>
vars == <<schedVars, ipcVars, at, kernVars, healVars, plicVars>>

(* "run": in its program.  "recv": in ipc_recv, past the park.  "msg": in  *)
(* an operation whose rest only reads its message.  "park": a kernel task  *)
(* that left SCHED.with and is about to call park_current.                 *)
Ats == {"run", "recv", "msg", "park"}

TypeOK ==
    /\ current \in Tasks
    /\ state \in [Tasks -> TaskStates]
    /\ caps \in [Tasks -> [Slots -> Caps]]
    /\ message \in [Tasks -> Messages]
    /\ caller \in [Tasks -> Tasks \cup {Nil}]
    /\ pendingGrant \in [Tasks -> Caps]
    /\ restarts \in [Tasks -> 0 .. MAX_RESTARTS]
    /\ at \in [Tasks -> Ats]
    /\ slot \in [Tasks -> SlotArgs]
    /\ parkAs \in [Tasks -> TaskStates]
    /\ sie \in [KernelTasks -> BOOLEAN]
    /\ verdict \in SlotArgs \cup {Nil}
    /\ leftDown \subseteq UserTasks
    /\ line \subseteq Irqs /\ pending \subseteq Irqs /\ claimed \subseteq Irqs

Init ==
    /\ current = 0
    /\ state = [t \in Tasks |-> IF t = current THEN Running ELSE Ready]
    /\ caps = InitCaps
    /\ message = [t \in Tasks |-> Message(Nil, 0)]
    /\ caller = [t \in Tasks |-> Nil]
    /\ pendingGrant = [t \in Tasks |-> NoCap]
    /\ restarts = [t \in Tasks |-> 0]
    /\ at = [t \in Tasks |-> "run"]
    /\ slot = [t \in Tasks |-> 0]
    /\ parkAs = [t \in Tasks |-> Ready]
    /\ sie = [k \in KernelTasks |-> TRUE]
    /\ verdict = Nil
    /\ leftDown = {}
    /\ line = {} /\ pending = {} /\ claimed = {}

-----------------------------------------------------------------------------
(* Selection and switching.                                                *)

LowestSlot(S) == CHOOSE t \in S : \A u \in S : t <= u

(* Mutant: a receiver that was woken but has not run is still found.       *)
WaitingOrWoken(ep, role) ==
    {t \in Tasks : \/ state[t] = Blocked(ep, role)
                   \/ role = "Recv" /\ at[t] \in {"recv", "msg"} /\ state[t] = Ready}

(* The slots that are blocked on an endpoint in a role; find_blocked       *)
(* returns the lowest.                                                     *)
Waiting(ep, role) == {t \in Tasks : state[t] = Blocked(ep, role)}

(* Mutants: the scan stops one slot early; the scan starts at slot 0.      *)
PickNextShort(cur, st) ==
    LET ready == {k \in 1 .. MAX_TASKS - 2 : st[(cur + k) % MAX_TASKS] = Ready}
    IN  IF ready = {} THEN cur ELSE (cur + LowestSlot(ready)) % MAX_TASKS
PickNextLowest(cur, st) ==
    LET ready == {t \in Tasks \ {cur} : st[t] = Ready}
    IN  IF ready = {} THEN cur ELSE LowestSlot(ready)

(* Round robin: the first Ready slot after cur, else cur.                  *)
PickNext(cur, st) ==
    LET ready == {k \in 1 .. MAX_TASKS - 1 : st[(cur + k) % MAX_TASKS] = Ready}
    IN  IF ready = {} THEN cur ELSE (cur + LowestSlot(ready)) % MAX_TASKS

(* Leave the current task in st[current] and run next.                     *)
SwitchTo(next, st) ==
    /\ next # current
    /\ state' = [st EXCEPT ![next] = Running]
    /\ current' = next

(* Mutant: the parking task is not taken out of Running.                   *)
ParkCurrentRunning(as, st) == SwitchTo(PickNext(current, st), st)

(* park_current: st is the table after the operation's other changes.      *)
ParkCurrent(as, st) ==
    LET parked == [st EXCEPT ![current] = as]
    IN  SwitchTo(PickNext(current, parked), parked)

InProgram(call) == at[current] = "run" /\ call \in Program[current]
InUser(call) == current \in UserTasks /\ InProgram(call)

(* An interrupt is taken from U-mode, or from a kernel task with SIE set.  *)
Interruptible ==
    IF current \in KernelTasks THEN sie[current] /\ at[current] \in {"run", "park"}
                               ELSE at[current] = "run"

(* yield_now: a no-op when no other task is Ready.                         *)
YieldNow ==
    /\ LET next == PickNext(current, state)
       IN  \/ SwitchTo(next, [state EXCEPT ![current] = Ready])
           \/ next = current /\ UNCHANGED schedVars
    /\ UNCHANGED <<ipcVars, at, kernVars, healVars, plicVars>>

(* The Yield system call, and a kernel task's own call of yield_now.       *)
Yield == InProgram("yield") /\ YieldNow

(* The timer interrupt: on_tick, then preempt.                             *)
Tick == Interruptible /\ YieldNow

-----------------------------------------------------------------------------
(* Capability tables.                                                      *)

EndpointCaps(t) == {i \in Slots : caps[t][i].kind = "Endpoint"}

(* mint_reply_cap and install_cap: a slot out of range drops the cap.      *)
InstallCap(tables, t, s, cap) ==
    IF cap # NoCap /\ s \in Slots THEN [tables EXCEPT ![t][s] = cap] ELSE tables

(* Mutant: minting without asking whether there is a caller.               *)
MintReplyUnchecked(tables, t, s, c) == InstallCap(tables, t, s, Reply(c))

MintReply(tables, t, s, c) ==
    InstallCap(tables, t, s, IF c = Nil THEN NoCap ELSE Reply(c))

TakeGrant(t) == pendingGrant' = [pendingGrant EXCEPT ![t] = NoCap]

TakeCaller(t) == caller' = [caller EXCEPT ![t] = Nil]

(* Mutant: a Reply capability survives its use.                            *)
KeepReplyCap(i) == i \in Slots /\ UNCHANGED caps

ConsumeReplyCap(i) == caps' = [caps EXCEPT ![current][i] = NoCap]

RevokeInCaps(table, ep) ==
    [s \in Slots |-> IF table[s] = Endpoint(ep) THEN NoCap ELSE table[s]]

-----------------------------------------------------------------------------
(* The rest of ipc_recv once a message is in hand: the healer's program    *)
(* goes on to act on the badge it received.                                *)
Received(msg) == verdict' = IF current = Healer THEN msg.badge ELSE verdict

(* healer_task is a loop: recv(CRASH_CAP, 0), then restart(badge).         *)
HealerLoop(i, rs) == current = Healer => verdict = Nil /\ i = CRASH_CAP /\ rs = 0

(* recv: take the lowest waiting sender, else the lowest waiting caller    *)
(* (which then awaits the reply the minted capability names), else block.  *)
IpcRecv(i, rs) ==
    LET ep == caps[current][i].obj
        senders == Waiting(ep, "Send")
        callers == Waiting(ep, "Call")
        from == LowestSlot(IF senders # {} THEN senders ELSE callers)
        minted == IF senders # {} THEN caps ELSE MintReply(caps, current, rs, from)
    IN
    /\ InUser("recv") /\ HealerLoop(i, rs)
    /\ i \in EndpointCaps(current)
    /\ \/ /\ senders \cup callers # {}
          /\ state' = [state EXCEPT ![from] = IF senders # {} THEN Ready ELSE AwaitingReply]
          /\ caps' = InstallCap(minted, current, rs, pendingGrant[from])
          /\ TakeGrant(from)
          /\ Received(message[from])
          /\ UNCHANGED <<current, message, caller, slot, at>>
       \/ /\ senders \cup callers = {}
          /\ ParkCurrent(Blocked(ep, "Recv"), state)
          /\ at' = [at EXCEPT ![current] = "recv"]
          /\ slot' = [slot EXCEPT ![current] = rs]
          /\ UNCHANGED <<caps, message, caller, pendingGrant, verdict>>
    /\ UNCHANGED <<kernVars, restarts, leftDown, plicVars>>

(* The rest of a blocked ipc_recv, run when the receiver is switched to.   *)
ResumeRecv ==
    /\ at[current] = "recv"
    /\ caps' = InstallCap(MintReply(caps, current, slot[current], caller[current]),
                          current, slot[current], pendingGrant[current])
    /\ TakeCaller(current)
    /\ TakeGrant(current)
    /\ at' = [at EXCEPT ![current] = "run"]
    /\ slot' = [slot EXCEPT ![current] = 0]
    /\ Received(message[current])
    /\ UNCHANGED <<schedVars, message, kernVars, restarts, leftDown, plicVars>>

(* The rest of a call, or of a kernel task's recv: it reads its message.   *)
ResumeMsg ==
    /\ at[current] = "msg"
    /\ at' = [at EXCEPT ![current] = "run"]
    /\ UNCHANGED <<schedVars, ipcVars, kernVars, healVars, plicVars>>

(* What send, grant and call have in common: hand the message to the       *)
(* lowest waiting receiver, else keep it and queue on the endpoint.        *)
Deliver(r, cap) ==
    /\ message' = [message EXCEPT ![r] = Message(current, 0)]
    /\ pendingGrant' = [pendingGrant EXCEPT ![r] = IF cap = NoCap THEN @ ELSE cap]

(* Mutant: send queues without looking for a waiting receiver.             *)
AlwaysQueue(ep, cap) ==
    Deliver(current, cap) /\ ParkCurrent(Blocked(ep, "Send"), state)

SendOrQueue(ep, cap) ==
    LET receivers == Waiting(ep, "Recv")
        r == LowestSlot(receivers)
    IN  \/ /\ receivers # {}
           /\ Deliver(r, cap)
           /\ state' = [state EXCEPT ![r] = Ready]
           /\ UNCHANGED current
        \/ /\ receivers = {}
           /\ Deliver(current, cap)
           /\ ParkCurrent(Blocked(ep, "Send"), state)

IpcSend(i) ==
    /\ InUser("send") /\ i \in EndpointCaps(current)
    /\ SendOrQueue(caps[current][i].obj, NoCap)
    /\ UNCHANGED <<caps, caller, slot, at, kernVars, healVars, plicVars>>

(* grant: a copy of the capability in slot src travels with the message.   *)
IpcGrant(i, src) ==
    /\ InUser("grant") /\ i \in EndpointCaps(current)
    /\ caps[current][src].kind \in Delegable
    /\ SendOrQueue(caps[current][i].obj, caps[current][src])
    /\ UNCHANGED <<caps, caller, slot, at, kernVars, healVars, plicVars>>

IpcCall(i) ==
    LET ep == caps[current][i].obj
        receivers == Waiting(ep, "Recv")
        r == LowestSlot(receivers)
    IN
    /\ InUser("call") /\ i \in EndpointCaps(current)
    /\ \/ /\ receivers # {}
          /\ Deliver(r, NoCap)
          /\ caller' = [caller EXCEPT ![r] = current]
          /\ ParkCurrent(AwaitingReply, [state EXCEPT ![r] = Ready])
       \/ /\ receivers = {}
          /\ Deliver(current, NoCap)
          /\ ParkCurrent(Blocked(ep, "Call"), state)
          /\ UNCHANGED caller
    /\ at' = [at EXCEPT ![current] = "msg"]
    /\ UNCHANGED <<caps, slot, kernVars, healVars, plicVars>>

(* reply: the Reply capability is used up whether or not the caller it     *)
(* names is still waiting.                                                 *)
IpcReply(i) ==
    LET c == caps[current][i].obj
    IN
    /\ InUser("reply") /\ caps[current][i].kind = "Reply"
    /\ ConsumeReplyCap(i)
    /\ IF state[c] = AwaitingReply
       THEN /\ message' = [message EXCEPT ![c] = Message(current, 0)]
            /\ state' = [state EXCEPT ![c] = Ready]
       ELSE UNCHANGED <<message, state>>
    /\ UNCHANGED <<current, caller, pendingGrant, slot, at, kernVars, healVars, plicVars>>

IpcRevoke(i) ==
    LET ep == caps[current][i].obj
    IN
    /\ InUser("revoke") /\ i \in EndpointCaps(current)
    /\ caps' = [t \in Tasks |-> IF t = current THEN caps[t] ELSE RevokeInCaps(caps[t], ep)]
    /\ UNCHANGED <<schedVars, message, caller, pendingGrant, slot, at,
                   kernVars, healVars, plicVars>>

-----------------------------------------------------------------------------
(* Exit and crash.                                                         *)

Exit ==
    /\ InUser("exit")
    /\ ParkCurrent(Exited, state)
    /\ UNCHANGED <<ipcVars, at, kernVars, healVars, plicVars>>

(* Mutant: the crashed task stays runnable.                                *)
KilledStillReady == [state EXCEPT ![current] = Ready]

Killed == [state EXCEPT ![current] = Exited]

(* A fault taken in U-mode: exit_current(Killed).  Unless the diagnosis    *)
(* quarantines it, the crash is reported to the task waiting on CRASH_EP,  *)
(* which runs next; with nobody waiting there the task is left down.       *)
Crash(quarantined) ==
    LET healers == Waiting(CRASH_EP, "Recv")
        h == LowestSlot(healers)
    IN
    /\ InUser("fault")
    /\ \/ /\ ~quarantined /\ healers # {}
          /\ message' = [message EXCEPT ![h] = Message(Nil, CrashBadge[current])]
          /\ SwitchTo(h, Killed)
          /\ UNCHANGED leftDown
       \/ /\ quarantined \/ healers = {}
          /\ SwitchTo(PickNext(current, Killed), Killed)
          /\ leftDown' = IF quarantined THEN leftDown ELSE leftDown \cup {current}
          /\ UNCHANGED message
    /\ UNCHANGED <<caps, caller, pendingGrant, slot, at, kernVars,
                   restarts, verdict, plicVars>>

(* Mutant: the retry bound is one short.                                   *)
CanRestartOnceLess(t) == restarts[t] + 1 < MAX_RESTARTS

CanRestart(t) == restarts[t] < MAX_RESTARTS

(* restart(badge), the second half of healer_task's loop.  The kernel      *)
(* checks the capability and the retry bound, never the target's state.    *)
RestartTask ==
    LET cap == caps[Healer][verdict]
        task == cap.obj
    IN
    /\ current = Healer /\ at[current] = "run" /\ verdict # Nil
    /\ verdict' = Nil
    /\ IF verdict \in Slots /\ cap.kind = "Restart" /\ CanRestart(task)
       THEN /\ restarts' = [restarts EXCEPT ![task] = @ + 1]
            /\ state' = [state EXCEPT ![task] = Ready]
            /\ at' = [at EXCEPT ![task] = "run"]
            /\ slot' = [slot EXCEPT ![task] = 0]
       ELSE UNCHANGED <<restarts, state, at, slot>>
    /\ UNCHANGED <<current, caps, message, caller, pendingGrant, kernVars,
                   leftDown, plicVars>>

-----------------------------------------------------------------------------
(* Interrupts.  The PLIC forwards an asserted line once and again after    *)
(* completion if it is still asserted.                                     *)

DeviceRaise(irq) ==
    /\ irq \notin line
    /\ line' = line \cup {irq}
    /\ pending' = IF irq \in claimed THEN pending ELSE pending \cup {irq}
    /\ UNCHANGED <<schedVars, ipcVars, at, kernVars, healVars, claimed>>

(* A driver acknowledges its device from U-mode, which lowers the line.    *)
DriverAck(i) ==
    /\ InUser("wait_irq") /\ caps[current][i].kind = "Interrupt"
    /\ caps[current][i].obj \in line
    /\ line' = line \ {caps[current][i].obj}
    /\ UNCHANGED <<schedVars, ipcVars, at, kernVars, healVars, pending, claimed>>

Claim(irq) == pending' = pending \ {irq} /\ claimed' = claimed \cup {irq}

(* Mutant: wait_irq does not complete the claim.                           *)
CompleteNothing(irq) == irq \in Irqs /\ UNCHANGED <<claimed, pending>>

Complete(irq) ==
    /\ claimed' = claimed \ {irq}
    /\ pending' = IF irq \in claimed \cap line THEN pending \cup {irq} ELSE pending

(* Mutant: nobody is woken.                                                *)
WakeNobody(irq) == irq \in Irqs /\ UNCHANGED state

WakeIrq(irq) ==
    LET waiters == {t \in Tasks : state[t] = WaitingIrq(irq)}
    IN  state' = IF waiters = {} THEN state
                 ELSE [state EXCEPT ![LowestSlot(waiters)] = Ready]

(* The external-interrupt arm of trap_handler: claim, then wake_irq.  It   *)
(* is the driver's next wait_irq that completes.                           *)
ExternalInterrupt(irq) ==
    /\ Interruptible /\ irq \in pending
    /\ Claim(irq) /\ WakeIrq(irq)
    /\ UNCHANGED <<current, ipcVars, at, kernVars, healVars, line>>

WaitIrq(i) ==
    LET irq == caps[current][i].obj
    IN
    /\ InUser("wait_irq") /\ caps[current][i].kind = "Interrupt"
    /\ Complete(irq)
    /\ ParkCurrent(WaitingIrq(irq), state)
    /\ UNCHANGED <<ipcVars, at, kernVars, healVars, line>>

-----------------------------------------------------------------------------
(* IPC of kernel tasks.  Each call inspects and updates the table in one   *)
(* SCHED.with section and then calls park_current; interrupts stay on      *)
(* across the two when the task runs with SIE set.                         *)

InKernel(call) == current \in KernelTasks /\ InProgram(call)

KernelParkAs(as) ==
    /\ at' = [at EXCEPT ![current] = "park"]
    /\ parkAs' = [parkAs EXCEPT ![current] = as]

RecvMessage(i) ==
    LET ep == caps[current][i].obj
        from == LowestSlot(Waiting(ep, "Send"))
    IN
    /\ InKernel("recv_message") /\ i \in EndpointCaps(current)
    /\ \/ /\ Waiting(ep, "Send") # {}
          /\ state' = [state EXCEPT ![from] = Ready]
          /\ UNCHANGED <<at, parkAs>>
       \/ /\ Waiting(ep, "Send") = {}
          /\ KernelParkAs(Blocked(ep, "Recv"))
          /\ UNCHANGED state
    /\ UNCHANGED <<current, ipcVars, sie, healVars, plicVars>>

CallMessage(i) ==
    LET ep == caps[current][i].obj
        r == LowestSlot(Waiting(ep, "Recv"))
    IN
    /\ InKernel("call_message") /\ i \in EndpointCaps(current)
    /\ \/ /\ Waiting(ep, "Recv") # {}
          /\ message' = [message EXCEPT ![r] = Message(current, 0)]
          /\ caller' = [caller EXCEPT ![r] = current]
          /\ state' = [state EXCEPT ![r] = Ready]
          /\ KernelParkAs(AwaitingReply)
       \/ /\ Waiting(ep, "Recv") = {}
          /\ message' = [message EXCEPT ![current] = Message(current, 0)]
          /\ KernelParkAs(Blocked(ep, "Call"))
          /\ UNCHANGED <<caller, state>>
    /\ UNCHANGED <<current, caps, pendingGrant, slot, sie, healVars, plicVars>>

(* park_current called by a kernel task.  switch_context does not save     *)
(* sstatus: the task switched to goes on with the parker's SIE, and the    *)
(* parker later gets that of whoever switches to it (off, in a trap).      *)
KernelPark ==
    /\ at[current] = "park"
    /\ ParkCurrent(parkAs[current], state)
    /\ at' = [at EXCEPT ![current] = "msg"]
    /\ parkAs' = [parkAs EXCEPT ![current] = Ready]
    /\ sie' = [k \in KernelTasks |->
                  CASE k = current -> FALSE
                    [] k = current' -> sie[k] \/ sie[current]
                    [] OTHER -> sie[k]]
    /\ UNCHANGED <<ipcVars, healVars, plicVars>>

-----------------------------------------------------------------------------
Resume == ResumeRecv \/ ResumeMsg

Ipc ==
    \/ \E i \in Slots, rs \in SlotArgs : IpcRecv(i, rs)
    \/ \E i \in Slots : IpcSend(i) \/ IpcCall(i) \/ IpcReply(i) \/ IpcRevoke(i)
    \/ \E i, src \in Slots : IpcGrant(i, src)

KernelIpc == (\E i \in Slots : RecvMessage(i) \/ CallMessage(i)) \/ KernelPark

Interrupts ==
    \/ \E irq \in Irqs : DeviceRaise(irq) \/ ExternalInterrupt(irq)
    \/ \E i \in Slots : DriverAck(i) \/ WaitIrq(i)

Next ==
    \/ Yield \/ Tick \/ Resume \/ Exit \/ RestartTask
    \/ \E q \in BOOLEAN : Crash(q)
    \/ Ipc \/ KernelIpc \/ Interrupts

Spec == Init /\ [][Next]_vars

(* The timer keeps firing and its interrupt stays pending until it is      *)
(* taken; a task in the kernel runs its handler to the end; an interrupt   *)
(* pending at the PLIC likewise stays until it is taken; and the healer,   *)
(* given the hart again and again, gets to its next system call, as every  *)
(* kernel task, whose loop ends in yield_now, gets to its next call.       *)
KernelStep == current \in KernelTasks /\ (Yield \/ KernelIpc)

Fairness ==
    /\ SF_vars(KernelStep)
    /\ SF_vars(Tick) /\ WF_vars(Resume) /\ SF_vars(KernelPark) /\ SF_vars(RestartTask)
    /\ \A irq \in Irqs : SF_vars(ExternalInterrupt(irq))

FairSpec == Spec /\ Fairness

-----------------------------------------------------------------------------
(* Properties.                                                             *)

(* Exactly the current task is Running: no switch, wake-up or restart ever *)
(* leaves two tasks believing they own the hart, or none.                  *)
OneRunning == \A t \in Tasks : state[t] = Running <=> t = current

(* A task that parks, exits or crashes finds a successor, so the           *)
(* assert_ne! in park_current and exit_current never fires.                *)
SuccessorExists == current # Idle => PickNext(current, state) # current

(* Task t has the right to reply to c: in capability slot p, or, when p is *)
(* Nil, as the caller it has yet to mint a capability for.                 *)
MayReply(t, p, c) == IF p = Nil THEN caller[t] = c ELSE caps[t][p] = Reply(c)

(* Task c waits for a reply, or is a kernel task on its way to that park.  *)
AwaitsReply(c) == state[c] = AwaitingReply \/ (at[c] = "park" /\ parkAs[c] = AwaitingReply)

(* A Reply capability always names a task that awaits that reply, and no   *)
(* task has two of them outstanding for it: a reply never lands in a later *)
(* call, and never twice.                                                  *)
ReplyCapNamesWaiter ==
    \A t, c \in Tasks : \A p \in Slots \cup {Nil} : MayReply(t, p, c) =>
        /\ AwaitsReply(c)
        /\ \A u \in Tasks : \A q \in Slots \cup {Nil} :
               MayReply(u, q, c) => u = t /\ q = p

(* A Reply capability is only ever used while its caller waits: ipc_reply  *)
(* never throws a reply away and leaves its caller to wait for ever.       *)
ReplyWakesCaller ==
    [][\A i \in Slots : IpcReply(i) => state[caps[current][i].obj] = AwaitingReply]_vars

(* Rendezvous of U-mode tasks is complete: an endpoint never has one task  *)
(* blocked to receive and another blocked to send or call at the same      *)
(* time.  A kernel task parks in a second step and may miss its partner.   *)
NoMissedRendezvous ==
    \A ep \in Endpoints, r, s \in UserTasks :
        state[r] = Blocked(ep, "Recv") => state[s] \notin {Blocked(ep, "Send"), Blocked(ep, "Call")}

(* A message is stable from the moment it is queued or delivered until it  *)
(* is taken: nobody overwrites the buffer of a queued sender or caller, or *)
(* of a woken task that has not read it yet.                               *)
MessageStable ==
    [][\A t \in Tasks :
          \/ state[t].tag = "Blocked" /\ state[t].role \in {"Send", "Call"} /\ state'[t] = state[t]
          \/ at[t] \in {"recv", "msg"} /\ state[t] \in {Ready, Running}
          => message'[t] = message[t]]_vars

(* When the healer's program is about to restart a task, or has been woken *)
(* to do so, that task is down: restart, which does not look at the        *)
(* target's state, never re-forges the context of a live task.             *)
RestartTargetsExited ==
    LET down(badge) == badge \in Slots /\ caps[Healer][badge].kind = "Restart"
                           => state[caps[Healer][badge].obj] = Exited
    IN  /\ verdict # Nil => down(verdict)
        /\ at[Healer] = "recv" /\ state[Healer] \in {Ready, Running}
              => down(message[Healer].badge)

(* A driver asleep in wait_irq can be woken: its source is not left        *)
(* claimed, and if the device asserts its line the interrupt is pending.   *)
IrqNotStuck ==
    \A irq \in Irqs : \A t \in Tasks : state[t] = WaitingIrq(irq) =>
        irq \notin claimed /\ (irq \in line => irq \in pending)

(* Round robin starves nobody: every Ready task runs.                      *)
ReadyRuns == \A t \in Tasks : state[t] = Ready ~> state[t] # Ready

(* An interrupt raised while its driver sleeps wakes the driver.           *)
IrqWakesDriver ==
    \A irq \in Irqs, t \in Tasks :
        state[t] = WaitingIrq(irq) /\ irq \in line ~> state[t] # WaitingIrq(irq)

(* The crash of p has been reported to the healer and not acted on.        *)
Reported(p) ==
    /\ state[p] = Exited
    /\ CrashBadge[p] \in Slots /\ caps[Healer][CrashBadge[p]] = Restart(p)
    /\ \/ verdict = CrashBadge[p]
       \/ /\ at[Healer] = "recv" /\ state[Healer] \in {Ready, Running}
          /\ message[Healer] = Message(Nil, CrashBadge[p])

(* A crash reported to the healer is healed: the task comes back, unless   *)
(* it has used up its restarts.                                            *)
CrashHealed ==
    \A p \in UserTasks :
        Reported(p) ~> state[p] # Exited \/ restarts[p] = MAX_RESTARTS

(* The healer acts on one crash before another can occur: no crash is      *)
(* dropped because the healer is still busy with an earlier one.           *)
CrashesDrained == [][leftDown' # leftDown => verdict = Nil]_vars
=============================================================================
