---------------------------- MODULE SchedProofs ----------------------------
(***************************************************************************)
(* Theorems about Sched for every number of tasks, capability slots,       *)
(* endpoints and interrupts, and for every set of programs.                *)
(***************************************************************************)
EXTENDS Sched, TLAPS, WellFoundedInduction

(* The lowest slot of a nonempty set of slots is one of them and bounds    *)
(* the others (find_blocked, and the scan of pick_next).                   *)
LEMMA LowestSlotIn ==
    ASSUME NEW S, S \subseteq Nat, S # {}
    PROVE  LowestSlot(S) \in S /\ \A u \in S : LowestSlot(S) <= u
<1> DEFINE R == OpToRel(<, Nat)
<1>1. \E x \in S : \A y \in S : ~(<<y, x>> \in R)
  <2>1. IsWellFoundedOn(R, Nat)
    BY Zenon, NatLessThanWellFounded
  <2> HIDE DEF R
  <2> QED
    BY Zenon, <2>1, WFMin
<1>2. PICK x \in S : \A y \in S : ~(<<y, x>> \in R)
  BY Zenon, <1>1
<1>3. \A y \in S : x <= y
  <2> TAKE y \in S
  <2>1. ~(<<y, x>> \in R)
    BY Zenon, <1>2
  <2>2. ~(y < x)
    BY <2>1 DEF OpToRel
  <2> QED
    BY <2>2
<1> QED
  BY Zenon, <1>3 DEF LowestSlot

(* Arithmetic of the cyclic scan.                                          *)
LEMMA ModRange ==
    ASSUME NEW a \in Nat, NEW n \in Nat \ {0}
    PROVE  a % n \in 0 .. n - 1
OBVIOUS

LEMMA ModWrap ==
    ASSUME NEW n \in Nat \ {0}, NEW r \in 0 .. n - 1
    PROVE  r % n = r /\ (r + n) % n = r
OBVIOUS

(* pick_next returns the current slot or a Ready one.                      *)
LEMMA PickNextType ==
    ASSUME NEW cur \in Tasks, NEW st
    PROVE  /\ PickNext(cur, st) \in Tasks
           /\ PickNext(cur, st) = cur \/ st[PickNext(cur, st)] = Ready
<1> DEFINE ready == {k \in 1 .. MAX_TASKS - 1 : st[(cur + k) % MAX_TASKS] = Ready}
<1>0. MAX_TASKS \in Nat \ {0} /\ cur \in Nat
  BY SchedAssumption DEF Tasks
<1>1. CASE ready = {}
  BY <1>1 DEF PickNext
<1>2. CASE ready # {}
  <2>0. ready \subseteq Nat
    BY <1>0
  <2>1. LowestSlot(ready) \in ready
    <3> HIDE DEF ready
    <3> QED
      BY Zenon, <2>0, <1>2, LowestSlotIn
  <2>2. PickNext(cur, st) = (cur + LowestSlot(ready)) % MAX_TASKS
    BY <1>2 DEF PickNext
  <2>3. LowestSlot(ready) \in Nat /\ st[(cur + LowestSlot(ready)) % MAX_TASKS] = Ready
    BY <1>0, <2>1
  <2> HIDE DEF ready
  <2>4. cur + LowestSlot(ready) \in Nat
    BY <1>0, <2>3
  <2>5. (cur + LowestSlot(ready)) % MAX_TASKS \in Tasks
    BY Zenon, <1>0, <2>4, ModRange DEF Tasks
  <2> QED
    BY <2>2, <2>3, <2>5
<1> QED
  BY <1>1, <1>2

(* pick_next finds a Ready task whenever there is one: its scan visits     *)
(* every other slot.                                                       *)
LEMMA PickNextFinds ==
    ASSUME NEW cur \in Tasks, NEW st, NEW r \in Tasks, r # cur,
           st[r] = Ready, st[cur] # Ready
    PROVE  PickNext(cur, st) # cur
<1> DEFINE ready == {k \in 1 .. MAX_TASKS - 1 : st[(cur + k) % MAX_TASKS] = Ready}
<1> DEFINE d == IF cur < r THEN r - cur ELSE (r + MAX_TASKS) - cur
<1>0. MAX_TASKS \in Nat \ {0} /\ cur \in Nat /\ r \in Nat /\ cur < MAX_TASKS /\ r < MAX_TASKS
  BY SchedAssumption DEF Tasks
<1>1. d \in 1 .. MAX_TASKS - 1
  BY <1>0
<1>2. cur + d = r \/ cur + d = r + MAX_TASKS
  BY <1>0
<1>3. (cur + d) % MAX_TASKS = r
  <2> HIDE DEF d
  <2>1. r % MAX_TASKS = r /\ (r + MAX_TASKS) % MAX_TASKS = r
    BY <1>0, ModWrap
  <2> QED
    BY <1>2, <2>1
<1> HIDE DEF d
<1>4. ready # {}
  BY <1>1, <1>3
<1>5. LowestSlot(ready) \in ready
  <2>1. ready \subseteq Nat
    BY <1>0
  <2> HIDE DEF ready
  <2> QED
    BY Zenon, <2>1, <1>4, LowestSlotIn
<1>6. PickNext(cur, st) = (cur + LowestSlot(ready)) % MAX_TASKS
  BY <1>4 DEF PickNext
<1>7. st[PickNext(cur, st)] = Ready
  BY Zenon, <1>5, <1>6
<1> QED
  BY <1>7

-----------------------------------------------------------------------------
(* Task states and capabilities are what their constructors say, and the   *)
(* constructors are told apart.                                            *)
LEMMA StateFacts ==
    /\ {Ready, Running, Exited, AwaitingReply} \subseteq TaskStates
    /\ \A ep \in Endpoints : \A role \in {"Send", "Recv", "Call"} :
          Blocked(ep, role) \in TaskStates
    /\ \A irq \in Irqs : WaitingIrq(irq) \in TaskStates
    /\ Ready # Running /\ Ready # Exited /\ Ready # AwaitingReply
    /\ Running # Exited /\ Running # AwaitingReply /\ Exited # AwaitingReply
    /\ \A ep, role : Blocked(ep, role) \notin {Ready, Running, Exited, AwaitingReply}
    /\ \A irq : WaitingIrq(irq) \notin {Ready, Running, Exited, AwaitingReply}
    /\ \A ep, role, irq : Blocked(ep, role) # WaitingIrq(irq)
    /\ \A e1, r1, e2, r2 : Blocked(e1, r1) = Blocked(e2, r2) => e1 = e2 /\ r1 = r2
<1>1. {Ready, Running, Exited, AwaitingReply} \subseteq TaskStates
  BY DEF TaskStates
<1>2. \A ep \in Endpoints : \A role \in {"Send", "Recv", "Call"} :
          Blocked(ep, role) \in TaskStates
  BY DEF TaskStates
<1>3. \A irq \in Irqs : WaitingIrq(irq) \in TaskStates
  BY DEF TaskStates
<1> USE DEF TaskState, Ready, Running, Exited, AwaitingReply, Blocked, WaitingIrq
<1>4. /\ Ready # Running /\ Ready # Exited /\ Ready # AwaitingReply
      /\ Running # Exited /\ Running # AwaitingReply /\ Exited # AwaitingReply
  OBVIOUS
<1>5. \A ep, role : Blocked(ep, role) \notin {Ready, Running, Exited, AwaitingReply}
  OBVIOUS
<1>6. \A irq : WaitingIrq(irq) \notin {Ready, Running, Exited, AwaitingReply}
  OBVIOUS
<1>7. /\ \A ep, role, irq : Blocked(ep, role) # WaitingIrq(irq)
      /\ \A e1, r1, e2, r2 : Blocked(e1, r1) = Blocked(e2, r2) => e1 = e2 /\ r1 = r2
  OBVIOUS
<1> HIDE DEF TaskState, Ready, Running, Exited, AwaitingReply, Blocked, WaitingIrq
<1> QED
  BY <1>1, <1>2, <1>3, <1>4, <1>5, <1>6, <1>7

LEMMA CapFacts ==
    /\ NoCap \in Caps
    /\ \A t \in Tasks : Reply(t) \in Caps
    /\ \A c \in Caps : /\ c.kind = "Endpoint" => c.obj \in Endpoints /\ c = Endpoint(c.obj)
                       /\ c.kind = "Reply" => c.obj \in Tasks /\ c = Reply(c.obj)
                       /\ c.kind = "Restart" => c.obj \in UserTasks /\ c = Restart(c.obj)
                       /\ c.kind = "Interrupt" => c.obj \in Irqs /\ c = Interrupt(c.obj)
    /\ \A t, u : Reply(t) # Restart(u) /\ Reply(t) # NoCap /\ NoCap # Restart(t)
    /\ \A t, u : Reply(t) # Endpoint(u) /\ NoCap # Endpoint(u)
    /\ \A t, u : Reply(t) = Reply(u) => t = u
    /\ \A t : Reply(t).kind = "Reply" /\ Reply(t).obj = t
<1> USE DEF Capability, NoCap, Reply, Endpoint, Restart, Interrupt, Randomness, Session
<1>1. NoCap \in Caps /\ \A t \in Tasks : Reply(t) \in Caps
  BY Zenon DEF Caps
<1>2. ASSUME NEW c \in Caps
      PROVE  /\ c.kind = "Endpoint" => c.obj \in Endpoints /\ c = Endpoint(c.obj)
             /\ c.kind = "Reply" => c.obj \in Tasks /\ c = Reply(c.obj)
             /\ c.kind = "Restart" => c.obj \in UserTasks /\ c = Restart(c.obj)
             /\ c.kind = "Interrupt" => c.obj \in Irqs /\ c = Interrupt(c.obj)
  BY <1>2 DEF Caps
<1>3. /\ \A t, u : Reply(t) # Restart(u) /\ Reply(t) # NoCap /\ NoCap # Restart(t)
      /\ \A t, u : Reply(t) # Endpoint(u) /\ NoCap # Endpoint(u)
      /\ \A t, u : Reply(t) = Reply(u) => t = u
      /\ \A t : Reply(t).kind = "Reply" /\ Reply(t).obj = t
  OBVIOUS
<1> HIDE DEF Capability, NoCap, Reply, Endpoint, Restart, Interrupt, Randomness, Session
<1> QED
  BY <1>1, <1>2, <1>3

(* A slot that cap_lookup accepts as an endpoint names one.                *)
LEMMA EndpointNamed ==
    ASSUME TypeOK, current \in Tasks, NEW i \in Slots, i \in EndpointCaps(current)
    PROVE  caps[current][i].obj \in Endpoints
<1>1. caps[current][i] \in Caps
  BY DEF TypeOK
<1>2. caps[current][i].kind = "Endpoint"
  BY DEF EndpointCaps
<1> QED BY <1>1, <1>2, CapFacts

(* Installing a capability keeps the tables well typed and touches one     *)
(* slot at most.                                                           *)
LEMMA InstallCapFacts ==
    ASSUME NEW tables \in [Tasks -> [Slots -> Caps]], NEW t \in Tasks, NEW s, NEW cap \in Caps
    PROVE  /\ InstallCap(tables, t, s, cap) \in [Tasks -> [Slots -> Caps]]
           /\ \A u \in Tasks : \A p \in Slots :
                 InstallCap(tables, t, s, cap)[u][p] =
                     IF u = t /\ p = s /\ cap # NoCap THEN cap ELSE tables[u][p]
BY DEF InstallCap

LEMMA MintReplyFacts ==
    ASSUME NEW tables \in [Tasks -> [Slots -> Caps]], NEW t \in Tasks, NEW s,
           NEW c \in Tasks \cup {Nil}
    PROVE  /\ MintReply(tables, t, s, c) \in [Tasks -> [Slots -> Caps]]
           /\ \A u \in Tasks : \A p \in Slots :
                 MintReply(tables, t, s, c)[u][p] =
                     IF u = t /\ p = s /\ c # Nil THEN Reply(c) ELSE tables[u][p]
<1>1. CASE c = Nil
  <2>1. MintReply(tables, t, s, c) = InstallCap(tables, t, s, NoCap)
    BY <1>1 DEF MintReply
  <2> QED
    BY <1>1, <2>1, InstallCapFacts, CapFacts
<1>2. CASE c # Nil
  <2>1. MintReply(tables, t, s, c) = InstallCap(tables, t, s, Reply(c)) /\ c \in Tasks
    BY <1>2 DEF MintReply
  <2>2. Reply(c) \in Caps /\ Reply(c) # NoCap
    BY <2>1, CapFacts
  <2> QED
    BY <1>2, <2>1, <2>2, InstallCapFacts
<1> QED
  BY <1>1, <1>2

(* find_blocked returns a task that is blocked in the role it looks for.   *)
LEMMA LowestWaiting ==
    ASSUME NEW ep, NEW role, Waiting(ep, role) # {}
    PROVE  /\ LowestSlot(Waiting(ep, role)) \in Tasks
           /\ state[LowestSlot(Waiting(ep, role))] = Blocked(ep, role)
<1>1. Waiting(ep, role) \subseteq Nat
  BY SchedAssumption DEF Waiting, Tasks
<1>2. LowestSlot(Waiting(ep, role)) \in Waiting(ep, role)
  BY <1>1, LowestSlotIn
<1> QED
  BY <1>2 DEF Waiting

(* A switch leaves exactly its target running.                             *)
LEMMA SwitchFacts ==
    ASSUME current \in Tasks, NEW st \in [Tasks -> TaskStates], NEW next \in Tasks,
           \A t \in Tasks : st[t] # Running, SwitchTo(next, st)
    PROVE  /\ current' = next /\ next # current
           /\ state' = [st EXCEPT ![next] = Running]
           /\ state' \in [Tasks -> TaskStates]
           /\ OneRunning'
BY StateFacts DEF SwitchTo, OneRunning

(* park_current: the parked task is in the given state, and a task that    *)
(* was Ready runs.                                                         *)
LEMMA ParkFacts ==
    ASSUME current \in Tasks, NEW st \in [Tasks -> TaskStates],
           \A t \in Tasks \ {current} : st[t] # Running,
           NEW as \in TaskStates, as # Running, ParkCurrent(as, st)
    PROVE  /\ current' \in Tasks /\ current' # current
           /\ st[current'] = Ready
           /\ state' = [st EXCEPT ![current] = as, ![current'] = Running]
           /\ state' \in [Tasks -> TaskStates]
           /\ OneRunning'
<1> DEFINE parked == [st EXCEPT ![current] = as]
<1> DEFINE next == PickNext(current, parked)
<1>1. next \in Tasks /\ (next = current \/ parked[next] = Ready)
  BY Zenon, PickNextType
<1>2. parked \in [Tasks -> TaskStates] /\ \A t \in Tasks : parked[t] # Running
  BY Zenon
<1>3. SwitchTo(next, parked)
  BY DEF ParkCurrent
<1> HIDE DEF next
<1>4. /\ current' = next /\ next # current
      /\ state' = [parked EXCEPT ![next] = Running]
      /\ state' \in [Tasks -> TaskStates]
      /\ OneRunning'
  <2> HIDE DEF parked
  <2> QED
    BY <1>1, <1>2, <1>3, SwitchFacts
<1> QED
  BY Zenon, <1>1, <1>4

-----------------------------------------------------------------------------
(* The first inductive invariant: types, one running task, an idle task    *)
(* that stays runnable, and no capability to restart the healer.           *)

IdleRuns == at[Idle] = "run" /\ state[Idle] \in {Ready, Running}

NoHealerRestart ==
    \A t \in Tasks : /\ \A s \in Slots : caps[t][s] # Restart(Healer)
                     /\ pendingGrant[t] # Restart(Healer)

ParkTarget == \A t \in Tasks : parkAs[t] # Running

SchedInv == TypeOK /\ OneRunning /\ IdleRuns /\ NoHealerRestart /\ ParkTarget

(* Consequences of the assumptions on the constants.                       *)
LEMMA ConstantFacts ==
    /\ Idle \in Tasks /\ Healer \in Tasks /\ Idle \notin UserTasks /\ UserTasks \subseteq Tasks
    /\ 0 \in Tasks /\ 0 \in SlotArgs /\ Slots \subseteq SlotArgs
    /\ Nil \notin Tasks /\ Nil \notin Slots /\ Nil \notin SlotArgs /\ Nil \notin Endpoints
BY SchedAssumption DEF Tasks, UserTasks, Slots, SlotArgs

LEMMA SchedInvInit == Init => SchedInv
<1> SUFFICES ASSUME Init PROVE SchedInv
  OBVIOUS
<1> USE DEF Init
<1>1. TypeOK
  <2>1. message \in [Tasks -> Messages]
    BY ConstantFacts DEF Message, Messages
  <2>2. caps \in [Tasks -> [Slots -> Caps]] /\ pendingGrant \in [Tasks -> Caps]
    BY SchedAssumption, CapFacts
  <2>3. state \in [Tasks -> TaskStates] /\ parkAs \in [Tasks -> TaskStates]
    BY StateFacts
  <2>4. restarts \in [Tasks -> 0 .. MAX_RESTARTS]
    BY SchedAssumption
  <2>5. at \in [Tasks -> Ats] /\ slot \in [Tasks -> SlotArgs] /\ caller \in [Tasks -> Tasks \cup {Nil}]
    BY Zenon, ConstantFacts DEF Ats
  <2> QED
    BY <2>1, <2>2, <2>3, <2>4, <2>5, ConstantFacts DEF TypeOK
<1>2. OneRunning /\ IdleRuns /\ ParkTarget
  BY StateFacts, ConstantFacts DEF OneRunning, IdleRuns, ParkTarget
<1>3. NoHealerRestart
  <2>1. ASSUME NEW t \in Tasks, NEW s \in Slots
        PROVE  InitCaps[t][s] # Restart(Healer)
    <3>1. Restart(Healer).kind = "Restart" /\ Restart(Healer).obj = Healer
      BY DEF Restart, Capability
    <3> QED
      BY <3>1, BootAssumption
  <2>2. NoCap # Restart(Healer)
    BY Zenon, CapFacts
  <2> QED
    BY Zenon, <2>1, <2>2 DEF NoHealerRestart
<1> QED
  BY <1>1, <1>2, <1>3 DEF SchedInv

(* What a U-mode task may assume of itself when it makes a system call.    *)
LEMMA UserFacts ==
    ASSUME SchedInv, NEW call, InUser(call)
    PROVE  /\ current \in Tasks /\ current # Idle /\ state[current] = Running
           /\ at[current] = "run" /\ call \in Program[current] /\ current \notin KernelTasks
BY ConstantFacts DEF SchedInv, TypeOK, OneRunning, InUser, InProgram, UserTasks

(* A system call that parks its caller, after changes that only make other *)
(* tasks Ready, keeps the part of the invariant that is about states.      *)
LEMMA ParkKeeps ==
    ASSUME SchedInv, NEW st \in [Tasks -> TaskStates], current # Idle,
           \A t \in Tasks : st[t] = state[t] \/ (st[t] = Ready /\ t # current),
           NEW as \in TaskStates, as # Running, ParkCurrent(as, st)
    PROVE  /\ current' \in Tasks /\ current' # current
           /\ st[current'] = Ready
           /\ state' = [st EXCEPT ![current] = as, ![current'] = Running]
           /\ state' \in [Tasks -> TaskStates]
           /\ OneRunning' /\ state'[Idle] \in {Ready, Running}
<1>1. \A t \in Tasks \ {current} : st[t] # Running
  BY StateFacts DEF SchedInv, OneRunning
<1>2. /\ current' \in Tasks /\ current' # current
      /\ st[current'] = Ready
      /\ state' = [st EXCEPT ![current] = as, ![current'] = Running]
      /\ state' \in [Tasks -> TaskStates]
      /\ OneRunning'
  BY Zenon, <1>1, ParkFacts DEF SchedInv, TypeOK
<1>3. state'[Idle] \in {Ready, Running}
  BY <1>2, ConstantFacts DEF SchedInv, IdleRuns
<1> QED
  BY Zenon, <1>2, <1>3

LEMMA ParkNow ==
    ASSUME SchedInv, current # Idle, NEW as \in TaskStates, as # Running, ParkCurrent(as, state)
    PROVE  /\ current' \in Tasks /\ current' # current
           /\ state[current'] = Ready
           /\ state' = [state EXCEPT ![current] = as, ![current'] = Running]
           /\ state' \in [Tasks -> TaskStates]
           /\ OneRunning' /\ state'[Idle] \in {Ready, Running}
<1>1. state \in [Tasks -> TaskStates]
  BY DEF SchedInv, TypeOK
<1>2. \A t \in Tasks : state[t] = state[t] \/ (state[t] = Ready /\ t # current)
  OBVIOUS
<1> QED
  BY Zenon, <1>1, <1>2, ParkKeeps

(* A step that switches nothing and only makes waiting tasks Ready, or     *)
(* moves a queued caller to AwaitingReply, keeps it too.                   *)
LEMMA WakeKeeps ==
    ASSUME SchedInv, NEW w \in Tasks, w # current, w # Idle,
           NEW s \in {Ready, AwaitingReply},
           state' = [state EXCEPT ![w] = s], current' = current
    PROVE  /\ state' \in [Tasks -> TaskStates] /\ current' \in Tasks
           /\ OneRunning' /\ state'[Idle] \in {Ready, Running}
BY StateFacts, ConstantFacts DEF SchedInv, TypeOK, OneRunning, IdleRuns

-----------------------------------------------------------------------------
(* One lemma per action: it preserves SchedInv.                            *)

LEMMA YieldNowInv == ASSUME SchedInv, YieldNow PROVE SchedInv'
<1> DEFINE next == PickNext(current, state)
<1>0. current \in Tasks /\ state \in [Tasks -> TaskStates]
  BY DEF SchedInv, TypeOK
<1>1. CASE UNCHANGED schedVars
  BY Zenon, <1>1 DEF SchedInv, TypeOK, OneRunning, IdleRuns, NoHealerRestart, ParkTarget, YieldNow,
              schedVars, ipcVars, kernVars, healVars, plicVars
<1>2. CASE SwitchTo(next, [state EXCEPT ![current] = Ready])
  <2> DEFINE st == [state EXCEPT ![current] = Ready]
  <2>1. next \in Tasks
    BY <1>0, PickNextType
  <2>2. st \in [Tasks -> TaskStates] /\ \A t \in Tasks : st[t] # Running
    BY <1>0, StateFacts DEF SchedInv, OneRunning
  <2>3. st[Idle] \in {Ready, Running}
    BY <1>0, ConstantFacts DEF SchedInv, IdleRuns
  <2> HIDE DEF next
  <2>4. /\ current' = next /\ next # current
        /\ state' = [st EXCEPT ![next] = Running]
        /\ state' \in [Tasks -> TaskStates]
        /\ OneRunning'
    <3> HIDE DEF st
    <3> QED
      BY ZenonT(60), <1>0, <1>2, <2>1, <2>2, SwitchFacts DEF st
  <2>5. IdleRuns'
    <3> HIDE DEF st
    <3> QED
      BY <2>2, <2>3, <2>4, ConstantFacts DEF SchedInv, IdleRuns, YieldNow
  <2> QED
    BY Zenon, <2>1, <2>4, <2>5 DEF SchedInv, TypeOK, NoHealerRestart, ParkTarget, YieldNow,
              ipcVars, kernVars, healVars, plicVars
<1> QED
  BY <1>1, <1>2 DEF YieldNow

LEMMA IpcRecvInv ==
    ASSUME SchedInv, NEW i \in Slots, NEW rs \in SlotArgs, IpcRecv(i, rs)
    PROVE  SchedInv'
<1> DEFINE ep == caps[current][i].obj
           senders == Waiting(ep, "Send")
           callers == Waiting(ep, "Call")
           from == LowestSlot(IF senders # {} THEN senders ELSE callers)
           minted == IF senders # {} THEN caps ELSE MintReply(caps, current, rs, from)
<1>0. /\ current \in Tasks /\ current # Idle /\ state[current] = Running
      /\ at[current] = "run" /\ current \notin KernelTasks
  BY ZenonT(60), UserFacts DEF IpcRecv
<1>1. ep \in Endpoints
  <2>1. i \in EndpointCaps(current)
    BY Zenon DEF IpcRecv
  <2> QED BY <1>0, <2>1, EndpointNamed DEF SchedInv
<1>2. CASE senders \cup callers # {}
  <2>1. /\ state' = [state EXCEPT ![from] = IF senders # {} THEN Ready ELSE AwaitingReply]
        /\ caps' = InstallCap(minted, current, rs, pendingGrant[from])
        /\ pendingGrant' = [pendingGrant EXCEPT ![from] = NoCap]
        /\ Received(message[from])
        /\ UNCHANGED <<current, message, caller, slot, at>>
        /\ UNCHANGED <<kernVars, restarts, leftDown, plicVars>>
    BY Zenon, <1>2 DEF IpcRecv, TakeGrant
  <2>2. from \in Tasks /\ state[from] = Blocked(ep, IF senders # {} THEN "Send" ELSE "Call")
    <3>1. CASE senders # {}
      BY Zenon, <3>1, LowestWaiting
    <3>2. CASE senders = {}
      <4>1. callers # {}
        BY ZenonT(60), <1>2, <3>2
      <4> QED
        BY Zenon, <3>2, <4>1, LowestWaiting
    <3> QED
      BY Zenon, <3>1, <3>2
  <2> HIDE DEF from
  <2>3. from # current /\ from # Idle
    BY SMTT(60), <1>0, <2>2, StateFacts DEF SchedInv, IdleRuns
  <2>4. minted \in [Tasks -> [Slots -> Caps]]
    BY ZenonT(60), <1>0, <2>2, MintReplyFacts DEF SchedInv, TypeOK
  <2>5. \A t \in Tasks : \A s \in Slots : minted[t][s] # Restart(Healer)
    <3>1. \A t \in Tasks : \A s \in Slots : minted[t][s] = caps[t][s] \/ minted[t][s] = Reply(from)
      BY SMTT(60), <1>0, <2>2, MintReplyFacts DEF SchedInv, TypeOK
    <3>2. \A t \in Tasks : \A s \in Slots : caps[t][s] # Restart(Healer)
      BY Zenon DEF SchedInv, NoHealerRestart
    <3>3. Reply(from) # Restart(Healer)
      BY CapFacts
    <3> HIDE DEF minted
    <3> QED
      BY Zenon, <3>1, <3>2, <3>3
  <2>6. pendingGrant[from] \in Caps /\ pendingGrant[from] # Restart(Healer)
    BY <2>2 DEF SchedInv, TypeOK, NoHealerRestart
  <2> HIDE DEF minted
  <2>7. caps' \in [Tasks -> [Slots -> Caps]] /\ NoHealerRestart'
    <3>1. \A t \in Tasks : \A s \in Slots : caps'[t][s] # Restart(Healer)
      BY SMTT(60), <1>0, <2>1, <2>4, <2>5, <2>6, InstallCapFacts
    <3>2. \A t \in Tasks : pendingGrant'[t] # Restart(Healer)
      BY ZenonT(60), <2>1, CapFacts DEF SchedInv, TypeOK, NoHealerRestart
    <3> QED
      BY Zenon, <1>0, <2>1, <2>4, <2>6, <3>1, <3>2, InstallCapFacts DEF NoHealerRestart
  <2>8. /\ state' \in [Tasks -> TaskStates] /\ current' \in Tasks
        /\ OneRunning' /\ state'[Idle] \in {Ready, Running}
    <3> DEFINE s == IF senders # {} THEN Ready ELSE AwaitingReply
    <3>1. s \in {Ready, AwaitingReply} /\ state' = [state EXCEPT ![from] = s] /\ current' = current
      BY SMTT(60), <2>1
    <3> HIDE DEF s
    <3> QED
      BY Zenon, <2>2, <2>3, <3>1, WakeKeeps
  <2>9. verdict' \in SlotArgs \cup {Nil} /\ pendingGrant' \in [Tasks -> Caps]
    BY <2>1, <2>2, CapFacts DEF Received, SchedInv, TypeOK, Messages
  <2> QED
    BY Zenon, <2>1, <2>7, <2>8, <2>9 DEF SchedInv, TypeOK, IdleRuns, ParkTarget, kernVars, plicVars
<1>3. CASE senders \cup callers = {}
  <2>1. /\ ParkCurrent(Blocked(ep, "Recv"), state)
        /\ at' = [at EXCEPT ![current] = "recv"]
        /\ slot' = [slot EXCEPT ![current] = rs]
        /\ UNCHANGED <<caps, message, caller, pendingGrant, verdict>>
        /\ UNCHANGED <<kernVars, restarts, leftDown, plicVars>>
    BY Zenon, <1>3 DEF IpcRecv
  <2>2. /\ current' \in Tasks /\ state' \in [Tasks -> TaskStates]
        /\ OneRunning' /\ state'[Idle] \in {Ready, Running}
    <3>1. Blocked(ep, "Recv") \in TaskStates /\ Blocked(ep, "Recv") # Running
      BY ZenonT(60), <1>1, StateFacts
    <3> QED
      BY Zenon, <1>0, <2>1, <3>1, ParkNow
  <2>3. at' \in [Tasks -> Ats] /\ slot' \in [Tasks -> SlotArgs] /\ at'[Idle] = "run"
    BY Zenon, <1>0, <2>1, ConstantFacts DEF SchedInv, TypeOK, Ats, IdleRuns
  <2> QED
    BY Zenon, <2>1, <2>2, <2>3 DEF SchedInv, TypeOK, IdleRuns, NoHealerRestart, ParkTarget,
                            kernVars, plicVars
<1> QED
  BY Z3T(60), <1>2, <1>3

LEMMA ResumeRecvInv == ASSUME SchedInv, ResumeRecv PROVE SchedInv'
<1> DEFINE minted == MintReply(caps, current, slot[current], caller[current])
<1>0. current \in Tasks /\ caller[current] \in Tasks \cup {Nil} /\ current # Idle
  BY Zenon DEF SchedInv, TypeOK, ResumeRecv, IdleRuns
<1>1. minted \in [Tasks -> [Slots -> Caps]]
  BY ZenonT(60), <1>0, MintReplyFacts DEF SchedInv, TypeOK
<1>2. \A t \in Tasks : \A s \in Slots : minted[t][s] # Restart(Healer)
  <2>1. \A t \in Tasks : \A s \in Slots :
           minted[t][s] = caps[t][s] \/ minted[t][s] = Reply(caller[current])
    BY Z3T(60), <1>0, MintReplyFacts DEF SchedInv, TypeOK
  <2> HIDE DEF minted
  <2> QED
    BY Z3T(60), <2>1, CapFacts DEF SchedInv, NoHealerRestart
<1>3. pendingGrant[current] \in Caps /\ pendingGrant[current] # Restart(Healer)
  BY <1>0 DEF SchedInv, TypeOK, NoHealerRestart
<1>4. caps' = InstallCap(minted, current, slot[current], pendingGrant[current])
  BY Zenon DEF ResumeRecv
<1> HIDE DEF minted
<1>5. caps' \in [Tasks -> [Slots -> Caps]]
  BY Zenon, <1>0, <1>1, <1>3, <1>4, InstallCapFacts
<1>6. NoHealerRestart'
  <2>1. \A t \in Tasks : \A s \in Slots : caps'[t][s] # Restart(Healer)
    BY Z3T(60), <1>0, <1>1, <1>2, <1>3, <1>4, InstallCapFacts
  <2>2. \A t \in Tasks : pendingGrant'[t] # Restart(Healer)
    BY ZenonT(60), CapFacts DEF SchedInv, TypeOK, NoHealerRestart, ResumeRecv, TakeGrant
  <2> QED
    BY ZenonT(60), <2>1, <2>2 DEF NoHealerRestart
<1>7. /\ caller' \in [Tasks -> Tasks \cup {Nil}] /\ pendingGrant' \in [Tasks -> Caps]
      /\ at' \in [Tasks -> Ats] /\ slot' \in [Tasks -> SlotArgs]
      /\ verdict' \in SlotArgs \cup {Nil} /\ at'[Idle] = "run"
  BY ZenonT(60), <1>0, CapFacts, ConstantFacts
     DEF ResumeRecv, TakeCaller, TakeGrant, SchedInv, TypeOK, Ats, Received, Messages, IdleRuns
<1> QED
  BY Zenon, <1>5, <1>6, <1>7 DEF ResumeRecv, TakeCaller, SchedInv, TypeOK, OneRunning, IdleRuns, ParkTarget,
                          schedVars, kernVars, plicVars

LEMMA ResumeMsgInv == ASSUME SchedInv, ResumeMsg PROVE SchedInv'
<1>1. at' \in [Tasks -> Ats] /\ at'[Idle] = "run"
  BY Zenon, ConstantFacts DEF ResumeMsg, SchedInv, TypeOK, Ats, IdleRuns
<1> QED
  BY Zenon, <1>1 DEF ResumeMsg, SchedInv, TypeOK, OneRunning, IdleRuns, NoHealerRestart, ParkTarget,
              schedVars, ipcVars, kernVars, healVars, plicVars

(* Handing over a message, with or without a capability.                   *)
LEMMA DeliverInv ==
    ASSUME SchedInv, NEW r \in Tasks, NEW cap \in Caps, cap # Restart(Healer), Deliver(r, cap)
    PROVE  /\ message' \in [Tasks -> Messages]
           /\ pendingGrant' \in [Tasks -> Caps]
           /\ \A t \in Tasks : pendingGrant'[t] # Restart(Healer)
<1>1. message' \in [Tasks -> Messages]
  BY Zenon, ConstantFacts DEF SchedInv, TypeOK, Deliver, Message, Messages
<1> QED
  BY Zenon, <1>1 DEF SchedInv, TypeOK, NoHealerRestart, Deliver

LEMMA SendOrQueueInv ==
    ASSUME SchedInv, current \in Tasks, current # Idle, state[current] = Running,
           NEW ep \in Endpoints, NEW cap \in Caps, cap # Restart(Healer), SendOrQueue(ep, cap)
    PROVE  /\ message' \in [Tasks -> Messages]
           /\ pendingGrant' \in [Tasks -> Caps]
           /\ \A t \in Tasks : pendingGrant'[t] # Restart(Healer)
           /\ state' \in [Tasks -> TaskStates] /\ current' \in Tasks
           /\ OneRunning' /\ state'[Idle] \in {Ready, Running}
<1> DEFINE r == LowestSlot(Waiting(ep, "Recv"))
<1>1. CASE Waiting(ep, "Recv") # {}
  <2>1. Deliver(r, cap) /\ state' = [state EXCEPT ![r] = Ready] /\ current' = current
    BY <1>1 DEF SendOrQueue
  <2>2. r \in Tasks /\ state[r] = Blocked(ep, "Recv")
    BY ZenonT(60), <1>1, LowestWaiting
  <2>3. r # current /\ r # Idle
    BY <2>2, StateFacts DEF SchedInv, IdleRuns
  <2> HIDE DEF r
  <2>4. /\ state' \in [Tasks -> TaskStates] /\ current' \in Tasks
        /\ OneRunning' /\ state'[Idle] \in {Ready, Running}
    BY ZenonT(60), <2>1, <2>2, <2>3, WakeKeeps
  <2> QED
    BY Zenon, <2>1, <2>2, <2>4, DeliverInv
<1>2. CASE Waiting(ep, "Recv") = {}
  <2>1. Deliver(current, cap) /\ ParkCurrent(Blocked(ep, "Send"), state)
    BY <1>2 DEF SendOrQueue
  <2>2. Blocked(ep, "Send") \in TaskStates /\ Blocked(ep, "Send") # Running
    BY SMTT(60), StateFacts
  <2> QED
    BY <2>1, <2>2, ParkNow, DeliverInv
<1> QED
  BY Zenon, <1>1, <1>2

LEMMA IpcSendInv == ASSUME SchedInv, NEW i \in Slots, IpcSend(i) PROVE SchedInv'
<1>0. current \in Tasks /\ current # Idle /\ state[current] = Running
  BY SMTT(60), UserFacts DEF IpcSend
<1>1. caps[current][i].obj \in Endpoints
  <2>1. i \in EndpointCaps(current)
    BY Zenon DEF IpcSend
  <2> QED BY <1>0, <2>1, EndpointNamed DEF SchedInv
<1>2. NoCap \in Caps /\ NoCap # Restart(Healer)
  BY CapFacts
<1>3. SendOrQueue(caps[current][i].obj, NoCap)
  BY DEF IpcSend
<1>4. /\ message' \in [Tasks -> Messages]
      /\ pendingGrant' \in [Tasks -> Caps]
      /\ \A t \in Tasks : pendingGrant'[t] # Restart(Healer)
      /\ state' \in [Tasks -> TaskStates] /\ current' \in Tasks
      /\ OneRunning' /\ state'[Idle] \in {Ready, Running}
  BY SMTT(60), <1>0, <1>1, <1>2, <1>3, SendOrQueueInv
<1> QED
  BY SMTT(60), <1>4 DEF IpcSend, SchedInv, TypeOK, IdleRuns, NoHealerRestart, ParkTarget,
              kernVars, healVars, plicVars

LEMMA IpcGrantInv ==
    ASSUME SchedInv, NEW i \in Slots, NEW src \in Slots, IpcGrant(i, src) PROVE SchedInv'
<1>0. current \in Tasks /\ current # Idle /\ state[current] = Running
  BY SMTT(60), UserFacts DEF IpcGrant
<1>1. caps[current][i].obj \in Endpoints
  <2>1. i \in EndpointCaps(current)
    BY Zenon DEF IpcGrant
  <2> QED BY <1>0, <2>1, EndpointNamed DEF SchedInv
<1>2. caps[current][src] \in Caps /\ caps[current][src] # Restart(Healer)
  BY <1>0 DEF SchedInv, TypeOK, NoHealerRestart
<1>3. SendOrQueue(caps[current][i].obj, caps[current][src])
  BY Zenon DEF IpcGrant
<1>4. /\ message' \in [Tasks -> Messages]
      /\ pendingGrant' \in [Tasks -> Caps]
      /\ \A t \in Tasks : pendingGrant'[t] # Restart(Healer)
      /\ state' \in [Tasks -> TaskStates] /\ current' \in Tasks
      /\ OneRunning' /\ state'[Idle] \in {Ready, Running}
  BY Zenon, <1>0, <1>1, <1>2, <1>3, SendOrQueueInv
<1> QED
  BY SMTT(60), <1>4 DEF IpcGrant, SchedInv, TypeOK, IdleRuns, NoHealerRestart, ParkTarget,
              kernVars, healVars, plicVars

LEMMA IpcCallInv == ASSUME SchedInv, NEW i \in Slots, IpcCall(i) PROVE SchedInv'
<1> DEFINE ep == caps[current][i].obj
           r == LowestSlot(Waiting(ep, "Recv"))
<1>0. current \in Tasks /\ current # Idle /\ state[current] = Running
  BY ZenonT(60), UserFacts DEF IpcCall
<1>1. ep \in Endpoints
  <2>1. i \in EndpointCaps(current)
    BY Zenon DEF IpcCall
  <2> QED BY <1>0, <2>1, EndpointNamed DEF SchedInv
<1>2. /\ at' = [at EXCEPT ![current] = "msg"]
      /\ UNCHANGED <<caps, slot, kernVars, healVars, plicVars>>
  BY Zenon DEF IpcCall
<1>3. at' \in [Tasks -> Ats] /\ at'[Idle] = "run"
  BY Zenon, <1>0, <1>2, ConstantFacts DEF SchedInv, TypeOK, Ats, IdleRuns
<1>4. NoCap \in Caps /\ NoCap # Restart(Healer)
  BY CapFacts
<1>5. /\ message' \in [Tasks -> Messages]
      /\ pendingGrant' \in [Tasks -> Caps]
      /\ \A t \in Tasks : pendingGrant'[t] # Restart(Healer)
      /\ caller' \in [Tasks -> Tasks \cup {Nil}]
      /\ state' \in [Tasks -> TaskStates] /\ current' \in Tasks
      /\ OneRunning' /\ state'[Idle] \in {Ready, Running}
  <2>1. CASE Waiting(ep, "Recv") # {}
    <3> DEFINE st == [state EXCEPT ![r] = Ready]
    <3>1. Deliver(r, NoCap) /\ caller' = [caller EXCEPT ![r] = current] /\ ParkCurrent(AwaitingReply, st)
      BY <2>1 DEF IpcCall
    <3>2. r \in Tasks /\ state[r] = Blocked(ep, "Recv")
      BY Zenon, <2>1, LowestWaiting
    <3> HIDE DEF r
    <3>3. r # current
      BY ZenonT(60), <1>0, <3>2, StateFacts
    <3>4. st \in [Tasks -> TaskStates] /\ \A t \in Tasks : st[t] = state[t] \/ (st[t] = Ready /\ t # current)
      BY SMTT(60), <3>2, <3>3, StateFacts DEF SchedInv, TypeOK
    <3>5. AwaitingReply \in TaskStates /\ AwaitingReply # Running
      BY Zenon, StateFacts
    <3> HIDE DEF st
    <3>6. /\ state' \in [Tasks -> TaskStates] /\ current' \in Tasks
          /\ OneRunning' /\ state'[Idle] \in {Ready, Running}
      BY Zenon, <1>0, <3>1, <3>4, <3>5, ParkKeeps
    <3>7. caller' \in [Tasks -> Tasks \cup {Nil}]
      BY ZenonT(60), <1>0, <3>1 DEF SchedInv, TypeOK
    <3> QED
      BY ZenonT(60), <1>4, <3>1, <3>2, <3>6, <3>7, DeliverInv
  <2>2. CASE Waiting(ep, "Recv") = {}
    <3>1. Deliver(current, NoCap) /\ ParkCurrent(Blocked(ep, "Call"), state) /\ caller' = caller
      BY <2>2 DEF IpcCall
    <3>2. Blocked(ep, "Call") \in TaskStates /\ Blocked(ep, "Call") # Running
      BY <1>1, StateFacts
    <3>3. /\ state' \in [Tasks -> TaskStates] /\ current' \in Tasks
          /\ OneRunning' /\ state'[Idle] \in {Ready, Running}
      BY SMTT(60), <1>0, <3>1, <3>2, ParkNow
    <3>4. caller' \in [Tasks -> Tasks \cup {Nil}]
      BY SMTT(60), <3>1 DEF SchedInv, TypeOK
    <3> QED
      BY SMTT(60), <1>0, <1>4, <3>1, <3>3, <3>4, DeliverInv
  <2> QED
    BY Zenon, <2>1, <2>2
<1> QED
  BY Zenon, <1>2, <1>3, <1>5 DEF SchedInv, TypeOK, IdleRuns, NoHealerRestart, ParkTarget,
                          kernVars, healVars, plicVars

LEMMA IpcReplyInv == ASSUME SchedInv, NEW i \in Slots, IpcReply(i) PROVE SchedInv'
<1> DEFINE c == caps[current][i].obj
<1>0. current \in Tasks /\ current # Idle /\ state[current] = Running
  BY ZenonT(60), UserFacts DEF IpcReply
<1>1. c \in Tasks
  BY SMTT(60), <1>0, CapFacts DEF IpcReply, SchedInv, TypeOK
<1>2. caps' \in [Tasks -> [Slots -> Caps]] /\ \A t \in Tasks : \A s \in Slots : caps'[t][s] # Restart(Healer)
  <2>1. caps' = [caps EXCEPT ![current][i] = NoCap]
    BY Zenon DEF IpcReply, ConsumeReplyCap
  <2>2. NoCap \in Caps /\ NoCap # Restart(Healer)
    BY CapFacts
  <2>3. caps \in [Tasks -> [Slots -> Caps]] /\ \A t \in Tasks : \A s \in Slots : caps[t][s] # Restart(Healer)
    BY Zenon DEF SchedInv, TypeOK, NoHealerRestart
  <2> QED
    BY SMTT(60), <1>0, <2>1, <2>2, <2>3
<1>3. /\ message' \in [Tasks -> Messages]
      /\ state' \in [Tasks -> TaskStates] /\ current' \in Tasks
      /\ OneRunning' /\ state'[Idle] \in {Ready, Running}
  <2>1. CASE state[c] = AwaitingReply
    <3>1. /\ message' = [message EXCEPT ![c] = Message(current, 0)]
          /\ state' = [state EXCEPT ![c] = Ready] /\ current' = current
      BY SMTT(60), <2>1 DEF IpcReply
    <3>2. c # current /\ c # Idle
      BY <1>0, <2>1, StateFacts DEF SchedInv, IdleRuns
    <3>3. message' \in [Tasks -> Messages]
      BY ZenonT(60), <1>0, <3>1, ConstantFacts DEF SchedInv, TypeOK, Message, Messages
    <3> HIDE DEF c
    <3> QED
      BY Zenon, <1>1, <3>1, <3>2, <3>3, WakeKeeps
  <2>2. CASE state[c] # AwaitingReply
    BY SMTT(60), <2>2 DEF IpcReply, SchedInv, TypeOK, OneRunning, IdleRuns
  <2> QED
    BY ZenonT(60), <2>1, <2>2
<1> QED
  BY <1>2, <1>3 DEF IpcReply, SchedInv, TypeOK, IdleRuns, NoHealerRestart, ParkTarget,
                    kernVars, healVars, plicVars

LEMMA IpcRevokeInv == ASSUME SchedInv, NEW i \in Slots, IpcRevoke(i) PROVE SchedInv'
<1> DEFINE ep == caps[current][i].obj
<1>1. caps' = [t \in Tasks |-> IF t = current THEN caps[t] ELSE RevokeInCaps(caps[t], ep)]
  BY SMTT(60) DEF IpcRevoke
<1>2. \A t \in Tasks : RevokeInCaps(caps[t], ep) \in [Slots -> Caps]
  BY SMTT(60), CapFacts DEF RevokeInCaps, SchedInv, TypeOK
<1>3. caps' \in [Tasks -> [Slots -> Caps]]
  BY SMTT(60), <1>1, <1>2 DEF SchedInv, TypeOK
<1>4. \A t \in Tasks : \A s \in Slots : caps'[t][s] # Restart(Healer)
  <2>1. \A t \in Tasks : \A s \in Slots : caps'[t][s] = caps[t][s] \/ caps'[t][s] = NoCap
    BY Zenon, <1>1 DEF RevokeInCaps
  <2> QED
    BY <2>1, CapFacts DEF SchedInv, NoHealerRestart
<1> QED
  BY <1>3, <1>4 DEF IpcRevoke, SchedInv, TypeOK, OneRunning, IdleRuns, NoHealerRestart, ParkTarget,
                    schedVars, kernVars, healVars, plicVars

LEMMA ExitInv == ASSUME SchedInv, Exit PROVE SchedInv'
<1>0. current # Idle
  BY ZenonT(60), UserFacts DEF Exit
<1>1. Exited \in TaskStates /\ Exited # Running
  BY StateFacts
<1>2. /\ state' \in [Tasks -> TaskStates] /\ current' \in Tasks
      /\ OneRunning' /\ state'[Idle] \in {Ready, Running}
  BY <1>0, <1>1, ParkNow DEF Exit
<1> QED
  BY ZenonT(60), <1>2 DEF Exit, SchedInv, TypeOK, IdleRuns, NoHealerRestart, ParkTarget,
              ipcVars, kernVars, healVars, plicVars

LEMMA CrashInv == ASSUME SchedInv, NEW q \in BOOLEAN, Crash(q) PROVE SchedInv'
<1> DEFINE h == LowestSlot(Waiting(CRASH_EP, "Recv"))
<1>0. current \in Tasks /\ current # Idle /\ current \in UserTasks
  BY Zenon, UserFacts DEF Crash, InUser
<1>1. Killed \in [Tasks -> TaskStates] /\ \A t \in Tasks : Killed[t] # Running
  BY Zenon, <1>0, StateFacts DEF Killed, SchedInv, TypeOK, OneRunning
<1>2. Killed[Idle] \in {Ready, Running}
  BY Zenon, <1>0, ConstantFacts DEF Killed, SchedInv, TypeOK, IdleRuns
<1>3. CASE ~q /\ Waiting(CRASH_EP, "Recv") # {}
  <2>1. SwitchTo(h, Killed) /\ message' = [message EXCEPT ![h] = Message(Nil, CrashBadge[current])]
    BY <1>3 DEF Crash
  <2>2. h \in Tasks
    BY Zenon, <1>3, LowestWaiting
  <2>3. message' \in [Tasks -> Messages]
    BY ZenonT(60), <1>0, <2>1, <2>2, SchedAssumption DEF Message, Messages, SchedInv, TypeOK
  <2> HIDE DEF h
  <2>4. /\ state' \in [Tasks -> TaskStates] /\ current' \in Tasks /\ OneRunning'
        /\ state' = [Killed EXCEPT ![h] = Running]
    BY <1>0, <1>1, <2>1, <2>2, SwitchFacts
  <2>5. state'[Idle] \in {Ready, Running}
    BY SMTT(60), <1>1, <1>2, <2>4, ConstantFacts
  <2>6. leftDown' = leftDown
    BY <1>3 DEF Crash
  <2> QED
    BY ZenonT(60), <2>3, <2>4, <2>5, <2>6 DEF Crash, SchedInv, TypeOK, IdleRuns, NoHealerRestart, ParkTarget,
                                  kernVars, plicVars
<1>4. CASE q \/ Waiting(CRASH_EP, "Recv") = {}
  <2> DEFINE next == PickNext(current, Killed)
  <2>1. SwitchTo(next, Killed) /\ message' = message
    BY <1>4 DEF Crash
  <2>2. next \in Tasks
    BY SMTT(60), <1>0, PickNextType
  <2>3. leftDown' \subseteq UserTasks
    BY <1>0, <1>4 DEF Crash, SchedInv, TypeOK
  <2> HIDE DEF next
  <2>4. /\ state' \in [Tasks -> TaskStates] /\ current' \in Tasks /\ OneRunning'
        /\ state' = [Killed EXCEPT ![next] = Running]
    BY <1>0, <1>1, <2>1, <2>2, SwitchFacts
  <2>5. state'[Idle] \in {Ready, Running}
    BY SMTT(60), <1>1, <1>2, <2>4, ConstantFacts
  <2> QED
    BY ZenonT(60), <2>1, <2>3, <2>4, <2>5 DEF Crash, SchedInv, TypeOK, IdleRuns, NoHealerRestart, ParkTarget,
                                  kernVars, plicVars
<1> QED
  BY Zenon, <1>3, <1>4

LEMMA RestartTaskInv == ASSUME SchedInv, RestartTask PROVE SchedInv'
<1> DEFINE cap == caps[Healer][verdict]
           task == cap.obj
           granted == verdict \in Slots /\ cap.kind = "Restart" /\ CanRestart(task)
<1>0. current = Healer /\ Healer \in Tasks /\ verdict' = Nil
  BY Zenon, ConstantFacts DEF RestartTask
<1>1. CASE granted
  <2>1. /\ restarts' = [restarts EXCEPT ![task] = @ + 1]
        /\ state' = [state EXCEPT ![task] = Ready]
        /\ at' = [at EXCEPT ![task] = "run"]
        /\ slot' = [slot EXCEPT ![task] = 0]
        /\ current' = current
    BY Zenon, <1>1 DEF RestartTask
  <2>2. cap \in Caps /\ cap # Restart(Healer)
    BY Zenon, <1>0, <1>1 DEF SchedInv, TypeOK, NoHealerRestart
  <2>3. task \in UserTasks /\ task # Healer
    BY Zenon, <1>1, <2>2, CapFacts
  <2>4. task \in Tasks /\ task # current /\ task # Idle
    BY Zenon, <1>0, <2>3, ConstantFacts
  <2>5. restarts[task] \in 0 .. MAX_RESTARTS /\ restarts[task] < MAX_RESTARTS
    BY Zenon, <1>1, <2>4 DEF CanRestart, SchedInv, TypeOK
  <2> HIDE DEF task, cap
  <2>6. restarts' \in [Tasks -> 0 .. MAX_RESTARTS]
    <3>1. restarts[task] + 1 \in 0 .. MAX_RESTARTS
      BY Z3T(60), <2>5, SchedAssumption
    <3> QED
      BY Zenon, <2>1, <2>4, <3>1 DEF SchedInv, TypeOK
  <2>7. /\ state' \in [Tasks -> TaskStates] /\ current' \in Tasks
        /\ OneRunning' /\ state'[Idle] \in {Ready, Running}
    BY ZenonT(60), <2>1, <2>4, WakeKeeps
  <2>8. at' \in [Tasks -> Ats] /\ slot' \in [Tasks -> SlotArgs] /\ at'[Idle] = "run"
    BY <2>1, <2>4, ConstantFacts DEF SchedInv, TypeOK, Ats, IdleRuns
  <2> QED
    BY Zenon, <1>0, <2>6, <2>7, <2>8 DEF RestartTask, SchedInv, TypeOK, IdleRuns, NoHealerRestart,
                                  ParkTarget, kernVars, plicVars
<1>2. CASE ~granted
  <2>1. UNCHANGED <<restarts, state, at, slot>>
    BY Zenon, <1>2 DEF RestartTask
  <2> QED
    BY Zenon, <1>0, <2>1 DEF RestartTask, SchedInv, TypeOK, OneRunning, IdleRuns, NoHealerRestart,
                      ParkTarget, kernVars, plicVars
<1> QED
  BY Z3T(60), <1>1, <1>2

LEMMA DeviceInv ==
    ASSUME SchedInv,
           \/ \E irq \in Irqs : DeviceRaise(irq)
           \/ \E i \in Slots : DriverAck(i)
    PROVE  SchedInv'
<1>1. ASSUME NEW irq \in Irqs, DeviceRaise(irq) PROVE SchedInv'
  BY Z3T(60), <1>1 DEF DeviceRaise, SchedInv, TypeOK, OneRunning, IdleRuns, NoHealerRestart, ParkTarget,
              schedVars, ipcVars, kernVars, healVars
<1>2. ASSUME NEW i \in Slots, DriverAck(i) PROVE SchedInv'
  BY ZenonT(60), <1>2 DEF DriverAck, SchedInv, TypeOK, OneRunning, IdleRuns, NoHealerRestart, ParkTarget,
              schedVars, ipcVars, kernVars, healVars
<1> QED
  BY SMTT(60), <1>1, <1>2

LEMMA ExternalInterruptInv ==
    ASSUME SchedInv, NEW irq \in Irqs, ExternalInterrupt(irq) PROVE SchedInv'
<1> DEFINE waiters == {t \in Tasks : state[t] = WaitingIrq(irq)}
           w == LowestSlot(waiters)
<1>1. pending' \subseteq Irqs /\ claimed' \subseteq Irqs
  BY DEF ExternalInterrupt, Claim, SchedInv, TypeOK
<1>2. /\ state' \in [Tasks -> TaskStates] /\ current' \in Tasks
      /\ OneRunning' /\ state'[Idle] \in {Ready, Running}
  <2>1. CASE waiters = {}
    BY <2>1 DEF ExternalInterrupt, WakeIrq, SchedInv, TypeOK, OneRunning, IdleRuns
  <2>2. CASE waiters # {}
    <3>1. state' = [state EXCEPT ![w] = Ready] /\ current' = current
      BY <2>2 DEF ExternalInterrupt, WakeIrq
    <3>2. w \in waiters
      <4>1. waiters \subseteq Nat
        BY SchedAssumption DEF Tasks
      <4> HIDE DEF waiters
      <4> QED
        BY ZenonT(60), <2>2, <4>1, LowestSlotIn
    <3>3. w \in Tasks /\ w # current /\ w # Idle
      BY Zenon, <3>2, StateFacts DEF SchedInv, OneRunning, IdleRuns
    <3> HIDE DEF w
    <3> QED
      BY Zenon, <3>1, <3>3, WakeKeeps
  <2> QED
    BY ZenonT(60), <2>1, <2>2
<1> QED
  BY Zenon, <1>1, <1>2 DEF ExternalInterrupt, SchedInv, TypeOK, IdleRuns, NoHealerRestart, ParkTarget,
                    ipcVars, kernVars, healVars

LEMMA WaitIrqInv == ASSUME SchedInv, NEW i \in Slots, WaitIrq(i) PROVE SchedInv'
<1> DEFINE irq == caps[current][i].obj
<1>0. current \in Tasks /\ current # Idle
  BY ZenonT(60), UserFacts DEF WaitIrq
<1>1. irq \in Irqs
  BY SMTT(60), <1>0, CapFacts DEF WaitIrq, SchedInv, TypeOK
<1>2. WaitingIrq(irq) \in TaskStates /\ WaitingIrq(irq) # Running
  BY Zenon, <1>1, StateFacts
<1>3. ParkCurrent(WaitingIrq(irq), state) /\ Complete(irq)
  BY Zenon DEF WaitIrq
<1>4. /\ state' \in [Tasks -> TaskStates] /\ current' \in Tasks
      /\ OneRunning' /\ state'[Idle] \in {Ready, Running}
  BY ZenonT(60), <1>0, <1>2, <1>3, ParkNow
<1>5. pending' \subseteq Irqs /\ claimed' \subseteq Irqs
  BY <1>1, <1>3 DEF Complete, SchedInv, TypeOK
<1> QED
  BY Zenon, <1>4, <1>5 DEF WaitIrq, SchedInv, TypeOK, IdleRuns, NoHealerRestart, ParkTarget,
                    ipcVars, kernVars, healVars

LEMMA RecvMessageInv == ASSUME SchedInv, NEW i \in Slots, RecvMessage(i) PROVE SchedInv'
<1> DEFINE ep == caps[current][i].obj
           from == LowestSlot(Waiting(ep, "Send"))
<1>0. current \in Tasks /\ current # Idle
  BY ZenonT(60), BootAssumption DEF RecvMessage, InKernel, InProgram, SchedInv, TypeOK
<1>1. ep \in Endpoints
  <2>1. i \in EndpointCaps(current)
    BY Zenon DEF RecvMessage
  <2> QED BY <1>0, <2>1, EndpointNamed DEF SchedInv
<1>2. CASE Waiting(ep, "Send") # {}
  <2>1. state' = [state EXCEPT ![from] = Ready] /\ current' = current /\ UNCHANGED <<at, parkAs>>
    BY Zenon, <1>2 DEF RecvMessage
  <2>2. from \in Tasks /\ state[from] = Blocked(ep, "Send")
    BY Zenon, <1>2, LowestWaiting
  <2>3. from # current /\ from # Idle
    BY Zenon, <2>2, StateFacts DEF SchedInv, OneRunning, IdleRuns
  <2> HIDE DEF from
  <2>4. /\ state' \in [Tasks -> TaskStates] /\ current' \in Tasks
        /\ OneRunning' /\ state'[Idle] \in {Ready, Running}
    BY ZenonT(60), <2>1, <2>2, <2>3, WakeKeeps
  <2> QED
    BY Zenon, <2>1, <2>4 DEF RecvMessage, SchedInv, TypeOK, IdleRuns, NoHealerRestart, ParkTarget,
                      ipcVars, healVars, plicVars
<1>3. CASE Waiting(ep, "Send") = {}
  <2>1. KernelParkAs(Blocked(ep, "Recv")) /\ state' = state /\ current' = current
    BY <1>3 DEF RecvMessage
  <2>2. Blocked(ep, "Recv") \in TaskStates /\ Blocked(ep, "Recv") # Running
    BY SMTT(60), <1>1, StateFacts
  <2>3. /\ at' \in [Tasks -> Ats] /\ parkAs' \in [Tasks -> TaskStates]
        /\ ParkTarget' /\ at'[Idle] = "run"
    BY <1>0, <2>1, <2>2, ConstantFacts DEF KernelParkAs, SchedInv, TypeOK, Ats, ParkTarget, IdleRuns
  <2> QED
    BY SMTT(60), <2>1, <2>3 DEF RecvMessage, SchedInv, TypeOK, OneRunning, IdleRuns, NoHealerRestart,
                      ipcVars, healVars, plicVars
<1> QED
  BY Zenon, <1>2, <1>3

LEMMA CallMessageInv == ASSUME SchedInv, NEW i \in Slots, CallMessage(i) PROVE SchedInv'
<1> DEFINE ep == caps[current][i].obj
           r == LowestSlot(Waiting(ep, "Recv"))
<1>0. current \in Tasks /\ current # Idle
  BY ZenonT(60), BootAssumption DEF CallMessage, InKernel, InProgram, SchedInv, TypeOK
<1>1. ep \in Endpoints
  <2>1. i \in EndpointCaps(current)
    BY Zenon DEF CallMessage
  <2> QED BY <1>0, <2>1, EndpointNamed DEF SchedInv
<1>2. ASSUME NEW as \in TaskStates, as # Running, KernelParkAs(as)
      PROVE  /\ at' \in [Tasks -> Ats] /\ parkAs' \in [Tasks -> TaskStates]
             /\ ParkTarget' /\ at'[Idle] = "run"
  BY ZenonT(60), <1>0, <1>2, ConstantFacts DEF KernelParkAs, SchedInv, TypeOK, Ats, ParkTarget, IdleRuns
<1>3. CASE Waiting(ep, "Recv") # {}
  <2>1. /\ message' = [message EXCEPT ![r] = Message(current, 0)]
        /\ caller' = [caller EXCEPT ![r] = current]
        /\ state' = [state EXCEPT ![r] = Ready] /\ current' = current
        /\ KernelParkAs(AwaitingReply)
    BY <1>3 DEF CallMessage
  <2>2. r \in Tasks /\ state[r] = Blocked(ep, "Recv")
    BY SMTT(60), <1>3, LowestWaiting
  <2>3. r # current /\ r # Idle
    BY Z3T(60), <2>2, StateFacts DEF SchedInv, OneRunning, IdleRuns
  <2> HIDE DEF r
  <2>4. /\ state' \in [Tasks -> TaskStates] /\ current' \in Tasks
        /\ OneRunning' /\ state'[Idle] \in {Ready, Running}
    BY Zenon, <2>1, <2>2, <2>3, WakeKeeps
  <2>5. message' \in [Tasks -> Messages] /\ caller' \in [Tasks -> Tasks \cup {Nil}]
    BY ZenonT(60), <1>0, <2>1, ConstantFacts DEF SchedInv, TypeOK, Message, Messages
  <2>6. AwaitingReply \in TaskStates /\ AwaitingReply # Running
    BY StateFacts
  <2> QED
    BY SMTT(60), <1>2, <2>1, <2>4, <2>5, <2>6 DEF CallMessage, SchedInv, TypeOK, IdleRuns, NoHealerRestart,
                      healVars, plicVars
<1>4. CASE Waiting(ep, "Recv") = {}
  <2>1. /\ message' = [message EXCEPT ![current] = Message(current, 0)]
        /\ KernelParkAs(Blocked(ep, "Call"))
        /\ UNCHANGED <<caller, state, current>>
    BY <1>4 DEF CallMessage
  <2>2. Blocked(ep, "Call") \in TaskStates /\ Blocked(ep, "Call") # Running
    BY <1>1, StateFacts
  <2>3. message' \in [Tasks -> Messages]
    BY Zenon, <1>0, <2>1, ConstantFacts DEF SchedInv, TypeOK, Message, Messages
  <2> QED
    BY ZenonT(60), <1>2, <2>1, <2>2, <2>3 DEF CallMessage, SchedInv, TypeOK, OneRunning, IdleRuns,
                      NoHealerRestart, healVars, plicVars
<1> QED
  BY <1>3, <1>4

LEMMA KernelParkInv == ASSUME SchedInv, KernelPark PROVE SchedInv'
<1>0. current \in Tasks /\ current # Idle /\ parkAs[current] \in TaskStates /\ parkAs[current] # Running
  BY DEF KernelPark, SchedInv, TypeOK, IdleRuns, ParkTarget
<1>1. /\ state' \in [Tasks -> TaskStates] /\ current' \in Tasks
      /\ OneRunning' /\ state'[Idle] \in {Ready, Running}
  BY <1>0, ParkNow DEF KernelPark
<1>2. /\ at' \in [Tasks -> Ats] /\ parkAs' \in [Tasks -> TaskStates]
      /\ ParkTarget' /\ at'[Idle] = "run"
  BY <1>0, ConstantFacts, StateFacts DEF KernelPark, SchedInv, TypeOK, Ats, ParkTarget, IdleRuns
<1>3. sie' \in [KernelTasks -> BOOLEAN]
  BY Zenon DEF KernelPark, SchedInv, TypeOK
<1> QED
  BY Zenon, <1>1, <1>2, <1>3 DEF KernelPark, SchedInv, TypeOK, IdleRuns, NoHealerRestart,
                          ipcVars, healVars, plicVars

-----------------------------------------------------------------------------
LEMMA SchedInvNext == SchedInv /\ [Next]_vars => SchedInv'
<1> SUFFICES ASSUME SchedInv, [Next]_vars PROVE SchedInv'
  OBVIOUS
<1>1. CASE Yield \/ Tick
  BY <1>1, YieldNowInv DEF Yield, Tick
<1>2. CASE Resume
  BY <1>2, ResumeRecvInv, ResumeMsgInv DEF Resume
<1>3. CASE Exit \/ RestartTask \/ \E q \in BOOLEAN : Crash(q)
  BY Zenon, <1>3, ExitInv, RestartTaskInv, CrashInv
<1>4. CASE Ipc
  BY Zenon, <1>4, IpcRecvInv, IpcSendInv, IpcCallInv, IpcReplyInv, IpcRevokeInv, IpcGrantInv DEF Ipc
<1>5. CASE KernelIpc
  BY Zenon, <1>5, RecvMessageInv, CallMessageInv, KernelParkInv DEF KernelIpc
<1>6. CASE Interrupts
  BY ZenonT(60), <1>6, DeviceInv, ExternalInterruptInv, WaitIrqInv DEF Interrupts
<1>7. CASE UNCHANGED vars
  BY <1>7 DEF SchedInv, TypeOK, OneRunning, IdleRuns, NoHealerRestart, ParkTarget, vars,
              schedVars, ipcVars, kernVars, healVars, plicVars
<1> QED
  BY <1>1, <1>2, <1>3, <1>4, <1>5, <1>6, <1>7 DEF Next

(* Every reachable state of the scheduler is well typed, in particular no  *)
(* task is restarted more than MAX_RESTARTS times.                         *)
THEOREM TypeCorrect == Spec => []TypeOK
<1>1. SchedInv => TypeOK
  BY DEF SchedInv
<1> QED
  BY <1>1, SchedInvInit, SchedInvNext, PTL DEF Spec

(* Exactly the current task is Running, whatever the tasks do.             *)
THEOREM OneTaskRuns == Spec => []OneRunning
<1>1. SchedInv => OneRunning
  BY Zenon DEF SchedInv
<1> QED
  BY <1>1, SchedInvInit, SchedInvNext, PTL DEF Spec

(* A task that parks, exits or crashes has a successor: the assertions in  *)
(* park_current and exit_current hold, for any number of tasks.            *)
THEOREM SuccessorAlways == Spec => []SuccessorExists
<1>1. SchedInv => SuccessorExists
  <2> SUFFICES ASSUME SchedInv, current # Idle PROVE PickNext(current, state) # current
    BY Zenon DEF SuccessorExists
  <2>1. state[Idle] = Ready /\ state[current] = Running /\ current \in Tasks /\ Idle \in Tasks
    BY Zenon, ConstantFacts DEF SchedInv, IdleRuns, OneRunning, TypeOK
  <2>2. state[current] # Ready
    BY <2>1, StateFacts
  <2> QED
    BY <2>1, <2>2, PickNextFinds
<1> QED
  BY <1>1, SchedInvInit, SchedInvNext, PTL DEF Spec
=============================================================================
