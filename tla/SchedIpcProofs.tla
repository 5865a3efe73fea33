-------------------------- MODULE SchedIpcProofs ---------------------------
(***************************************************************************)
(* What each of the scheduler's operations does, task by task, and what    *)
(* follows for messages and rendezvous, for every number of tasks, slots,  *)
(* endpoints and interrupts and every set of programs.                     *)
(***************************************************************************)
EXTENDS SchedProofs

-----------------------------------------------------------------------------
(* What each operation does to the task table, task by task.  A task that  *)
(* is switched to or preempted stays awake: for what follows it is still.  *)

Awake == {Ready, Running}

Still(t) == state'[t] = state[t] \/ (state[t] \in Awake /\ state'[t] \in Awake)

StillBut(w) == \A t \in Tasks : t = w \/ Still(t)

(* yield_now and preemption wake and park nobody.                          *)
LEMMA YieldEffect == ASSUME SchedInv, YieldNow PROVE \A t \in Tasks : Still(t)
<1> DEFINE next == PickNext(current, state)
<1>0. current \in Tasks /\ state \in [Tasks -> TaskStates]
  BY DEF SchedInv, TypeOK
<1>1. next \in Tasks /\ (next = current \/ state[next] = Ready)
  BY Zenon, <1>0, PickNextType
<1>2. CASE UNCHANGED schedVars
  BY <1>2 DEF Still, schedVars
<1>3. CASE SwitchTo(next, [state EXCEPT ![current] = Ready])
  <2> HIDE DEF next
  <2>1. state' = [[state EXCEPT ![current] = Ready] EXCEPT ![next] = Running] /\ next # current
    BY <1>3 DEF SwitchTo
  <2>2. state[current] = Running /\ state[next] = Ready
    BY <1>0, <1>1, <2>1 DEF SchedInv, OneRunning
  <2> QED
    BY <1>0, <1>1, <2>1, <2>2 DEF Still, Awake
<1> QED
  BY <1>2, <1>3 DEF YieldNow

(* park_current moves the parked task; whoever runs next was Ready.        *)
LEMMA ParkEffect ==
    ASSUME SchedInv, current # Idle, NEW as \in TaskStates, as # Running, ParkCurrent(as, state)
    PROVE  state'[current] = as /\ StillBut(current)
<1>1. /\ current' \in Tasks /\ current' # current /\ state[current'] = Ready
      /\ state' = [state EXCEPT ![current] = as, ![current'] = Running]
  BY Zenon, ParkNow
<1>2. current \in Tasks /\ state \in [Tasks -> TaskStates]
  BY DEF SchedInv, TypeOK
<1>3. state'[current] = as
  BY <1>1, <1>2
<1>4. ASSUME NEW t \in Tasks, t # current PROVE Still(t)
  BY <1>1, <1>2, <1>4 DEF Still, Awake
<1> QED
  BY Zenon, <1>3, <1>4 DEF StillBut

(* A task made Ready by an operation that switches nothing.                *)
LEMMA WakeEffect ==
    ASSUME SchedInv, NEW w \in Tasks, NEW s, state' = [state EXCEPT ![w] = s]
    PROVE  state'[w] = s /\ \A t \in Tasks : t = w \/ state'[t] = state[t]
BY DEF SchedInv, TypeOK

(* A task that is blocked or waits is neither running nor idle.            *)
LEMMA NotAwake ==
    ASSUME SchedInv, NEW t \in Tasks, state[t] \notin Awake
    PROVE  t # current /\ t # Idle
BY DEF SchedInv, OneRunning, IdleRuns, Awake

LEMMA BlockedFacts ==
    /\ \A ep, role : Blocked(ep, role) \notin Awake /\ Blocked(ep, role) # Exited
                        /\ Blocked(ep, role) # AwaitingReply
    /\ \A irq : WaitingIrq(irq) \notin Awake /\ WaitingIrq(irq) # Exited
                    /\ WaitingIrq(irq) # AwaitingReply
    /\ \A ep, role, irq : Blocked(ep, role) # WaitingIrq(irq)
    /\ Exited \notin Awake /\ AwaitingReply \notin Awake /\ Exited # AwaitingReply
    /\ Ready \in Awake /\ Running \in Awake
    /\ \A i, j : WaitingIrq(i) = WaitingIrq(j) => i = j
    /\ \A e1, r1, e2, r2 : Blocked(e1, r1) = Blocked(e2, r2) => e1 = e2 /\ r1 = r2
<1>1. \A i, j : WaitingIrq(i) = WaitingIrq(j) => i = j
  BY DEF WaitingIrq, TaskState
<1> QED
  BY <1>1, StateFacts DEF Awake

(* recv, when somebody waits to send or call.                              *)
RecvTakes(ep, rs, from) ==
    /\ \/ state[from] = Blocked(ep, "Send") /\ state'[from] = Ready
       \/ state[from] = Blocked(ep, "Call") /\ state'[from] = AwaitingReply
    /\ \A t \in Tasks : t = from \/ state'[t] = state[t]
    /\ \A t \in Tasks, p \in Slots :
          \/ caps'[t][p] = caps[t][p]
          \/ /\ t = current /\ p = rs
             /\ \/ caps'[t][p] = pendingGrant[from]
                \/ caps'[t][p] = Reply(from) /\ state[from] = Blocked(ep, "Call")
    /\ \A t \in Tasks : pendingGrant'[t] = IF t = from THEN NoCap ELSE pendingGrant[t]
    /\ Received(message[from])
    /\ UNCHANGED <<current, message, caller, at>>

(* recv, when nobody does.                                                 *)
RecvParks(ep) ==
    /\ Waiting(ep, "Send") = {} /\ Waiting(ep, "Call") = {}
    /\ state'[current] = Blocked(ep, "Recv") /\ StillBut(current)
    /\ \A t \in Tasks : at'[t] = IF t = current THEN "recv" ELSE at[t]
    /\ UNCHANGED <<caps, message, caller, pendingGrant, verdict>>

(* The caller of a system call with an endpoint capability.                *)
Caller(i, ep, call) ==
    /\ current \in UserTasks /\ state[current] = Running /\ at[current] = "run"
    /\ call \in Program[current] /\ caps[current][i] = Endpoint(ep)

LEMMA EndpointEffect ==
    ASSUME SchedInv, current \in Tasks, NEW i \in Slots, i \in EndpointCaps(current)
    PROVE  /\ caps[current][i].obj \in Endpoints
           /\ caps[current][i] = Endpoint(caps[current][i].obj)
<1>1. caps[current][i] \in Caps /\ caps[current][i].kind = "Endpoint"
  BY DEF SchedInv, TypeOK, EndpointCaps
<1> QED
  BY <1>1, CapFacts

LEMMA RecvEffect ==
    ASSUME SchedInv, NEW i \in Slots, NEW rs \in SlotArgs, IpcRecv(i, rs)
    PROVE  /\ HealerLoop(i, rs) /\ UNCHANGED <<kernVars, plicVars>>
           /\ \E ep \in Endpoints :
                 /\ Caller(i, ep, "recv")
                 /\ (\E from \in Tasks : RecvTakes(ep, rs, from)) \/ RecvParks(ep)
<1> DEFINE ep == caps[current][i].obj
           senders == Waiting(ep, "Send")
           callers == Waiting(ep, "Call")
           from == LowestSlot(IF senders # {} THEN senders ELSE callers)
           minted == IF senders # {} THEN caps ELSE MintReply(caps, current, rs, from)
<1>0. /\ current \in Tasks /\ current # Idle /\ state[current] = Running
      /\ at[current] = "run" /\ current \in UserTasks /\ "recv" \in Program[current]
  BY ZenonT(60), UserFacts DEF IpcRecv, InUser
<1>a. HealerLoop(i, rs) /\ UNCHANGED <<kernVars, plicVars>> /\ i \in EndpointCaps(current)
  BY Zenon DEF IpcRecv
<1>1. ep \in Endpoints /\ caps[current][i] = Endpoint(ep)
  BY Zenon, <1>0, <1>a, EndpointEffect
<1>2. CASE senders \cup callers # {}
  <2>1. /\ state' = [state EXCEPT ![from] = IF senders # {} THEN Ready ELSE AwaitingReply]
        /\ caps' = InstallCap(minted, current, rs, pendingGrant[from])
        /\ pendingGrant' = [pendingGrant EXCEPT ![from] = NoCap]
        /\ Received(message[from])
        /\ UNCHANGED <<current, message, caller, at>>
    BY Zenon, <1>2 DEF IpcRecv, TakeGrant
  <2>2. from \in Tasks /\ state[from] = Blocked(ep, IF senders # {} THEN "Send" ELSE "Call")
    <3>1. CASE senders # {}
      BY Zenon, <3>1, LowestWaiting
    <3>2. CASE senders = {}
      <4>1. callers # {}
        BY ZenonT(60), <1>2, <3>2
      <4> QED
        BY Zenon, <3>2, <4>1, LowestWaiting
    <3> QED
      BY Zenon, <3>1, <3>2
  <2> HIDE DEF from
  <2>3. /\ minted \in [Tasks -> [Slots -> Caps]]
        /\ \A t \in Tasks, p \in Slots :
              \/ minted[t][p] = caps[t][p]
              \/ t = current /\ p = rs /\ minted[t][p] = Reply(from) /\ senders = {}
    <3>1. CASE senders # {}
      BY <3>1 DEF SchedInv, TypeOK
    <3>2. CASE senders = {}
      <4>1. minted = MintReply(caps, current, rs, from) /\ caps \in [Tasks -> [Slots -> Caps]]
        BY <3>2 DEF SchedInv, TypeOK
      <4> HIDE DEF minted
      <4> QED
        BY <1>0, <2>2, <3>2, <4>1, MintReplyFacts
    <3> QED
      BY Zenon, <3>1, <3>2
  <2> HIDE DEF minted
  <2>4. pendingGrant[from] \in Caps
    BY <2>2 DEF SchedInv, TypeOK
  <2>5. \A t \in Tasks, p \in Slots :
           caps'[t][p] = IF t = current /\ p = rs /\ pendingGrant[from] # NoCap
                         THEN pendingGrant[from] ELSE minted[t][p]
    <3> HIDE DEF senders, callers
    <3>1. caps' = InstallCap(minted, current, rs, pendingGrant[from])
      BY Zenon, <2>1
    <3> QED
      BY SMTT(60), <1>0, <2>3, <2>4, <3>1, InstallCapFacts
  <2>6. \/ state' = [state EXCEPT ![from] = Ready] /\ senders # {}
        \/ state' = [state EXCEPT ![from] = AwaitingReply] /\ senders = {}
    <3> DEFINE s == IF senders # {} THEN Ready ELSE AwaitingReply
    <3>1. state' = [state EXCEPT ![from] = s]
      BY Zenon, <2>1
    <3>2. (s = Ready /\ senders # {}) \/ (s = AwaitingReply /\ senders = {})
      <4> HIDE DEF senders
      <4> QED OBVIOUS
    <3> HIDE DEF s
    <3> QED
      BY Zenon, <3>1, <3>2
  <2>7. \A t \in Tasks : pendingGrant'[t] = IF t = from THEN NoCap ELSE pendingGrant[t]
    BY <2>1 DEF SchedInv, TypeOK
  <2>8. \A t \in Tasks, p \in Slots :
          \/ caps'[t][p] = caps[t][p]
          \/ /\ t = current /\ p = rs
             /\ \/ caps'[t][p] = pendingGrant[from]
                \/ caps'[t][p] = Reply(from) /\ state[from] = Blocked(ep, "Call")
    <3> HIDE DEF ep, senders, callers
    <3> QED
      BY SMTT(30), <2>2, <2>3, <2>5
  <2>9. /\ \/ state[from] = Blocked(ep, "Send") /\ state'[from] = Ready
           \/ state[from] = Blocked(ep, "Call") /\ state'[from] = AwaitingReply
        /\ \A t \in Tasks : t = from \/ state'[t] = state[t]
    BY Zenon, <2>2, <2>6, WakeEffect
  <2>10. RecvTakes(ep, rs, from)
    BY Zenon, <2>1, <2>7, <2>8, <2>9 DEF RecvTakes
  <2> QED
    BY Zenon, <1>0, <1>a, <1>1, <2>2, <2>10 DEF Caller
<1>3. CASE senders \cup callers = {}
  <2>1. /\ ParkCurrent(Blocked(ep, "Recv"), state)
        /\ at' = [at EXCEPT ![current] = "recv"]
        /\ UNCHANGED <<caps, message, caller, pendingGrant, verdict>>
    BY Zenon, <1>3 DEF IpcRecv
  <2>2. Blocked(ep, "Recv") \in TaskStates /\ Blocked(ep, "Recv") # Running
    BY ZenonT(60), <1>1, StateFacts
  <2>3. state'[current] = Blocked(ep, "Recv") /\ StillBut(current)
    BY Zenon, <1>0, <2>1, <2>2, ParkEffect
  <2>4. \A t \in Tasks : at'[t] = IF t = current THEN "recv" ELSE at[t]
    BY <2>1 DEF SchedInv, TypeOK
  <2>5. Waiting(ep, "Send") = {} /\ Waiting(ep, "Call") = {}
    BY <1>3
  <2>6. RecvParks(ep)
    BY Zenon, <2>1, <2>3, <2>4, <2>5 DEF RecvParks
  <2> QED
    BY Zenon, <1>0, <1>a, <1>1, <2>6 DEF Caller
<1> QED
  BY Zenon, <1>2, <1>3
(* The rest of a blocked recv: the receiver mints the reply capability of  *)
(* the caller that was handed to it, or takes the capability granted.      *)
LEMMA ResumeRecvEffect ==
    ASSUME SchedInv, ResumeRecv
    PROVE  /\ current \in Tasks /\ at[current] = "recv"
           /\ \A t \in Tasks, p \in Slots :
                 \/ caps'[t][p] = caps[t][p]
                 \/ /\ t = current /\ p = slot[current]
                    /\ \/ pendingGrant[current] # NoCap /\ caps'[t][p] = pendingGrant[current]
                       \/ caller[current] \in Tasks /\ caps'[t][p] = Reply(caller[current])
           /\ \A t \in Tasks : caller'[t] = IF t = current THEN Nil ELSE caller[t]
           /\ \A t \in Tasks : pendingGrant'[t] = IF t = current THEN NoCap ELSE pendingGrant[t]
           /\ \A t \in Tasks : at'[t] = IF t = current THEN "run" ELSE at[t]
           /\ Received(message[current])
           /\ UNCHANGED <<current, state, message, kernVars, plicVars>>
<1> DEFINE minted == MintReply(caps, current, slot[current], caller[current])
<1>0. /\ current \in Tasks /\ at[current] = "recv" /\ Received(message[current])
      /\ caps' = InstallCap(minted, current, slot[current], pendingGrant[current])
      /\ caller' = [caller EXCEPT ![current] = Nil]
      /\ pendingGrant' = [pendingGrant EXCEPT ![current] = NoCap]
      /\ at' = [at EXCEPT ![current] = "run"]
      /\ UNCHANGED <<current, state, message, kernVars, plicVars>>
  BY Zenon DEF ResumeRecv, SchedInv, TypeOK, TakeCaller, TakeGrant, schedVars
<1>1. /\ caps \in [Tasks -> [Slots -> Caps]] /\ caller[current] \in Tasks \cup {Nil}
      /\ pendingGrant[current] \in Caps
  BY <1>0 DEF SchedInv, TypeOK
<1>2. /\ minted \in [Tasks -> [Slots -> Caps]]
      /\ \A t \in Tasks, p \in Slots :
            \/ minted[t][p] = caps[t][p]
            \/ /\ t = current /\ p = slot[current] /\ caller[current] \in Tasks
               /\ minted[t][p] = Reply(caller[current])
  BY <1>0, <1>1, MintReplyFacts
<1> HIDE DEF minted
<1>3. \A t \in Tasks, p \in Slots :
         caps'[t][p] = IF t = current /\ p = slot[current] /\ pendingGrant[current] # NoCap
                       THEN pendingGrant[current] ELSE minted[t][p]
  <2>1. caps' = InstallCap(minted, current, slot[current], pendingGrant[current])
    BY Zenon, <1>0
  <2> QED
    BY SMTT(60), <1>0, <1>1, <1>2, <2>1, InstallCapFacts
<1>4. \A t \in Tasks, p \in Slots :
         \/ caps'[t][p] = caps[t][p]
         \/ /\ t = current /\ p = slot[current]
            /\ \/ pendingGrant[current] # NoCap /\ caps'[t][p] = pendingGrant[current]
               \/ caller[current] \in Tasks /\ caps'[t][p] = Reply(caller[current])
  BY SMTT(30), <1>2, <1>3
<1>5. /\ \A t \in Tasks : caller'[t] = IF t = current THEN Nil ELSE caller[t]
      /\ \A t \in Tasks : pendingGrant'[t] = IF t = current THEN NoCap ELSE pendingGrant[t]
      /\ \A t \in Tasks : at'[t] = IF t = current THEN "run" ELSE at[t]
  BY <1>0 DEF SchedInv, TypeOK
<1> QED
  BY Zenon, <1>0, <1>4, <1>5

(* What a message delivered to r changes.                                  *)
Hands(r, cap) ==
    /\ \A t \in Tasks : t = r \/ (message'[t] = message[t] /\ pendingGrant'[t] = pendingGrant[t])
    /\ pendingGrant'[r] \in {pendingGrant[r], cap}
    /\ cap = NoCap => pendingGrant'[r] = pendingGrant[r]

LEMMA DeliverEffect ==
    ASSUME SchedInv, NEW r \in Tasks, NEW cap, Deliver(r, cap) PROVE Hands(r, cap)
BY DEF Deliver, Hands, SchedInv, TypeOK

(* send and grant.                                                         *)
Sends(ep, cap) ==
    \/ \E r \in Tasks : /\ state[r] = Blocked(ep, "Recv") /\ Hands(r, cap)
                        /\ state'[r] = Ready
                        /\ \A t \in Tasks : t = r \/ state'[t] = state[t]
                        /\ current' = current
    \/ /\ Waiting(ep, "Recv") = {} /\ Hands(current, cap)
       /\ state'[current] = Blocked(ep, "Send") /\ StillBut(current)

LEMMA SendOrQueueEffect ==
    ASSUME SchedInv, current \in Tasks, current # Idle, NEW ep \in Endpoints, NEW cap,
           SendOrQueue(ep, cap)
    PROVE  Sends(ep, cap)
<1> DEFINE r == LowestSlot(Waiting(ep, "Recv"))
<1>1. CASE Waiting(ep, "Recv") # {}
  <2>1. Deliver(r, cap) /\ state' = [state EXCEPT ![r] = Ready] /\ current' = current
    BY Zenon, <1>1 DEF SendOrQueue
  <2>2. r \in Tasks /\ state[r] = Blocked(ep, "Recv")
    BY ZenonT(60), <1>1, LowestWaiting
  <2> HIDE DEF r
  <2>3. Hands(r, cap) /\ state'[r] = Ready /\ \A t \in Tasks : t = r \/ state'[t] = state[t]
    BY Zenon, <2>1, <2>2, DeliverEffect, WakeEffect
  <2> QED
    BY Zenon, <2>1, <2>2, <2>3 DEF Sends
<1>2. CASE Waiting(ep, "Recv") = {}
  <2>1. Deliver(current, cap) /\ ParkCurrent(Blocked(ep, "Send"), state)
    BY Zenon, <1>2 DEF SendOrQueue
  <2>2. Blocked(ep, "Send") \in TaskStates /\ Blocked(ep, "Send") # Running
    BY ZenonT(60), StateFacts
  <2> QED
    BY Zenon, <1>2, <2>1, <2>2, DeliverEffect, ParkEffect DEF Sends
<1> QED
  BY Zenon, <1>1, <1>2

LEMMA SendEffect ==
    ASSUME SchedInv, NEW i \in Slots, IpcSend(i)
    PROVE  /\ UNCHANGED <<caps, caller, at, kernVars, healVars, plicVars>>
           /\ \E ep \in Endpoints : Caller(i, ep, "send") /\ Sends(ep, NoCap)
<1>0. /\ current \in Tasks /\ current # Idle /\ state[current] = Running
      /\ at[current] = "run" /\ current \in UserTasks /\ "send" \in Program[current]
  BY ZenonT(60), UserFacts DEF IpcSend, InUser
<1>1. /\ UNCHANGED <<caps, caller, at, kernVars, healVars, plicVars>>
      /\ i \in EndpointCaps(current) /\ SendOrQueue(caps[current][i].obj, NoCap)
  BY Zenon DEF IpcSend
<1>2. caps[current][i].obj \in Endpoints /\ caps[current][i] = Endpoint(caps[current][i].obj)
  BY Zenon, <1>0, <1>1, EndpointEffect
<1>3. Sends(caps[current][i].obj, NoCap)
  BY Zenon, <1>0, <1>1, <1>2, SendOrQueueEffect
<1> QED
  BY Zenon, <1>0, <1>1, <1>2, <1>3 DEF Caller

LEMMA GrantEffect ==
    ASSUME SchedInv, NEW i \in Slots, NEW src \in Slots, IpcGrant(i, src)
    PROVE  /\ UNCHANGED <<caps, caller, at, kernVars, healVars, plicVars>>
           /\ caps[current][src].kind \in Delegable
           /\ \E ep \in Endpoints : Caller(i, ep, "grant") /\ Sends(ep, caps[current][src])
<1>0. /\ current \in Tasks /\ current # Idle /\ state[current] = Running
      /\ at[current] = "run" /\ current \in UserTasks /\ "grant" \in Program[current]
  BY ZenonT(60), UserFacts DEF IpcGrant, InUser
<1>1. /\ UNCHANGED <<caps, caller, at, kernVars, healVars, plicVars>>
      /\ caps[current][src].kind \in Delegable
      /\ i \in EndpointCaps(current) /\ SendOrQueue(caps[current][i].obj, caps[current][src])
  BY Zenon DEF IpcGrant
<1>2. caps[current][i].obj \in Endpoints /\ caps[current][i] = Endpoint(caps[current][i].obj)
  BY Zenon, <1>0, <1>1, EndpointEffect
<1>3. Sends(caps[current][i].obj, caps[current][src])
  BY Zenon, <1>0, <1>1, <1>2, SendOrQueueEffect
<1> QED
  BY Zenon, <1>0, <1>1, <1>2, <1>3 DEF Caller
(* call.                                                                   *)
PlacesCall(ep) ==
    \/ \E r \in Tasks : /\ state[r] = Blocked(ep, "Recv") /\ Hands(r, NoCap)
                        /\ state'[r] \in Awake /\ state'[current] = AwaitingReply
                        /\ \A t \in Tasks : t \in {r, current} \/ Still(t)
                        /\ \A t \in Tasks : caller'[t] = IF t = r THEN current ELSE caller[t]
    \/ /\ Waiting(ep, "Recv") = {} /\ Hands(current, NoCap) /\ caller' = caller
       /\ state'[current] = Blocked(ep, "Call") /\ StillBut(current)

LEMMA CallEffect ==
    ASSUME SchedInv, NEW i \in Slots, IpcCall(i)
    PROVE  /\ UNCHANGED <<caps, kernVars, healVars, plicVars>>
           /\ \A t \in Tasks : at'[t] = IF t = current THEN "msg" ELSE at[t]
           /\ \E ep \in Endpoints : Caller(i, ep, "call") /\ PlacesCall(ep)
<1> DEFINE ep == caps[current][i].obj
           r == LowestSlot(Waiting(ep, "Recv"))
<1>0. /\ current \in Tasks /\ current # Idle /\ state[current] = Running
      /\ at[current] = "run" /\ current \in UserTasks /\ "call" \in Program[current]
  BY ZenonT(60), UserFacts DEF IpcCall, InUser
<1>1. /\ UNCHANGED <<caps, kernVars, healVars, plicVars>> /\ i \in EndpointCaps(current)
      /\ at' = [at EXCEPT ![current] = "msg"]
  BY Zenon DEF IpcCall
<1>2. ep \in Endpoints /\ caps[current][i] = Endpoint(ep)
  BY Zenon, <1>0, <1>1, EndpointEffect
<1>3. \A t \in Tasks : at'[t] = IF t = current THEN "msg" ELSE at[t]
  BY <1>1 DEF SchedInv, TypeOK
<1>4. CASE Waiting(ep, "Recv") # {}
  <2>1. /\ Deliver(r, NoCap) /\ caller' = [caller EXCEPT ![r] = current]
        /\ ParkCurrent(AwaitingReply, [state EXCEPT ![r] = Ready])
    BY Zenon, <1>4 DEF IpcCall
  <2>2. r \in Tasks /\ state[r] = Blocked(ep, "Recv")
    BY ZenonT(60), <1>4, LowestWaiting
  <2> HIDE DEF r, ep
  <2>3. r # current /\ r # Idle
    BY <2>2, NotAwake, BlockedFacts
  <2>4. /\ current' # current
        /\ state' = [[[state EXCEPT ![r] = Ready] EXCEPT ![current] = AwaitingReply] EXCEPT ![current'] = Running]
    BY Zenon, <2>1 DEF ParkCurrent, SwitchTo
  <2>5. current' \in Tasks /\ (current' = r \/ state[current'] = Ready)
    <3> DEFINE st == [state EXCEPT ![r] = Ready]
               parked == [st EXCEPT ![current] = AwaitingReply]
    <3>1. parked \in [Tasks -> TaskStates]
      BY ZenonT(60), StateFacts DEF SchedInv, TypeOK
    <3>2. current' = PickNext(current, parked) /\ current' # current
      BY Zenon, <2>1 DEF ParkCurrent, SwitchTo
    <3> HIDE DEF parked
    <3>3. current' \in Tasks /\ parked[current'] = Ready
      BY Zenon, <1>0, <3>1, <3>2, PickNextType
    <3> USE DEF parked
    <3> QED
      BY <1>0, <2>2, <2>3, <3>2, <3>3 DEF SchedInv, TypeOK
  <2>6. /\ state'[r] \in Awake /\ state'[current] = AwaitingReply
        /\ \A t \in Tasks : t \in {r, current} \/ Still(t)
    BY SMTT(30), <1>0, <2>2, <2>3, <2>4, <2>5 DEF SchedInv, TypeOK, Awake, Still
  <2>7. \A t \in Tasks : caller'[t] = IF t = r THEN current ELSE caller[t]
    BY <2>1 DEF SchedInv, TypeOK
  <2>8. Hands(r, NoCap)
    BY Zenon, <2>1, <2>2, DeliverEffect
  <2>9. PlacesCall(ep)
    BY Zenon, <2>2, <2>6, <2>7, <2>8 DEF PlacesCall
  <2> QED
    BY Zenon, <1>0, <1>1, <1>2, <1>3, <2>9 DEF Caller
<1>5. CASE Waiting(ep, "Recv") = {}
  <2>1. Deliver(current, NoCap) /\ ParkCurrent(Blocked(ep, "Call"), state) /\ caller' = caller
    BY Zenon, <1>5 DEF IpcCall
  <2>2. Blocked(ep, "Call") \in TaskStates /\ Blocked(ep, "Call") # Running
    BY ZenonT(60), <1>2, StateFacts
  <2>3. PlacesCall(ep)
    BY Zenon, <1>0, <1>5, <2>1, <2>2, DeliverEffect, ParkEffect DEF PlacesCall
  <2> QED
    BY Zenon, <1>0, <1>1, <1>2, <1>3, <2>3 DEF Caller
<1> QED
  BY Zenon, <1>4, <1>5

(* reply: the capability goes, and the caller it names is woken if waiting.*)
Replies(i, c) ==
    /\ caps[current][i] = Reply(c)
    /\ \A t \in Tasks, p \in Slots :
          caps'[t][p] = IF t = current /\ p = i THEN NoCap ELSE caps[t][p]
    /\ \A t \in Tasks : t = c \/ (state'[t] = state[t] /\ message'[t] = message[t])
    /\ \/ state[c] = AwaitingReply /\ state'[c] = Ready
       \/ state[c] # AwaitingReply /\ state'[c] = state[c] /\ message'[c] = message[c]

LEMMA ReplyEffect ==
    ASSUME SchedInv, NEW i \in Slots, IpcReply(i)
    PROVE  /\ UNCHANGED <<current, caller, pendingGrant, at, kernVars, healVars, plicVars>>
           /\ current \in UserTasks /\ current \in Tasks /\ "reply" \in Program[current]
           /\ \E c \in Tasks : Replies(i, c)
<1> DEFINE c == caps[current][i].obj
<1>0. /\ current \in Tasks /\ current \in UserTasks /\ "reply" \in Program[current]
  BY ZenonT(60), UserFacts DEF IpcReply, InUser
<1>1. /\ UNCHANGED <<current, caller, pendingGrant, at, kernVars, healVars, plicVars>>
      /\ caps[current][i].kind = "Reply" /\ caps' = [caps EXCEPT ![current][i] = NoCap]
  BY Zenon DEF IpcReply, ConsumeReplyCap
<1>2. c \in Tasks /\ caps[current][i] = Reply(c)
  <2>1. caps[current][i] \in Caps
    BY <1>0 DEF SchedInv, TypeOK
  <2> QED
    BY <1>1, <2>1, CapFacts
<1>3. \A t \in Tasks, p \in Slots :
         caps'[t][p] = IF t = current /\ p = i THEN NoCap ELSE caps[t][p]
  BY <1>0, <1>1 DEF SchedInv, TypeOK
<1>4. /\ \A t \in Tasks : t = c \/ (state'[t] = state[t] /\ message'[t] = message[t])
      /\ \/ state[c] = AwaitingReply /\ state'[c] = Ready
         \/ state[c] # AwaitingReply /\ state'[c] = state[c] /\ message'[c] = message[c]
  <2> HIDE DEF c
  <2>1. CASE state[c] = AwaitingReply
    <3>1. /\ message' = [message EXCEPT ![c] = Message(current, 0)]
          /\ state' = [state EXCEPT ![c] = Ready]
      BY Zenon, <2>1 DEF IpcReply, c
    <3> QED
      BY <1>2, <2>1, <3>1 DEF SchedInv, TypeOK
  <2>2. CASE state[c] # AwaitingReply
    <3>1. message' = message /\ state' = state
      BY Zenon, <2>2 DEF IpcReply, c
    <3> QED
      BY Zenon, <2>2, <3>1
  <2> QED
    BY Zenon, <2>1, <2>2
<1> QED
  BY Zenon, <1>0, <1>1, <1>2, <1>3, <1>4 DEF Replies

(* revoke: nobody gains a capability, and only copies of the capability    *)
(* the revoker holds go.                                                   *)
LEMMA RevokeEffect ==
    ASSUME SchedInv, NEW i \in Slots, IpcRevoke(i)
    PROVE  /\ UNCHANGED <<current, state, message, caller, pendingGrant, at, kernVars, healVars, plicVars>>
           /\ \E ep \in Endpoints :
                 /\ Caller(i, ep, "revoke")
                 /\ \A t \in Tasks, p \in Slots :
                       \/ caps'[t][p] = caps[t][p]
                       \/ t # current /\ caps[t][p] = Endpoint(ep) /\ caps'[t][p] = NoCap
<1> DEFINE ep == caps[current][i].obj
<1>0. /\ current \in Tasks /\ current # Idle /\ state[current] = Running
      /\ at[current] = "run" /\ current \in UserTasks /\ "revoke" \in Program[current]
  BY ZenonT(60), UserFacts DEF IpcRevoke, InUser
<1>1. /\ UNCHANGED <<current, state, message, caller, pendingGrant, at, kernVars, healVars, plicVars>>
      /\ i \in EndpointCaps(current)
      /\ caps' = [t \in Tasks |-> IF t = current THEN caps[t] ELSE RevokeInCaps(caps[t], ep)]
  BY Zenon DEF IpcRevoke, schedVars
<1>2. ep \in Endpoints /\ caps[current][i] = Endpoint(ep)
  BY Zenon, <1>0, <1>1, EndpointEffect
<1> HIDE DEF ep
<1>3. \A t \in Tasks, p \in Slots :
         \/ caps'[t][p] = caps[t][p]
         \/ t # current /\ caps[t][p] = Endpoint(ep) /\ caps'[t][p] = NoCap
  BY <1>1 DEF RevokeInCaps
<1> QED
  BY Zenon, <1>0, <1>1, <1>2, <1>3 DEF Caller

(* Exit, and the part of a crash that needs no healer.                     *)
LEMMA ExitEffect ==
    ASSUME SchedInv, Exit
    PROVE  /\ current \in UserTasks /\ at[current] = "run" /\ "exit" \in Program[current]
           /\ state'[current] = Exited /\ StillBut(current)
<1>0. /\ current \in Tasks /\ current # Idle /\ current \in UserTasks
      /\ at[current] = "run" /\ "exit" \in Program[current]
  BY ZenonT(60), UserFacts DEF Exit, InUser
<1>1. Exited \in TaskStates /\ Exited # Running /\ ParkCurrent(Exited, state)
  BY ZenonT(60), StateFacts DEF Exit
<1> QED
  BY Zenon, <1>0, <1>1, ParkEffect

(* A crash: the task is down, and the healer that waits for it, if any, is *)
(* handed the badge and runs.                                              *)
Reports(h) ==
    /\ state[h] = Blocked(CRASH_EP, "Recv") /\ state'[h] = Running
    /\ message'[h] = Message(Nil, CrashBadge[current])
    /\ \A t \in Tasks : t = h \/ message'[t] = message[t]
    /\ \A t \in Tasks : t \in {h, current} \/ state'[t] = state[t]

LEMMA CrashEffect ==
    ASSUME SchedInv, NEW q \in BOOLEAN, Crash(q)
    PROVE  /\ UNCHANGED <<caps, caller, pendingGrant, at, kernVars, verdict, plicVars>>
           /\ current \in UserTasks /\ at[current] = "run" /\ "fault" \in Program[current]
           /\ state'[current] = Exited
           /\ (\E h \in Tasks : Reports(h)) \/ (message' = message /\ StillBut(current))
<1> DEFINE h == LowestSlot(Waiting(CRASH_EP, "Recv"))
           next == PickNext(current, Killed)
<1>0. /\ current \in Tasks /\ current # Idle /\ state[current] = Running
      /\ at[current] = "run" /\ current \in UserTasks /\ "fault" \in Program[current]
  BY ZenonT(60), UserFacts DEF Crash, InUser
<1>1. UNCHANGED <<caps, caller, pendingGrant, at, kernVars, verdict, plicVars>>
  BY Zenon DEF Crash
<1>2. Killed = [state EXCEPT ![current] = Exited] /\ state \in [Tasks -> TaskStates]
  BY DEF Killed, SchedInv, TypeOK
<1>3. CASE ~q /\ Waiting(CRASH_EP, "Recv") # {}
  <2>1. SwitchTo(h, Killed) /\ message' = [message EXCEPT ![h] = Message(Nil, CrashBadge[current])]
    BY Zenon, <1>3 DEF Crash
  <2>2. h \in Tasks /\ state[h] = Blocked(CRASH_EP, "Recv")
    BY Zenon, <1>3, LowestWaiting
  <2> HIDE DEF h
  <2>3. h # current
    BY <2>2, NotAwake, BlockedFacts
  <2>4. state' = [[state EXCEPT ![current] = Exited] EXCEPT ![h] = Running]
    BY Zenon, <1>2, <2>1 DEF SwitchTo
  <2>5. /\ state'[h] = Running /\ state'[current] = Exited
        /\ \A t \in Tasks : t \in {h, current} \/ state'[t] = state[t]
    BY <1>0, <1>2, <2>2, <2>3, <2>4
  <2>6. /\ message'[h] = Message(Nil, CrashBadge[current])
        /\ \A t \in Tasks : t = h \/ message'[t] = message[t]
    BY <2>1, <2>2 DEF SchedInv, TypeOK
  <2> QED
    BY Zenon, <1>0, <1>1, <2>2, <2>5, <2>6 DEF Reports
<1>4. CASE q \/ Waiting(CRASH_EP, "Recv") = {}
  <2>1. SwitchTo(next, Killed) /\ message' = message
    BY <1>4 DEF Crash
  <2>2. next \in Tasks /\ (next = current \/ Killed[next] = Ready)
    BY Zenon, <1>0, PickNextType
  <2> HIDE DEF next
  <2>3. state' = [[state EXCEPT ![current] = Exited] EXCEPT ![next] = Running] /\ next # current
    BY Zenon, <1>2, <2>1 DEF SwitchTo
  <2>4. state[next] = Ready
    BY <1>0, <1>2, <2>2, <2>3
  <2>5. state'[current] = Exited
    BY <1>0, <1>2, <2>2, <2>3
  <2>6. ASSUME NEW t \in Tasks, t # current PROVE Still(t)
    BY <1>0, <1>2, <2>2, <2>3, <2>4, <2>6 DEF Still, Awake
  <2> QED
    BY Zenon, <1>0, <1>1, <2>1, <2>5, <2>6 DEF StillBut
<1> QED
  BY <1>3, <1>4

(* restart: nothing, or the task that the Restart capability names.        *)
Restarts(task) ==
    /\ verdict \in Slots /\ caps[Healer][verdict] = Restart(task) /\ task # Healer
    /\ state'[task] = Ready
    /\ \A t \in Tasks : t = task \/ (state'[t] = state[t] /\ at'[t] = at[t])
    /\ at'[task] = "run"

LEMMA RestartEffect ==
    ASSUME SchedInv, RestartTask
    PROVE  /\ current = Healer /\ at[Healer] = "run" /\ verdict # Nil /\ verdict' = Nil
           /\ UNCHANGED <<current, caps, message, caller, pendingGrant, kernVars, plicVars>>
           /\ (\E task \in UserTasks : Restarts(task)) \/ UNCHANGED <<state, at>>
<1> DEFINE cap == caps[Healer][verdict]
           task == cap.obj
           granted == verdict \in Slots /\ cap.kind = "Restart" /\ CanRestart(task)
<1>0. /\ current = Healer /\ at[Healer] = "run" /\ verdict # Nil /\ verdict' = Nil
      /\ UNCHANGED <<current, caps, message, caller, pendingGrant, kernVars, plicVars>>
  BY Zenon DEF RestartTask
<1>1. CASE granted
  <2>1. /\ state' = [state EXCEPT ![task] = Ready]
        /\ at' = [at EXCEPT ![task] = "run"]
    BY Zenon, <1>1 DEF RestartTask
  <2>2. cap \in Caps /\ cap # Restart(Healer)
    <3>1. Healer \in Tasks /\ verdict \in Slots
      BY Zenon, <1>1, ConstantFacts
    <3> QED
      BY Zenon, <3>1 DEF SchedInv, TypeOK, NoHealerRestart
  <2>3. task \in UserTasks /\ task # Healer /\ cap = Restart(task) /\ verdict \in Slots
    BY Zenon, <1>1, <2>2, CapFacts
  <2>4. task \in Tasks
    BY Zenon, <2>3, ConstantFacts
  <2> HIDE DEF task
  <2>5. /\ state'[task] = Ready /\ at'[task] = "run"
        /\ \A t \in Tasks : t = task \/ (state'[t] = state[t] /\ at'[t] = at[t])
    BY <2>1, <2>4 DEF SchedInv, TypeOK
  <2>6. Restarts(task)
    BY Zenon, <2>3, <2>5 DEF Restarts
  <2> QED
    BY Zenon, <1>0, <2>3, <2>6
<1>2. CASE ~granted
  <2>1. UNCHANGED <<state, at>>
    BY Zenon, <1>2 DEF RestartTask
  <2> QED
    BY Zenon, <1>0, <2>1
<1> QED
  BY Zenon, <1>1, <1>2

(* An external interrupt wakes one waiter, if there is one.                *)
LEMMA InterruptEffect ==
    ASSUME SchedInv, NEW irq \in Irqs, ExternalInterrupt(irq)
    PROVE  /\ UNCHANGED <<current, ipcVars, at, kernVars, healVars, line>>
           /\ irq \in pending /\ Claim(irq)
           /\ \/ state' = state /\ \A t \in Tasks : state[t] # WaitingIrq(irq)
              \/ \E w \in Tasks : /\ state[w] = WaitingIrq(irq) /\ state'[w] = Ready
                                  /\ \A t \in Tasks : t = w \/ state'[t] = state[t]
<1> DEFINE waiters == {t \in Tasks : state[t] = WaitingIrq(irq)}
           w == LowestSlot(waiters)
<1>0. /\ UNCHANGED <<current, ipcVars, at, kernVars, healVars, line>>
      /\ irq \in pending /\ Claim(irq)
  BY Zenon DEF ExternalInterrupt
<1>1. CASE waiters = {}
  <2>1. state' = state
    BY <1>1 DEF ExternalInterrupt, WakeIrq
  <2>2. \A t \in Tasks : state[t] # WaitingIrq(irq)
    BY Zenon, <1>1
  <2> QED
    BY Zenon, <1>0, <2>1, <2>2
<1>2. CASE waiters # {}
  <2>1. state' = [state EXCEPT ![w] = Ready]
    BY <1>2 DEF ExternalInterrupt, WakeIrq
  <2>2. w \in waiters
    <3>1. waiters \subseteq Nat
      BY SchedAssumption DEF Tasks
    <3> HIDE DEF waiters
    <3> QED
      BY ZenonT(60), <1>2, <3>1, LowestSlotIn
  <2>3. w \in Tasks /\ state[w] = WaitingIrq(irq)
    BY Zenon, <2>2
  <2> HIDE DEF w
  <2>4. state'[w] = Ready /\ \A t \in Tasks : t = w \/ state'[t] = state[t]
    BY Zenon, <2>1, <2>3, WakeEffect
  <2> QED
    BY Zenon, <1>0, <2>3, <2>4
<1> QED
  BY Zenon, <1>1, <1>2

LEMMA WaitIrqEffect ==
    ASSUME SchedInv, NEW i \in Slots, WaitIrq(i)
    PROVE  /\ UNCHANGED <<ipcVars, at, kernVars, healVars, line>>
           /\ current \in UserTasks /\ at[current] = "run" /\ "wait_irq" \in Program[current]
           /\ \E irq \in Irqs : /\ caps[current][i] = Interrupt(irq) /\ Complete(irq)
                                /\ state'[current] = WaitingIrq(irq) /\ StillBut(current)
<1> DEFINE irq == caps[current][i].obj
<1>0. /\ current \in Tasks /\ current # Idle /\ current \in UserTasks
      /\ at[current] = "run" /\ "wait_irq" \in Program[current]
  BY ZenonT(60), UserFacts DEF WaitIrq, InUser
<1>1. /\ UNCHANGED <<ipcVars, at, kernVars, healVars, line>>
      /\ caps[current][i].kind = "Interrupt" /\ Complete(irq)
      /\ ParkCurrent(WaitingIrq(irq), state)
  BY Zenon DEF WaitIrq
<1>2. irq \in Irqs /\ caps[current][i] = Interrupt(irq)
  <2>1. caps[current][i] \in Caps
    BY <1>0 DEF SchedInv, TypeOK
  <2> QED
    BY <1>1, <2>1, CapFacts
<1>3. WaitingIrq(irq) \in TaskStates /\ WaitingIrq(irq) # Running
  BY Zenon, <1>2, StateFacts
<1>4. state'[current] = WaitingIrq(irq) /\ StillBut(current)
  BY Zenon, <1>0, <1>1, <1>3, ParkEffect
<1> QED
  BY Zenon, <1>0, <1>1, <1>2, <1>4

(* A kernel task that is about to park.                                    *)
GoesToPark(as) ==
    /\ \A t \in Tasks : at'[t] = IF t = current THEN "park" ELSE at[t]
    /\ \A t \in Tasks : parkAs'[t] = IF t = current THEN as ELSE parkAs[t]

LEMMA KernelParkAsEffect ==
    ASSUME SchedInv, NEW as, KernelParkAs(as) PROVE GoesToPark(as)
BY DEF KernelParkAs, GoesToPark, SchedInv, TypeOK

(* The caller of a kernel task's IPC operation.                            *)
KernelCaller(i, ep) ==
    /\ current \in KernelTasks /\ current \in Tasks /\ state[current] = Running
    /\ at[current] = "run" /\ caps[current][i] = Endpoint(ep)

LEMMA RecvMessageEffect ==
    ASSUME SchedInv, NEW i \in Slots, RecvMessage(i)
    PROVE  /\ UNCHANGED <<current, ipcVars, sie, healVars, plicVars>>
           /\ \E ep \in Endpoints :
                 /\ KernelCaller(i, ep)
                 /\ \/ /\ \E from \in Tasks :
                             /\ state[from] = Blocked(ep, "Send") /\ state'[from] = Ready
                             /\ \A t \in Tasks : t = from \/ state'[t] = state[t]
                       /\ UNCHANGED <<at, parkAs>>
                    \/ state' = state /\ GoesToPark(Blocked(ep, "Recv"))
<1> DEFINE ep == caps[current][i].obj
           from == LowestSlot(Waiting(ep, "Send"))
<1>0. /\ current \in Tasks /\ current \in KernelTasks /\ state[current] = Running /\ at[current] = "run"
  BY ZenonT(60) DEF RecvMessage, InKernel, InProgram, SchedInv, TypeOK, OneRunning
<1>1. UNCHANGED <<current, ipcVars, sie, healVars, plicVars>> /\ i \in EndpointCaps(current)
  BY Zenon DEF RecvMessage
<1>2. ep \in Endpoints /\ caps[current][i] = Endpoint(ep)
  BY Zenon, <1>0, <1>1, EndpointEffect
<1>3. CASE Waiting(ep, "Send") # {}
  <2>1. state' = [state EXCEPT ![from] = Ready] /\ UNCHANGED <<at, parkAs>>
    BY Zenon, <1>3 DEF RecvMessage
  <2>2. from \in Tasks /\ state[from] = Blocked(ep, "Send")
    BY Zenon, <1>3, LowestWaiting
  <2> HIDE DEF from
  <2>3. state'[from] = Ready /\ \A t \in Tasks : t = from \/ state'[t] = state[t]
    BY Zenon, <2>1, <2>2, WakeEffect
  <2> QED
    BY Zenon, <1>0, <1>1, <1>2, <2>1, <2>2, <2>3 DEF KernelCaller
<1>4. CASE Waiting(ep, "Send") = {}
  <2>1. KernelParkAs(Blocked(ep, "Recv")) /\ state' = state
    BY <1>4 DEF RecvMessage
  <2> QED
    BY Zenon, <1>0, <1>1, <1>2, <2>1, KernelParkAsEffect DEF KernelCaller
<1> QED
  BY Zenon, <1>3, <1>4

LEMMA CallMessageEffect ==
    ASSUME SchedInv, NEW i \in Slots, CallMessage(i)
    PROVE  /\ UNCHANGED <<current, caps, pendingGrant, slot, sie, healVars, plicVars>>
           /\ "call_message" \in Program[current]
           /\ \E ep \in Endpoints :
                 /\ KernelCaller(i, ep)
                 /\ \/ \E r \in Tasks :
                          /\ state[r] = Blocked(ep, "Recv") /\ state'[r] = Ready
                          /\ \A t \in Tasks : t = r \/ (state'[t] = state[t] /\ message'[t] = message[t])
                          /\ \A t \in Tasks : caller'[t] = IF t = r THEN current ELSE caller[t]
                          /\ GoesToPark(AwaitingReply)
                    \/ /\ UNCHANGED <<state, caller>> /\ GoesToPark(Blocked(ep, "Call"))
                       /\ \A t \in Tasks : t = current \/ message'[t] = message[t]
<1> DEFINE ep == caps[current][i].obj
           r == LowestSlot(Waiting(ep, "Recv"))
<1>0. /\ current \in Tasks /\ current \in KernelTasks /\ state[current] = Running /\ at[current] = "run"
      /\ "call_message" \in Program[current]
  BY ZenonT(60) DEF CallMessage, InKernel, InProgram, SchedInv, TypeOK, OneRunning
<1>1. /\ UNCHANGED <<current, caps, pendingGrant, slot, sie, healVars, plicVars>>
      /\ i \in EndpointCaps(current)
  BY Zenon DEF CallMessage
<1>2. ep \in Endpoints /\ caps[current][i] = Endpoint(ep)
  BY Zenon, <1>0, <1>1, EndpointEffect
<1>3. CASE Waiting(ep, "Recv") # {}
  <2>1. /\ message' = [message EXCEPT ![r] = Message(current, 0)]
        /\ caller' = [caller EXCEPT ![r] = current]
        /\ state' = [state EXCEPT ![r] = Ready]
        /\ KernelParkAs(AwaitingReply)
    BY Zenon, <1>3 DEF CallMessage
  <2>2. r \in Tasks /\ state[r] = Blocked(ep, "Recv")
    BY ZenonT(60), <1>3, LowestWaiting
  <2> HIDE DEF r
  <2>3. /\ state'[r] = Ready
        /\ \A t \in Tasks : t = r \/ (state'[t] = state[t] /\ message'[t] = message[t])
        /\ \A t \in Tasks : caller'[t] = IF t = r THEN current ELSE caller[t]
    BY <2>1, <2>2 DEF SchedInv, TypeOK
  <2> QED
    BY Zenon, <1>0, <1>1, <1>2, <2>1, <2>2, <2>3, KernelParkAsEffect DEF KernelCaller
<1>4. CASE Waiting(ep, "Recv") = {}
  <2>1. /\ message' = [message EXCEPT ![current] = Message(current, 0)]
        /\ KernelParkAs(Blocked(ep, "Call")) /\ UNCHANGED <<state, caller>>
    BY <1>4 DEF CallMessage
  <2>2. \A t \in Tasks : t = current \/ message'[t] = message[t]
    BY <1>0, <2>1 DEF SchedInv, TypeOK
  <2> QED
    BY Zenon, <1>0, <1>1, <1>2, <2>1, <2>2, KernelParkAsEffect DEF KernelCaller
<1> QED
  BY Zenon, <1>3, <1>4

LEMMA KernelParkEffect ==
    ASSUME SchedInv, KernelPark
    PROVE  /\ UNCHANGED <<ipcVars, healVars, plicVars>>
           /\ current \in Tasks /\ at[current] = "park"
           /\ state'[current] = parkAs[current] /\ StillBut(current)
           /\ \A t \in Tasks : at'[t] = IF t = current THEN "msg" ELSE at[t]
           /\ \A t \in Tasks : parkAs'[t] = IF t = current THEN Ready ELSE parkAs[t]
<1>0. current \in Tasks /\ current # Idle /\ parkAs[current] \in TaskStates /\ parkAs[current] # Running
  BY DEF KernelPark, SchedInv, TypeOK, IdleRuns, ParkTarget
<1>1. /\ UNCHANGED <<ipcVars, healVars, plicVars>> /\ at[current] = "park"
      /\ ParkCurrent(parkAs[current], state)
  BY Zenon DEF KernelPark
<1>2. state'[current] = parkAs[current] /\ StillBut(current)
  BY Zenon, <1>0, <1>1, ParkEffect
<1>3. /\ \A t \in Tasks : at'[t] = IF t = current THEN "msg" ELSE at[t]
      /\ \A t \in Tasks : parkAs'[t] = IF t = current THEN Ready ELSE parkAs[t]
  <2>1. /\ at' = [at EXCEPT ![current] = "msg"]
        /\ parkAs' = [parkAs EXCEPT ![current] = Ready]
    BY Zenon DEF KernelPark
  <2> QED
    BY <1>0, <2>1 DEF SchedInv, TypeOK
<1> QED
  BY Zenon, <1>0, <1>1, <1>2, <1>3

-----------------------------------------------------------------------------
(* A step that moves no message and no capability and parks or wakes       *)
(* nobody: a yield, a preemption, a device or a driver on its device.      *)
Quiet ==
    /\ \A t \in Tasks : Still(t)
    /\ UNCHANGED <<caps, message, caller, pendingGrant, at, parkAs, verdict>>

LEMMA QuietSteps ==
    ASSUME SchedInv,
           \/ Yield \/ Tick \/ UNCHANGED vars
           \/ \E irq \in Irqs : DeviceRaise(irq)
           \/ \E i \in Slots : DriverAck(i)
    PROVE  Quiet
<1>1. CASE Yield \/ Tick
  <2>1. YieldNow
    BY Zenon, <1>1 DEF Yield, Tick
  <2>2. UNCHANGED <<caps, message, caller, pendingGrant, at, parkAs, verdict>>
    BY Zenon, <2>1 DEF YieldNow, ipcVars, kernVars, healVars
  <2> QED
    BY Zenon, <2>1, <2>2, YieldEffect DEF Quiet
<1>2. CASE UNCHANGED vars
  <2>1. state' = state /\ UNCHANGED <<caps, message, caller, pendingGrant, at, parkAs, verdict>>
    BY Zenon, <1>2 DEF vars, schedVars, ipcVars, kernVars, healVars
  <2> QED
    BY Zenon, <2>1 DEF Quiet, Still
<1>3. ASSUME NEW irq \in Irqs, DeviceRaise(irq) PROVE Quiet
  <2>1. state' = state /\ UNCHANGED <<caps, message, caller, pendingGrant, at, parkAs, verdict>>
    BY Zenon, <1>3 DEF DeviceRaise, schedVars, ipcVars, kernVars, healVars
  <2> QED
    BY Zenon, <2>1 DEF Quiet, Still
<1>4. ASSUME NEW i \in Slots, DriverAck(i) PROVE Quiet
  <2>1. state' = state /\ UNCHANGED <<caps, message, caller, pendingGrant, at, parkAs, verdict>>
    BY Zenon, <1>4 DEF DriverAck, schedVars, ipcVars, kernVars, healVars
  <2> QED
    BY Zenon, <2>1 DEF Quiet, Still
<1> QED
  BY Zenon, <1>1, <1>2, <1>3, <1>4

(* The steps of the scheduler, one case per operation.                     *)
Step ==
    \/ Quiet \/ ResumeRecv \/ ResumeMsg \/ Exit \/ RestartTask \/ KernelPark
    \/ \E q \in BOOLEAN : Crash(q)
    \/ \E i \in Slots, rs \in SlotArgs : IpcRecv(i, rs)
    \/ \E i \in Slots : \/ IpcSend(i) \/ IpcCall(i) \/ IpcReply(i) \/ IpcRevoke(i)
                        \/ RecvMessage(i) \/ CallMessage(i) \/ WaitIrq(i)
    \/ \E i, src \in Slots : IpcGrant(i, src)
    \/ \E irq \in Irqs : ExternalInterrupt(irq)

LEMMA Steps == ASSUME SchedInv, [Next]_vars PROVE Step
<1>1. CASE Yield \/ Tick \/ UNCHANGED vars
  BY Zenon, <1>1, QuietSteps DEF Step
<1>2. CASE Resume \/ Exit \/ RestartTask \/ \E q \in BOOLEAN : Crash(q)
  BY Zenon, <1>2 DEF Resume, Step
<1>3. CASE Ipc
  BY Zenon, <1>3 DEF Ipc, Step
<1>4. CASE KernelIpc
  BY Zenon, <1>4 DEF KernelIpc, Step
<1>5. CASE Interrupts
  <2>1. CASE (\E irq \in Irqs : DeviceRaise(irq)) \/ (\E i \in Slots : DriverAck(i))
    BY Zenon, <2>1, QuietSteps DEF Step
  <2>2. CASE (\E irq \in Irqs : ExternalInterrupt(irq)) \/ (\E i \in Slots : WaitIrq(i))
    BY Zenon, <2>2 DEF Step
  <2> QED
    BY Zenon, <1>5, <2>1, <2>2 DEF Interrupts
<1> QED
  BY Zenon, <1>1, <1>2, <1>3, <1>4, <1>5 DEF Next

-----------------------------------------------------------------------------
(* Messages.                                                               *)

(* Task t has a message in its buffer that was not taken.                  *)
Holds(t) ==
    \/ state[t].tag = "Blocked" /\ state[t].role \in {"Send", "Call"} /\ state'[t] = state[t]
    \/ at[t] \in {"recv", "msg"} /\ state[t] \in {Ready, Running}

LEMMA HolderFacts ==
    ASSUME SchedInv, NEW t \in Tasks, Holds(t)
    PROVE  /\ state[t] # AwaitingReply
           /\ \A ep : state[t] # Blocked(ep, "Recv")
           /\ t = current => at[t] # "run"
<1>1. CASE state[t].tag = "Blocked" /\ state[t].role \in {"Send", "Call"}
  <2>1. state[t] # AwaitingReply /\ state[t] # Running /\ \A ep : state[t] # Blocked(ep, "Recv")
    BY <1>1 DEF AwaitingReply, Running, Blocked, TaskState
  <2> QED
    BY Zenon, <2>1 DEF SchedInv, OneRunning
<1>2. CASE at[t] \in {"recv", "msg"} /\ state[t] \in {Ready, Running}
  <2>1. state[t] \in Awake /\ at[t] # "run"
    BY <1>2 DEF Awake
  <2> QED
    BY ZenonT(60), <2>1, BlockedFacts
<1> QED
  BY Zenon, <1>1, <1>2 DEF Holds

LEMMA MessageStep ==
    ASSUME SchedInv, Step, NEW t \in Tasks, Holds(t) PROVE message'[t] = message[t]
<1>0. /\ state[t] # AwaitingReply /\ \A ep : state[t] # Blocked(ep, "Recv")
      /\ t = current => at[t] # "run"
  BY Zenon, HolderFacts
<1>1. CASE Quiet \/ ResumeRecv \/ ResumeMsg \/ Exit \/ RestartTask \/ KernelPark
  BY Zenon, <1>1 DEF Quiet, ResumeRecv, ResumeMsg, Exit, RestartTask, KernelPark, ipcVars
<1>2. ASSUME NEW q \in BOOLEAN, Crash(q) PROVE message'[t] = message[t]
  BY Zenon, <1>0, <1>2, CrashEffect DEF Reports
<1>3. ASSUME NEW i \in Slots, NEW rs \in SlotArgs, IpcRecv(i, rs) PROVE message'[t] = message[t]
  BY Zenon, <1>3, RecvEffect DEF RecvTakes, RecvParks
<1>4. ASSUME NEW ep, NEW cap, Sends(ep, cap), at[current] = "run" PROVE message'[t] = message[t]
  BY Zenon, <1>0, <1>4 DEF Sends, Hands
<1>5. ASSUME NEW i \in Slots, IpcSend(i) PROVE message'[t] = message[t]
  BY Zenon, <1>4, <1>5, SendEffect DEF Caller
<1>6. ASSUME NEW i \in Slots, NEW src \in Slots, IpcGrant(i, src) PROVE message'[t] = message[t]
  BY Zenon, <1>4, <1>6, GrantEffect DEF Caller
<1>7. ASSUME NEW i \in Slots, IpcCall(i) PROVE message'[t] = message[t]
  BY ZenonT(60), <1>0, <1>7, CallEffect DEF Caller, PlacesCall, Hands
<1>8. ASSUME NEW i \in Slots, IpcReply(i) PROVE message'[t] = message[t]
  BY Zenon, <1>0, <1>8, ReplyEffect DEF Replies
<1>9. ASSUME NEW i \in Slots, IpcRevoke(i) \/ RecvMessage(i) \/ WaitIrq(i)
      PROVE  message'[t] = message[t]
  BY Zenon, <1>9 DEF IpcRevoke, RecvMessage, WaitIrq, ipcVars
<1>10. ASSUME NEW i \in Slots, CallMessage(i) PROVE message'[t] = message[t]
  BY ZenonT(60), <1>0, <1>10, CallMessageEffect DEF KernelCaller
<1>11. ASSUME NEW irq \in Irqs, ExternalInterrupt(irq) PROVE message'[t] = message[t]
  BY Zenon, <1>11 DEF ExternalInterrupt, ipcVars
<1> QED
  BY Zenon, <1>1, <1>2, <1>3, <1>5, <1>6, <1>7, <1>8, <1>9, <1>10, <1>11 DEF Step

(* A queued message, and one that was delivered to a task that has not run *)
(* since, is overwritten by no system call, interrupt, crash or restart.   *)
THEOREM MessagesNeverOverwritten == Spec => MessageStable
<1>1. SchedInv /\ [Next]_vars => (\A t \in Tasks : Holds(t) => message'[t] = message[t])
  BY Zenon, Steps, MessageStep
<1>2. SchedInv /\ [Next]_vars
        => [\A t \in Tasks :
              \/ state[t].tag = "Blocked" /\ state[t].role \in {"Send", "Call"} /\ state'[t] = state[t]
              \/ at[t] \in {"recv", "msg"} /\ state[t] \in {Ready, Running}
              => message'[t] = message[t]]_vars
  BY Zenon, <1>1 DEF Holds
<1> QED
  BY <1>2, SchedInvInit, SchedInvNext, PTL DEF Spec, MessageStable

-----------------------------------------------------------------------------
(* Rendezvous.                                                             *)

(* Only a kernel task that runs or can run is on its way to a park.        *)
ParkInv == \A t \in Tasks : at[t] = "park" => t \in KernelTasks /\ state[t] \in Awake

LEMMA ParkInvInit == Init => ParkInv
BY DEF Init, ParkInv

(* The current task goes to sleep or exits.                                *)
Leaves(t) == t = current /\ (at[t] = "run" \/ KernelPark)

LEMMA AwakeStays ==
    ASSUME SchedInv, Step, NEW t \in Tasks, state[t] \in Awake
    PROVE  state'[t] \in Awake \/ Leaves(t)
<1>0. \A ep, role, irq : state[t] # Blocked(ep, role) /\ state[t] # WaitingIrq(irq) /\ state[t] # AwaitingReply
  BY BlockedFacts
<1>1. Ready \in Awake /\ Running \in Awake
  BY Zenon, BlockedFacts
<1>2. CASE Still(t)
  BY Zenon, <1>2 DEF Still
<1>3. CASE StillBut(current) /\ (at[current] = "run" \/ KernelPark)
  BY Zenon, <1>2, <1>3 DEF StillBut, Leaves
<1>4. CASE state'[t] = state[t]
  BY Zenon, <1>4
<1>5. CASE Quiet \/ ResumeRecv \/ ResumeMsg
  BY Zenon, <1>2, <1>4, <1>5 DEF Quiet, ResumeRecv, ResumeMsg, schedVars
<1>6. CASE Exit \/ KernelPark
  <2>1. StillBut(current) /\ (at[current] = "run" \/ KernelPark)
    BY Zenon, <1>6, ExitEffect, KernelParkEffect
  <2> QED
    BY Zenon, <1>3, <2>1
<1>7. CASE RestartTask
  BY Zenon, <1>1, <1>4, <1>7, RestartEffect DEF Restarts
<1>8. ASSUME NEW q \in BOOLEAN, Crash(q) PROVE state'[t] \in Awake \/ Leaves(t)
  <2>1. at[current] = "run" /\ ((\E h \in Tasks : Reports(h)) \/ StillBut(current))
    BY Zenon, <1>8, CrashEffect
  <2>2. ASSUME NEW h \in Tasks, Reports(h) PROVE state'[t] \in Awake \/ Leaves(t)
    BY Zenon, <1>1, <1>4, <2>1, <2>2 DEF Reports, Leaves
  <2> QED
    BY Zenon, <1>3, <2>1, <2>2
<1>9. ASSUME NEW i \in Slots, NEW rs \in SlotArgs, IpcRecv(i, rs) PROVE state'[t] \in Awake \/ Leaves(t)
  <2>1. PICK ep \in Endpoints : /\ Caller(i, ep, "recv")
                                /\ (\E from \in Tasks : RecvTakes(ep, rs, from)) \/ RecvParks(ep)
    BY Zenon, <1>9, RecvEffect
  <2>2. ASSUME NEW from \in Tasks, RecvTakes(ep, rs, from) PROVE state'[t] = state[t]
    BY ZenonT(60), <1>0, <2>2 DEF RecvTakes
  <2> QED
    BY Zenon, <1>3, <1>4, <2>1, <2>2 DEF Caller, RecvParks
<1>10. ASSUME NEW ep, NEW cap, Sends(ep, cap), at[current] = "run" PROVE state'[t] \in Awake \/ Leaves(t)
  BY Zenon, <1>0, <1>3, <1>4, <1>10 DEF Sends
<1>11. ASSUME NEW i \in Slots, IpcSend(i) PROVE state'[t] \in Awake \/ Leaves(t)
  BY Zenon, <1>10, <1>11, SendEffect DEF Caller
<1>12. ASSUME NEW i \in Slots, NEW src \in Slots, IpcGrant(i, src) PROVE state'[t] \in Awake \/ Leaves(t)
  BY Zenon, <1>10, <1>12, GrantEffect DEF Caller
<1>13. ASSUME NEW i \in Slots, IpcCall(i) PROVE state'[t] \in Awake \/ Leaves(t)
  BY Zenon, <1>0, <1>2, <1>3, <1>13, CallEffect DEF Caller, PlacesCall, Leaves
<1>14. ASSUME NEW i \in Slots, IpcReply(i) PROVE state'[t] \in Awake \/ Leaves(t)
  BY Zenon, <1>0, <1>4, <1>14, ReplyEffect DEF Replies
<1>15. ASSUME NEW i \in Slots, IpcRevoke(i) PROVE state'[t] \in Awake \/ Leaves(t)
  BY Zenon, <1>4, <1>15, RevokeEffect
<1>16. ASSUME NEW i \in Slots, RecvMessage(i) PROVE state'[t] \in Awake \/ Leaves(t)
  BY Zenon, <1>0, <1>4, <1>16, RecvMessageEffect
<1>17. ASSUME NEW i \in Slots, CallMessage(i) PROVE state'[t] \in Awake \/ Leaves(t)
  <2>1. state'[t] = state[t] \/ \E r \in Tasks, ep \in Endpoints :
           /\ state[r] = Blocked(ep, "Recv")
           /\ \A u \in Tasks : u = r \/ state'[u] = state[u]
    BY Zenon, <1>17, CallMessageEffect
  <2> QED
    BY Zenon, <1>0, <1>4, <2>1
<1>18. ASSUME NEW i \in Slots, WaitIrq(i) PROVE state'[t] \in Awake \/ Leaves(t)
  <2>1. StillBut(current) /\ (at[current] = "run" \/ KernelPark)
    BY Zenon, <1>18, WaitIrqEffect
  <2> QED
    BY Zenon, <1>3, <2>1
<1>19. ASSUME NEW irq \in Irqs, ExternalInterrupt(irq) PROVE state'[t] \in Awake \/ Leaves(t)
  BY Zenon, <1>0, <1>4, <1>19, InterruptEffect
<1> QED
  BY Zenon, <1>5, <1>6, <1>7, <1>8, <1>9, <1>11, <1>12, <1>13, <1>14, <1>15, <1>16, <1>17,
     <1>18, <1>19 DEF Step

LEMMA ParkInvNext == ASSUME SchedInv, ParkInv, Step PROVE ParkInv'
<1> SUFFICES ASSUME NEW t \in Tasks, at'[t] = "park" PROVE t \in KernelTasks /\ state'[t] \in Awake
  BY Zenon DEF ParkInv
<1>0. CASE at[t] = "park" /\ ~(t = current /\ KernelPark)
  <2>1. t \in KernelTasks /\ state[t] \in Awake
    BY Zenon, <1>0 DEF ParkInv
  <2>2. ~Leaves(t)
    BY <1>0 DEF Leaves
  <2> QED
    BY Zenon, <2>1, <2>2, AwakeStays
<1>a. CASE at' = at /\ ~KernelPark
  BY Zenon, <1>0, <1>a
<1>b. at' = at /\ at[current] # "park" => at' = at /\ ~KernelPark
  BY Zenon DEF KernelPark
<1>1. CASE KernelPark
  BY Zenon, <1>0, <1>1, KernelParkEffect
<1>2. CASE ~KernelPark /\ Quiet
  BY Zenon, <1>a, <1>2 DEF Quiet
<1>3. CASE ~KernelPark /\ (ResumeRecv \/ ResumeMsg)
  <2>1. at' = [at EXCEPT ![current] = "run"]
    BY Zenon, <1>3 DEF ResumeRecv, ResumeMsg
  <2>2. at[t] = "park"
    BY <2>1 DEF SchedInv, TypeOK
  <2> QED
    BY Zenon, <1>0, <1>3, <2>2
<1>4. CASE ~KernelPark /\ (Exit \/ \E q \in BOOLEAN : Crash(q))
  BY Zenon, <1>a, <1>4 DEF Exit, Crash
<1>5. CASE ~KernelPark /\ RestartTask
  <2>1. at[t] = "park"
    BY Zenon, <1>5, RestartEffect DEF Restarts
  <2> QED
    BY Zenon, <1>0, <1>5, <2>1
<1>6. ASSUME ~KernelPark, NEW i \in Slots, NEW rs \in SlotArgs, IpcRecv(i, rs)
      PROVE  t \in KernelTasks /\ state'[t] \in Awake
  <2>1. at[t] = "park"
    BY Zenon, <1>6, RecvEffect DEF RecvTakes, RecvParks
  <2> QED
    BY Zenon, <1>0, <1>6, <2>1
<1>7. ASSUME ~KernelPark, NEW i \in Slots, IpcCall(i)
      PROVE  t \in KernelTasks /\ state'[t] \in Awake
  <2>1. at[t] = "park"
    BY Zenon, <1>7, CallEffect
  <2> QED
    BY Zenon, <1>0, <1>7, <2>1
<1>8. ASSUME ~KernelPark, NEW i \in Slots, IpcSend(i) \/ IpcReply(i) \/ IpcRevoke(i) \/ WaitIrq(i)
      PROVE  t \in KernelTasks /\ state'[t] \in Awake
  BY Zenon, <1>a, <1>8 DEF IpcSend, IpcReply, IpcRevoke, WaitIrq
<1>9. ASSUME ~KernelPark, NEW i \in Slots, NEW src \in Slots, IpcGrant(i, src)
      PROVE  t \in KernelTasks /\ state'[t] \in Awake
  BY Zenon, <1>a, <1>9 DEF IpcGrant
<1>10. ASSUME ~KernelPark, NEW irq \in Irqs, ExternalInterrupt(irq)
       PROVE  t \in KernelTasks /\ state'[t] \in Awake
  BY Zenon, <1>a, <1>10 DEF ExternalInterrupt
<1>11. ASSUME NEW as, GoesToPark(as), current \in KernelTasks, state'[current] = Running, ~KernelPark
       PROVE  t \in KernelTasks /\ state'[t] \in Awake
  <2>1. CASE t = current
    BY Zenon, <1>11, <2>1, BlockedFacts
  <2>2. CASE t # current
    BY Zenon, <1>0, <1>11, <2>2 DEF GoesToPark
  <2> QED
    BY Zenon, <2>1, <2>2
<1>12. ASSUME ~KernelPark, NEW i \in Slots, RecvMessage(i)
       PROVE  t \in KernelTasks /\ state'[t] \in Awake
  <2>1. \/ at' = at
        \/ \E as : GoesToPark(as) /\ current \in KernelTasks /\ state'[current] = Running
    BY Zenon, <1>12, RecvMessageEffect DEF KernelCaller
  <2> QED
    BY Zenon, <1>a, <1>11, <1>12, <2>1
<1>13. ASSUME ~KernelPark, NEW i \in Slots, CallMessage(i)
       PROVE  t \in KernelTasks /\ state'[t] \in Awake
  <2>1. PICK ep \in Endpoints :
           /\ KernelCaller(i, ep)
           /\ \/ \E r \in Tasks : /\ state[r] = Blocked(ep, "Recv")
                                  /\ \A u \in Tasks : u = r \/ state'[u] = state[u]
                                  /\ GoesToPark(AwaitingReply)
              \/ state' = state /\ GoesToPark(Blocked(ep, "Call"))
    BY Zenon, <1>13, CallMessageEffect
  <2>2. current \in KernelTasks /\ current \in Tasks /\ state[current] = Running
    BY Zenon, <2>1 DEF KernelCaller
  <2>3. \A r \in Tasks : state[r] = Blocked(ep, "Recv") => r # current
    BY NotAwake, BlockedFacts
  <2>4. \E as : GoesToPark(as) /\ state'[current] = Running
    BY Zenon, <2>1, <2>2, <2>3
  <2> QED
    BY Zenon, <1>11, <1>13, <2>2, <2>4
<1> QED
  BY Zenon, <1>1, <1>2, <1>3, <1>4, <1>5, <1>6, <1>7, <1>8, <1>9, <1>10, <1>12, <1>13 DEF Step

(* Whoever queues on an endpoint found nobody there to meet.               *)
MeetsNobody(t, ep) ==
    \/ state'[t] = Blocked(ep, "Recv") /\ Waiting(ep, "Send") = {} /\ Waiting(ep, "Call") = {}
    \/ state'[t] \in {Blocked(ep, "Send"), Blocked(ep, "Call")} /\ Waiting(ep, "Recv") = {}

(* Task t queues: with a capability for the endpoint, having met nobody,   *)
(* or in the second half of a kernel task's operation.                     *)
Queues(t, ep, role) ==
    /\ t = current
    /\ \/ MeetsNobody(t, ep) /\ \E i \in Slots : caps[t][i] = Endpoint(ep)
       \/ at[t] = "park" /\ parkAs[t] = Blocked(ep, role)

LEMMA QueueStep ==
    ASSUME SchedInv, Step, NEW t \in Tasks, NEW ep, NEW role,
           state'[t] = Blocked(ep, role)
    PROVE  state[t] = Blocked(ep, role) \/ Queues(t, ep, role)
<1>1. /\ state'[t] \notin Awake /\ state'[t] # Exited /\ state'[t] # AwaitingReply
      /\ \A irq : state'[t] # WaitingIrq(irq)
      /\ Ready \in Awake /\ Running \in Awake
  BY BlockedFacts
<1>2. CASE t # current /\ Still(t)
  BY Zenon, <1>1, <1>2 DEF Still
<1>a. CASE Still(t)
  BY Zenon, <1>1, <1>a DEF Still
<1>3. CASE StillBut(current) /\ state'[current] \in {Exited, AwaitingReply}
  BY <1>1, <1>2, <1>3 DEF StillBut
<1>4. CASE Quiet \/ ResumeRecv \/ ResumeMsg
  BY Zenon, <1>a, <1>4 DEF Quiet, ResumeRecv, ResumeMsg, schedVars, Still
<1>5. CASE Exit
  BY Zenon, <1>3, <1>5, ExitEffect
<1>6. CASE RestartTask
  BY Zenon, <1>1, <1>6, RestartEffect DEF Restarts
<1>7. CASE KernelPark
  <2>1. /\ at[current] = "park" /\ state'[current] = parkAs[current]
        /\ t = current \/ Still(t)
    BY Zenon, <1>7, KernelParkEffect DEF StillBut
  <2> QED
    BY Zenon, <1>2, <2>1 DEF Queues
<1>8. ASSUME NEW q \in BOOLEAN, Crash(q) PROVE state[t] = Blocked(ep, role)
  <2>1. /\ state'[current] = Exited
        /\ (\E h \in Tasks : Reports(h)) \/ StillBut(current)
    BY Zenon, <1>8, CrashEffect
  <2>2. ASSUME NEW h \in Tasks, Reports(h) PROVE state'[t] = state[t]
    BY <1>1, <2>1, <2>2 DEF Reports
  <2>3. ASSUME StillBut(current) PROVE Still(t)
    BY Zenon, <1>1, <2>1, <2>3 DEF StillBut
  <2> QED
    BY Zenon, <1>1, <2>1, <2>2, <2>3 DEF Still
<1>9. ASSUME NEW i \in Slots, NEW rs \in SlotArgs, IpcRecv(i, rs)
      PROVE  state[t] = Blocked(ep, role) \/ Queues(t, ep, role)
  <2>1. PICK e \in Endpoints : /\ caps[current][i] = Endpoint(e)
                               /\ (\E from \in Tasks : RecvTakes(e, rs, from)) \/ RecvParks(e)
    BY Zenon, <1>9, RecvEffect DEF Caller
  <2>2. ASSUME NEW from \in Tasks, RecvTakes(e, rs, from) PROVE state'[t] = state[t]
    BY Zenon, <1>1, <2>2 DEF RecvTakes
  <2>3. CASE RecvParks(e) /\ t # current
    BY Zenon, <1>2, <2>3 DEF RecvParks, StillBut
  <2>4. CASE RecvParks(e) /\ t = current
    <3>1. Blocked(ep, role) = Blocked(e, "Recv")
      BY Zenon, <2>4 DEF RecvParks
    <3>2. e = ep
      BY <3>1, BlockedFacts
    <3> QED
      BY Zenon, <2>1, <2>4, <3>2 DEF RecvParks, MeetsNobody, Queues
  <2> QED
    BY Zenon, <2>1, <2>2, <2>3, <2>4
<1>10. ASSUME NEW e, NEW cap, Sends(e, cap), NEW i \in Slots, caps[current][i] = Endpoint(e)
       PROVE  state[t] = Blocked(ep, role) \/ Queues(t, ep, role)
  <2>1. ASSUME NEW r \in Tasks, state'[r] = Ready, \A u \in Tasks : u = r \/ state'[u] = state[u]
        PROVE  state'[t] = state[t]
    BY Zenon, <1>1, <2>1
  <2>2. ASSUME Waiting(e, "Recv") = {}, state'[current] = Blocked(e, "Send"), t = current
        PROVE  Queues(t, ep, role)
    <3>1. e = ep
      BY <2>2, BlockedFacts
    <3> QED
      BY Zenon, <1>10, <2>2, <3>1 DEF MeetsNobody, Queues
  <2> QED
    BY Zenon, <1>2, <1>10, <2>1, <2>2 DEF Sends, StillBut
<1>11. ASSUME NEW i \in Slots, IpcSend(i)
       PROVE  state[t] = Blocked(ep, role) \/ Queues(t, ep, role)
  BY Zenon, <1>10, <1>11, SendEffect DEF Caller
<1>12. ASSUME NEW i \in Slots, NEW src \in Slots, IpcGrant(i, src)
       PROVE  state[t] = Blocked(ep, role) \/ Queues(t, ep, role)
  BY Zenon, <1>10, <1>12, GrantEffect DEF Caller
<1>13. ASSUME NEW i \in Slots, IpcCall(i)
       PROVE  state[t] = Blocked(ep, role) \/ Queues(t, ep, role)
  <2>1. PICK e \in Endpoints : caps[current][i] = Endpoint(e) /\ PlacesCall(e)
    BY Zenon, <1>13, CallEffect DEF Caller
  <2>2. ASSUME NEW r \in Tasks, state'[r] \in Awake, state'[current] = AwaitingReply,
               \A u \in Tasks : u \in {r, current} \/ Still(u)
        PROVE  t # current /\ Still(t)
    BY <1>1, <2>2
  <2>3. ASSUME Waiting(e, "Recv") = {}, state'[current] = Blocked(e, "Call"), t = current
        PROVE  Queues(t, ep, role)
    <3>1. e = ep
      BY <2>3, BlockedFacts
    <3> QED
      BY Zenon, <2>1, <2>3, <3>1 DEF MeetsNobody, Queues
  <2> QED
    BY Zenon, <1>2, <2>1, <2>2, <2>3 DEF PlacesCall, StillBut
<1>14. ASSUME NEW i \in Slots, IpcReply(i) PROVE state[t] = Blocked(ep, role)
  BY Zenon, <1>1, <1>14, ReplyEffect DEF Replies
<1>15. ASSUME NEW i \in Slots, IpcRevoke(i) PROVE state[t] = Blocked(ep, role)
  BY Zenon, <1>15, RevokeEffect
<1>16. ASSUME NEW i \in Slots, RecvMessage(i) PROVE state[t] = Blocked(ep, role)
  BY Zenon, <1>1, <1>16, RecvMessageEffect
<1>17. ASSUME NEW i \in Slots, CallMessage(i) PROVE state[t] = Blocked(ep, role)
  <2>1. state' = state \/ \E r \in Tasks : /\ state'[r] = Ready
                                           /\ \A u \in Tasks : u = r \/ state'[u] = state[u]
    BY Zenon, <1>17, CallMessageEffect
  <2> QED
    BY Zenon, <1>1, <2>1
<1>18. ASSUME NEW i \in Slots, WaitIrq(i) PROVE state[t] = Blocked(ep, role)
  <2>1. StillBut(current) /\ t # current
    BY Zenon, <1>1, <1>18, WaitIrqEffect
  <2> QED
    BY Zenon, <1>1, <2>1 DEF StillBut, Still
<1>19. ASSUME NEW irq \in Irqs, ExternalInterrupt(irq) PROVE state[t] = Blocked(ep, role)
  BY Zenon, <1>1, <1>19, InterruptEffect
<1> QED
  BY Zenon, <1>4, <1>5, <1>6, <1>7, <1>8, <1>9, <1>11, <1>12, <1>13, <1>14, <1>15, <1>16, <1>17,
     <1>18, <1>19 DEF Step

MeetInv == SchedInv /\ ParkInv /\ NoMissedRendezvous

LEMMA MeetInvInit == Init => MeetInv
<1> SUFFICES ASSUME Init PROVE MeetInv
  OBVIOUS
<1>1. \A t \in Tasks : state[t] \in Awake
  BY DEF Init, Awake
<1>2. NoMissedRendezvous
  BY <1>1, BlockedFacts, ConstantFacts DEF NoMissedRendezvous
<1> QED
  BY Zenon, <1>2, SchedInvInit, ParkInvInit DEF MeetInv

LEMMA MeetInvNext == MeetInv /\ [Next]_vars => MeetInv'
<1> SUFFICES ASSUME MeetInv, [Next]_vars PROVE MeetInv'
  OBVIOUS
<1>1. SchedInv /\ ParkInv /\ NoMissedRendezvous
  BY Zenon DEF MeetInv
<1>2. Step /\ SchedInv' /\ ParkInv'
  BY Zenon, <1>1, Steps, SchedInvNext, ParkInvNext
<1>3. ASSUME NEW ep \in Endpoints, NEW r \in UserTasks, NEW s \in UserTasks,
             NEW role \in {"Send", "Call"},
             state'[r] = Blocked(ep, "Recv"), state'[s] = Blocked(ep, role)
      PROVE  FALSE
  <2>0. "Recv" # role /\ r \in Tasks /\ s \in Tasks
    BY ConstantFacts
  <2>a. at[r] # "park" /\ at[s] # "park"
    BY Zenon, <1>1, <2>0 DEF ParkInv, UserTasks
  <2>1. state[r] = Blocked(ep, "Recv") \/ (r = current /\ MeetsNobody(r, ep))
    BY Zenon, <1>1, <1>2, <1>3, <2>0, <2>a, QueueStep DEF Queues
  <2>2. state[s] = Blocked(ep, role) \/ (s = current /\ MeetsNobody(s, ep))
    BY Zenon, <1>1, <1>2, <1>3, <2>0, <2>a, QueueStep DEF Queues
  <2>3. ~(state[r] = Blocked(ep, "Recv") /\ state[s] = Blocked(ep, role))
    BY <1>1 DEF NoMissedRendezvous
  <2>4. r # s
    BY <1>3, <2>0, BlockedFacts
  <2>5. ASSUME MeetsNobody(r, ep) PROVE Waiting(ep, role) = {}
    BY <1>3, <2>5, BlockedFacts DEF MeetsNobody
  <2>6. ASSUME MeetsNobody(s, ep) PROVE Waiting(ep, "Recv") = {}
    BY <1>3, <2>0, <2>6, BlockedFacts DEF MeetsNobody
  <2>7. state[s] = Blocked(ep, role) => Waiting(ep, role) # {}
    BY <2>0 DEF Waiting
  <2>8. state[r] = Blocked(ep, "Recv") => Waiting(ep, "Recv") # {}
    BY <2>0 DEF Waiting
  <2> QED
    BY Zenon, <2>1, <2>2, <2>3, <2>4, <2>5, <2>6, <2>7, <2>8
<1>4. NoMissedRendezvous'
  BY <1>3 DEF NoMissedRendezvous
<1> QED
  BY Zenon, <1>2, <1>4 DEF MeetInv

(* No endpoint ever has one U-mode task asleep in recv and another asleep  *)
(* in send or call: each operation looks for its partner before it queues, *)
(* and nothing can come between the look and the park.                     *)
THEOREM RendezvousNeverMissed == Spec => []NoMissedRendezvous
<1>1. MeetInv => NoMissedRendezvous
  BY Zenon DEF MeetInv
<1> QED
  BY <1>1, MeetInvInit, MeetInvNext, PTL DEF Spec
=============================================================================
