-------------------------- MODULE SchedHealProofs --------------------------
(***************************************************************************)
(* What the healer, the callers of a service and the drivers of a device   *)
(* rely on, for every number of tasks, slots, endpoints and interrupts and *)
(* every set of programs: restarts, replies and interrupts.                *)
(***************************************************************************)
EXTENDS SchedIpcProofs

LEMMA KindFacts ==
    /\ \A e, f : Endpoint(e) = Endpoint(f) => e = f
    /\ \A i, j : Interrupt(i) = Interrupt(j) => i = j
    /\ \A e : Endpoint(e).kind = "Endpoint" /\ Interrupt(e).kind = "Interrupt"
    /\ \A u : Reply(u).kind = "Reply" /\ Restart(u).kind = "Restart" /\ Restart(u).obj = u
    /\ NoCap.kind = "None"
BY DEF Endpoint, Interrupt, Reply, Restart, NoCap, Capability

-----------------------------------------------------------------------------
(* Where a capability, a grant, a caller, a queued task and a park come    *)
(* from: the steps that can put one there.                                 *)

LEMMA CapSource ==
    ASSUME SchedInv, Step, NEW t \in Tasks, NEW p \in Slots
    PROVE  \/ caps'[t][p] \in {caps[t][p], NoCap}
           \/ t = current /\ \E u \in Tasks : caps'[t][p] \in {pendingGrant[u], Reply(u)}
<1>1. CASE \/ Quiet \/ ResumeMsg \/ Exit \/ RestartTask \/ KernelPark
           \/ \E q \in BOOLEAN : Crash(q)
           \/ \E i \in Slots : IpcSend(i) \/ IpcCall(i) \/ RecvMessage(i) \/ CallMessage(i) \/ WaitIrq(i)
           \/ \E i, src \in Slots : IpcGrant(i, src)
           \/ \E irq \in Irqs : ExternalInterrupt(irq)
  <2>1. caps' = caps
    BY Zenon, <1>1 DEF Quiet, ResumeMsg, Exit, RestartTask, KernelPark, Crash, IpcSend, IpcCall,
       RecvMessage, CallMessage, WaitIrq, IpcGrant, ExternalInterrupt, ipcVars
  <2> QED
    BY <2>1
<1>2. CASE ResumeRecv
  <2>1. \/ caps'[t][p] = caps[t][p]
        \/ /\ t = current /\ current \in Tasks
           /\ \/ caps'[t][p] = pendingGrant[current]
              \/ caller[current] \in Tasks /\ caps'[t][p] = Reply(caller[current])
    BY Zenon, <1>2, ResumeRecvEffect
  <2> QED
    BY <2>1
<1>3. ASSUME NEW i \in Slots, NEW rs \in SlotArgs, IpcRecv(i, rs)
      PROVE  \/ caps'[t][p] = caps[t][p]
             \/ t = current /\ \E u \in Tasks : caps'[t][p] \in {pendingGrant[u], Reply(u)}
  <2>1. PICK ep \in Endpoints : (\E from \in Tasks : RecvTakes(ep, rs, from)) \/ RecvParks(ep)
    BY Zenon, <1>3, RecvEffect
  <2>2. ASSUME NEW from \in Tasks, RecvTakes(ep, rs, from)
        PROVE  \/ caps'[t][p] = caps[t][p]
               \/ t = current /\ caps'[t][p] \in {pendingGrant[from], Reply(from)}
    BY <2>2 DEF RecvTakes
  <2> QED
    BY Zenon, <2>1, <2>2 DEF RecvParks
<1>4. ASSUME NEW i \in Slots, IpcReply(i) \/ IpcRevoke(i)
      PROVE  caps'[t][p] \in {caps[t][p], NoCap}
  <2>1. caps'[t][p] = caps[t][p] \/ caps'[t][p] = NoCap
    BY ZenonT(60), <1>4, ReplyEffect, RevokeEffect DEF Replies
  <2> QED
    BY <2>1
<1> QED
  BY Zenon, <1>1, <1>2, <1>3, <1>4 DEF Step

LEMMA GrantSource ==
    ASSUME SchedInv, Step, NEW t \in Tasks
    PROVE  \/ pendingGrant'[t] \in {pendingGrant[t], NoCap}
           \/ /\ current \in UserTasks /\ "grant" \in Program[current]
              /\ \E src \in Slots : /\ pendingGrant'[t] = caps[current][src]
                                    /\ caps[current][src].kind \in Delegable
<1>1. CASE \/ Quiet \/ ResumeMsg \/ Exit \/ RestartTask \/ KernelPark
           \/ \E q \in BOOLEAN : Crash(q)
           \/ \E i \in Slots : \/ IpcReply(i) \/ IpcRevoke(i)
                               \/ RecvMessage(i) \/ CallMessage(i) \/ WaitIrq(i)
           \/ \E irq \in Irqs : ExternalInterrupt(irq)
  <2>1. pendingGrant' = pendingGrant
    BY Zenon, <1>1 DEF Quiet, ResumeMsg, Exit, RestartTask, KernelPark, Crash, IpcReply, IpcRevoke,
       RecvMessage, CallMessage, WaitIrq, ExternalInterrupt, ipcVars
  <2> QED
    BY <2>1
<1>2. CASE ResumeRecv
  <2>1. pendingGrant'[t] = pendingGrant[t] \/ pendingGrant'[t] = NoCap
    BY Zenon, <1>2, ResumeRecvEffect
  <2> QED
    BY <2>1
<1>3. ASSUME NEW i \in Slots, NEW rs \in SlotArgs, IpcRecv(i, rs)
      PROVE  pendingGrant'[t] \in {pendingGrant[t], NoCap}
  <2>1. pendingGrant'[t] = pendingGrant[t] \/ pendingGrant'[t] = NoCap
    BY Zenon, <1>3, RecvEffect DEF RecvTakes, RecvParks
  <2> QED
    BY <2>1
<1>4. ASSUME NEW r, NEW cap, Hands(r, cap) PROVE pendingGrant'[t] \in {pendingGrant[t], cap}
  BY Zenon, <1>4 DEF Hands
<1>5. ASSUME NEW ep, NEW cap, Sends(ep, cap) PROVE pendingGrant'[t] \in {pendingGrant[t], cap}
  BY Zenon, <1>4, <1>5 DEF Sends
<1>6. ASSUME NEW i \in Slots, IpcSend(i) PROVE pendingGrant'[t] \in {pendingGrant[t], NoCap}
  BY Zenon, <1>5, <1>6, SendEffect
<1>7. ASSUME NEW i \in Slots, IpcCall(i) PROVE pendingGrant'[t] \in {pendingGrant[t], NoCap}
  BY Zenon, <1>4, <1>7, CallEffect DEF PlacesCall
<1>8. ASSUME NEW i \in Slots, NEW src \in Slots, IpcGrant(i, src)
      PROVE  \/ pendingGrant'[t] = pendingGrant[t]
             \/ /\ current \in UserTasks /\ "grant" \in Program[current]
                /\ pendingGrant'[t] = caps[current][src] /\ caps[current][src].kind \in Delegable
  <2>1. /\ current \in UserTasks /\ "grant" \in Program[current] /\ caps[current][src].kind \in Delegable
        /\ \E ep : Sends(ep, caps[current][src])
    BY Zenon, <1>8, GrantEffect DEF Caller
  <2>2. pendingGrant'[t] \in {pendingGrant[t], caps[current][src]}
    BY Zenon, <1>5, <2>1
  <2> QED
    BY <2>1, <2>2
<1> QED
  BY Zenon, <1>1, <1>2, <1>3, <1>6, <1>7, <1>8 DEF Step

LEMMA ParkSource ==
    ASSUME SchedInv, Step, NEW t \in Tasks
    PROVE  \/ parkAs'[t] \in {parkAs[t], Ready}
           \/ /\ t = current /\ current \in KernelTasks
              /\ \/ parkAs'[t] = AwaitingReply /\ "call_message" \in Program[current]
                 \/ \E ep \in Endpoints, i \in Slots, role \in {"Recv", "Call"} :
                       caps[current][i] = Endpoint(ep) /\ parkAs'[t] = Blocked(ep, role)
<1>1. CASE \/ Quiet \/ ResumeRecv \/ ResumeMsg \/ Exit \/ RestartTask
           \/ \E q \in BOOLEAN : Crash(q)
           \/ \E i \in Slots, rs \in SlotArgs : IpcRecv(i, rs)
           \/ \E i \in Slots : IpcSend(i) \/ IpcCall(i) \/ IpcReply(i) \/ IpcRevoke(i) \/ WaitIrq(i)
           \/ \E i, src \in Slots : IpcGrant(i, src)
           \/ \E irq \in Irqs : ExternalInterrupt(irq)
  <2>1. parkAs' = parkAs
    BY Zenon, <1>1 DEF Quiet, ResumeRecv, ResumeMsg, Exit, RestartTask, Crash, IpcRecv, IpcSend,
       IpcCall, IpcReply, IpcRevoke, WaitIrq, IpcGrant, ExternalInterrupt, kernVars
  <2> QED
    BY <2>1
<1>2. CASE KernelPark
  <2>1. parkAs'[t] = parkAs[t] \/ parkAs'[t] = Ready
    BY Zenon, <1>2, KernelParkEffect
  <2> QED
    BY <2>1
<1>3. ASSUME NEW as, GoesToPark(as)
      PROVE  parkAs'[t] = parkAs[t] \/ (t = current /\ parkAs'[t] = as)
  BY Zenon, <1>3 DEF GoesToPark
<1>4. ASSUME NEW i \in Slots, RecvMessage(i)
      PROVE  \/ parkAs'[t] = parkAs[t]
             \/ /\ t = current /\ current \in KernelTasks
                /\ \E ep \in Endpoints : caps[current][i] = Endpoint(ep) /\ parkAs'[t] = Blocked(ep, "Recv")
  BY Zenon, <1>3, <1>4, RecvMessageEffect DEF KernelCaller
<1>5. ASSUME NEW i \in Slots, CallMessage(i)
      PROVE  \/ parkAs'[t] = parkAs[t]
             \/ /\ t = current /\ current \in KernelTasks
                /\ \/ parkAs'[t] = AwaitingReply /\ "call_message" \in Program[current]
                   \/ \E ep \in Endpoints : caps[current][i] = Endpoint(ep) /\ parkAs'[t] = Blocked(ep, "Call")
  <2>1. /\ "call_message" \in Program[current]
        /\ \E ep \in Endpoints : /\ KernelCaller(i, ep)
                                 /\ GoesToPark(AwaitingReply) \/ GoesToPark(Blocked(ep, "Call"))
    BY Zenon, <1>5, CallMessageEffect
  <2> QED
    BY Zenon, <1>3, <2>1 DEF KernelCaller
<1>6. "Recv" \in {"Recv", "Call"} /\ "Call" \in {"Recv", "Call"} /\ parkAs[t] \in {parkAs[t], Ready}
  OBVIOUS
<1>7. ASSUME NEW i \in Slots, RecvMessage(i) \/ CallMessage(i)
      PROVE  \/ parkAs'[t] \in {parkAs[t], Ready}
             \/ /\ t = current /\ current \in KernelTasks
                /\ \/ parkAs'[t] = AwaitingReply /\ "call_message" \in Program[current]
                   \/ \E ep \in Endpoints, role \in {"Recv", "Call"} :
                         caps[current][i] = Endpoint(ep) /\ parkAs'[t] = Blocked(ep, role)
  BY Zenon, <1>4, <1>5, <1>6, <1>7
<1> QED
  BY Zenon, <1>1, <1>2, <1>7 DEF Step

(* What moves a task that sleeps: nothing but its partner.                 *)
WokenBy(t) ==
    \/ Restarts(t) /\ RestartTask
    \/ Reports(t) /\ \E q \in BOOLEAN : Crash(q)
    \/ \E ep \in Endpoints, i \in Slots :
          /\ state[t] = Blocked(ep, "Recv") /\ state'[t] \in Awake
          /\ (\E call \in {"send", "grant", "call"} : Caller(i, ep, call)) \/ KernelCaller(i, ep)
    \/ \E ep : state[t] = Blocked(ep, "Send") /\ state'[t] = Ready
    \/ \E ep : state[t] = Blocked(ep, "Call") /\ state'[t] = AwaitingReply
    \/ state[t] = AwaitingReply /\ \E i \in Slots : IpcReply(i) /\ Replies(i, t)
    \/ \E irq \in Irqs : state[t] = WaitingIrq(irq) /\ state'[t] = Ready /\ ExternalInterrupt(irq)

LEMMA SleeperStep ==
    ASSUME SchedInv, Step, NEW t \in Tasks, state[t] \notin Awake
    PROVE  state'[t] = state[t] \/ WokenBy(t)
<1>0. t # current /\ Ready \in Awake /\ Running \in Awake
  BY Zenon, NotAwake, BlockedFacts
<1>1. CASE Still(t)
  BY Zenon, <1>1 DEF Still
<1>2. CASE StillBut(current)
  BY Zenon, <1>0, <1>1, <1>2 DEF StillBut
<1>3. CASE Quiet \/ ResumeRecv \/ ResumeMsg
  BY Zenon, <1>1, <1>3 DEF Quiet, ResumeRecv, ResumeMsg, schedVars
<1>4. CASE Exit \/ KernelPark
  BY Zenon, <1>2, <1>4, ExitEffect, KernelParkEffect
<1>5. CASE RestartTask
  <2>1. state'[t] = state[t] \/ Restarts(t)
    <3>1. (\E task \in UserTasks : Restarts(task)) \/ state' = state
      BY Zenon, <1>5, RestartEffect
    <3>2. ASSUME NEW task, Restarts(task) PROVE task = t \/ state'[t] = state[t]
      BY Zenon, <3>2 DEF Restarts
    <3> QED
      BY Zenon, <3>1, <3>2
  <2> QED
    BY Zenon, <1>5, <2>1 DEF WokenBy
<1>6. ASSUME NEW q \in BOOLEAN, Crash(q) PROVE state'[t] = state[t] \/ WokenBy(t)
  <2>1. (\E h \in Tasks : Reports(h)) \/ StillBut(current)
    BY Zenon, <1>6, CrashEffect
  <2>2. ASSUME NEW h \in Tasks, Reports(h) PROVE state'[t] = state[t] \/ Reports(t)
    <3>1. CASE h = t
      BY Zenon, <2>2, <3>1
    <3>2. CASE h # t
      BY <1>0, <2>2, <3>2 DEF Reports
    <3> QED
      BY Zenon, <3>1, <3>2
  <2> QED
    BY Zenon, <1>2, <1>6, <2>1, <2>2 DEF WokenBy
<1>7. ASSUME NEW i \in Slots, NEW rs \in SlotArgs, IpcRecv(i, rs)
      PROVE  state'[t] = state[t] \/ WokenBy(t)
  <2>1. \E ep \in Endpoints : (\E from \in Tasks : RecvTakes(ep, rs, from)) \/ RecvParks(ep)
    BY Zenon, <1>7, RecvEffect
  <2>2. ASSUME NEW ep \in Endpoints, NEW from \in Tasks, RecvTakes(ep, rs, from)
        PROVE  state'[t] = state[t] \/ WokenBy(t)
    BY Zenon, <2>2 DEF RecvTakes, WokenBy
  <2> QED
    BY Zenon, <1>2, <2>1, <2>2 DEF RecvParks
<1>8. ASSUME NEW ep \in Endpoints, NEW cap, Sends(ep, cap), NEW i \in Slots,
             NEW call \in {"send", "grant", "call"}, Caller(i, ep, call)
      PROVE  state'[t] = state[t] \/ WokenBy(t)
  BY Zenon, <1>0, <1>2, <1>8 DEF Sends, WokenBy
<1>9. ASSUME NEW i \in Slots, IpcSend(i) PROVE state'[t] = state[t] \/ WokenBy(t)
  BY Zenon, <1>8, <1>9, SendEffect
<1>10. ASSUME NEW i \in Slots, NEW src \in Slots, IpcGrant(i, src)
       PROVE  state'[t] = state[t] \/ WokenBy(t)
  BY Zenon, <1>8, <1>10, GrantEffect
<1>11. ASSUME NEW i \in Slots, IpcCall(i) PROVE state'[t] = state[t] \/ WokenBy(t)
  <2>1. PICK ep \in Endpoints : Caller(i, ep, "call") /\ PlacesCall(ep)
    BY Zenon, <1>11, CallEffect
  <2>2. ASSUME NEW r \in Tasks, state[r] = Blocked(ep, "Recv"), state'[r] \in Awake,
               \A u \in Tasks : u \in {r, current} \/ Still(u)
        PROVE  state'[t] = state[t] \/ WokenBy(t)
    <3>1. t = r \/ Still(t)
      BY <1>0, <2>2
    <3>2. CASE t = r
      BY Zenon, <2>1, <2>2, <3>2 DEF WokenBy
    <3> QED
      BY Zenon, <1>1, <3>1, <3>2
  <2> QED
    BY Zenon, <1>2, <2>1, <2>2 DEF PlacesCall
<1>12. ASSUME NEW i \in Slots, IpcReply(i) PROVE state'[t] = state[t] \/ WokenBy(t)
  <2>1. PICK c \in Tasks : Replies(i, c)
    BY Zenon, <1>12, ReplyEffect
  <2>2. CASE c = t
    BY Zenon, <1>12, <2>1, <2>2 DEF Replies, WokenBy
  <2>3. CASE c # t
    BY Zenon, <2>1, <2>3 DEF Replies
  <2> QED
    BY Zenon, <2>2, <2>3
<1>13. ASSUME NEW i \in Slots, IpcRevoke(i) PROVE state'[t] = state[t]
  BY Zenon, <1>13, RevokeEffect
<1>14. ASSUME NEW i \in Slots, RecvMessage(i) PROVE state'[t] = state[t] \/ WokenBy(t)
  <2>1. state' = state \/ \E ep, from : /\ state[from] = Blocked(ep, "Send") /\ state'[from] = Ready
                                        /\ \A u \in Tasks : u = from \/ state'[u] = state[u]
    BY Zenon, <1>14, RecvMessageEffect
  <2> QED
    BY Zenon, <2>1 DEF WokenBy
<1>15. ASSUME NEW i \in Slots, CallMessage(i) PROVE state'[t] = state[t] \/ WokenBy(t)
  <2>1. PICK ep \in Endpoints :
           /\ KernelCaller(i, ep)
           /\ \/ state' = state
              \/ \E r \in Tasks : /\ state[r] = Blocked(ep, "Recv") /\ state'[r] = Ready
                                  /\ \A u \in Tasks : u = r \/ state'[u] = state[u]
    BY Zenon, <1>15, CallMessageEffect
  <2> QED
    BY Zenon, <1>0, <2>1 DEF WokenBy
<1>16. ASSUME NEW i \in Slots, WaitIrq(i) PROVE state'[t] = state[t]
  BY Zenon, <1>0, <1>2, <1>16, WaitIrqEffect DEF StillBut, Still
<1>17. ASSUME NEW irq \in Irqs, ExternalInterrupt(irq) PROVE state'[t] = state[t] \/ WokenBy(t)
  BY Zenon, <1>17, InterruptEffect DEF WokenBy
<1> QED
  BY Zenon, <1>3, <1>4, <1>5, <1>6, <1>7, <1>9, <1>10, <1>11, <1>12, <1>13, <1>14, <1>15, <1>16,
     <1>17 DEF Step

-----------------------------------------------------------------------------
(* The healer.  Nobody else can wait on, send to or pass on the crash      *)
(* endpoint, so the healer is woken by crashes only; its Restart           *)
(* capabilities are those it was given, and no message brings it others.   *)
CrashEpInv ==
    \A t \in Tasks \ {Healer} :
        /\ \A s \in Slots : caps[t][s] # Endpoint(CRASH_EP)
        /\ pendingGrant[t] # Endpoint(CRASH_EP)
        /\ \A role \in {"Send", "Recv", "Call"} :
              state[t] # Blocked(CRASH_EP, role) /\ parkAs[t] # Blocked(CRASH_EP, role)

HealerInv ==
    /\ caps[Healer][CRASH_CAP] = Endpoint(CRASH_EP)
    /\ \A s \in Slots : caps[Healer][s].kind = "Restart" => caps[Healer][s] = InitCaps[Healer][s]
    /\ pendingGrant[Healer] = NoCap /\ caller[Healer] = Nil
    /\ state[Healer] \in {Ready, Running, Blocked(CRASH_EP, "Recv")}
    /\ at[Healer] \in {"run", "recv"}

HealInv == SchedInv /\ ParkInv /\ CrashEpInv /\ HealerInv

LEMMA HealInvInit == Init => HealInv
<1> SUFFICES ASSUME Init PROVE HealInv
  OBVIOUS
<1>0. Healer \in Tasks /\ Healer \in UserTasks /\ CRASH_CAP \in Slots
  BY Zenon, ConstantFacts, SchedAssumption
<1>1. /\ \A t \in Tasks : state[t] \in Awake /\ parkAs[t] = Ready /\ pendingGrant[t] = NoCap
      /\ caps = InitCaps /\ caller[Healer] = Nil /\ at[Healer] = "run"
  BY <1>0 DEF Init, Awake
<1>2. \A t \in Tasks \ {Healer}, s \in Slots : InitCaps[t][s] # Endpoint(CRASH_EP)
  BY Zenon, BootAssumption
<1>3. \A role : Blocked(CRASH_EP, role) \notin Awake /\ Blocked(CRASH_EP, role) # Ready
  BY BlockedFacts
<1>4. CrashEpInv
  <2>1. NoCap # Endpoint(CRASH_EP)
    BY Zenon, CapFacts
  <2> QED
    BY Zenon, <1>1, <1>2, <1>3, <2>1 DEF CrashEpInv
<1>5. HealerInv
  <2>1. caps[Healer][CRASH_CAP] = Endpoint(CRASH_EP)
    BY Zenon, <1>1, BootAssumption
  <2>2. state[Healer] \in {Ready, Running, Blocked(CRASH_EP, "Recv")}
    BY <1>0, <1>1 DEF Awake
  <2> QED
    BY Zenon, <1>0, <1>1, <2>1, <2>2 DEF HealerInv
<1> QED
  BY Zenon, <1>4, <1>5, SchedInvInit, ParkInvInit DEF HealInv

(* The healer only receives and restarts.                                  *)
LEMMA HealerProgram ==
    ASSUME NEW call, call \in Program[current], call # "recv" PROVE current # Healer
BY Zenon, BootAssumption

(* The endpoints of the others are not the healer's.                       *)
LEMMA OtherEndpoint ==
    ASSUME HealInv, current \in Tasks, current # Healer,
           NEW i \in Slots, NEW ep, caps[current][i] = Endpoint(ep)
    PROVE  ep # CRASH_EP /\ \A role : state[Healer] # Blocked(ep, role)
<1>1. ep # CRASH_EP
  BY Zenon DEF HealInv, CrashEpInv
<1>2. state[Healer] \in Awake \/ state[Healer] = Blocked(CRASH_EP, "Recv")
  BY DEF HealInv, HealerInv, Awake
<1> QED
  BY <1>1, <1>2, BlockedFacts

(* The healer's own recv parks it: nobody queues to send to it.            *)
LEMMA HealerRecv ==
    ASSUME HealInv, current = Healer, NEW i \in Slots, NEW rs \in SlotArgs, IpcRecv(i, rs)
    PROVE  RecvParks(CRASH_EP)
<1>0. SchedInv /\ CrashEpInv /\ HealerInv
  BY Zenon DEF HealInv
<1>1. PICK ep \in Endpoints : /\ Caller(i, ep, "recv")
                              /\ (\E from \in Tasks : RecvTakes(ep, rs, from)) \/ RecvParks(ep)
  BY Zenon, <1>0, RecvEffect
<1>2. i = CRASH_CAP
  BY Zenon, <1>0, RecvEffect DEF HealerLoop
<1>3. ep = CRASH_EP
  BY <1>0, <1>1, <1>2, KindFacts DEF HealerInv, Caller
<1>4. ASSUME NEW from \in Tasks, RecvTakes(CRASH_EP, rs, from) PROVE FALSE
  <2>1. \E role \in {"Send", "Recv", "Call"} : state[from] = Blocked(CRASH_EP, role)
    BY <1>4 DEF RecvTakes
  <2>2. from # current
    BY <1>0, <2>1, NotAwake, BlockedFacts
  <2> QED
    BY Zenon, <1>0, <2>1, <2>2 DEF CrashEpInv
<1> QED
  BY Zenon, <1>1, <1>3, <1>4

LEMMA CrashEpNext == ASSUME HealInv, Step PROVE CrashEpInv'
<1>0. SchedInv /\ ParkInv /\ CrashEpInv /\ HealerInv /\ current \in Tasks
  BY Zenon DEF HealInv, SchedInv, TypeOK
<1>1. \A t \in Tasks : pendingGrant[t] # Endpoint(CRASH_EP)
  BY Zenon, <1>0, CapFacts DEF CrashEpInv, HealerInv
<1> SUFFICES ASSUME NEW t \in Tasks, t # Healer
             PROVE  /\ \A p \in Slots : caps'[t][p] # Endpoint(CRASH_EP)
                    /\ pendingGrant'[t] # Endpoint(CRASH_EP)
                    /\ \A role \in {"Send", "Recv", "Call"} :
                          state'[t] # Blocked(CRASH_EP, role) /\ parkAs'[t] # Blocked(CRASH_EP, role)
  BY Zenon DEF CrashEpInv
<1>2. ASSUME NEW p \in Slots PROVE caps'[t][p] # Endpoint(CRASH_EP)
  <2>1. caps[t][p] # Endpoint(CRASH_EP) /\ NoCap # Endpoint(CRASH_EP)
    BY Zenon, <1>0, CapFacts DEF CrashEpInv
  <2>2. \A u \in Tasks : Reply(u) # Endpoint(CRASH_EP)
    BY Zenon, CapFacts
  <2>3. \/ caps'[t][p] \in {caps[t][p], NoCap}
        \/ \E u \in Tasks : caps'[t][p] \in {pendingGrant[u], Reply(u)}
    BY Zenon, <1>0, CapSource
  <2> QED
    BY <1>1, <2>1, <2>2, <2>3
<1>3. pendingGrant'[t] # Endpoint(CRASH_EP)
  <2>1. ASSUME "grant" \in Program[current], NEW src \in Slots
        PROVE  caps[current][src] # Endpoint(CRASH_EP)
    <3>1. current # Healer
      BY Zenon, <2>1, HealerProgram
    <3> QED
      BY Zenon, <1>0, <3>1 DEF CrashEpInv
  <2>2. NoCap # Endpoint(CRASH_EP)
    BY Zenon, CapFacts
  <2>3. \/ pendingGrant'[t] \in {pendingGrant[t], NoCap}
        \/ "grant" \in Program[current] /\ \E src \in Slots : pendingGrant'[t] = caps[current][src]
    BY Zenon, <1>0, GrantSource
  <2> QED
    BY <1>1, <2>1, <2>2, <2>3
<1>4. ASSUME NEW role \in {"Send", "Recv", "Call"} PROVE state'[t] # Blocked(CRASH_EP, role)
  <2> SUFFICES ASSUME state'[t] = Blocked(CRASH_EP, role) PROVE FALSE
    BY Zenon
  <2>1. state[t] # Blocked(CRASH_EP, role) /\ parkAs[t] # Blocked(CRASH_EP, role)
    BY Zenon, <1>0 DEF CrashEpInv
  <2>2. Queues(t, CRASH_EP, role)
    BY Zenon, <1>0, <2>1, QueueStep
  <2>3. \E i \in Slots : caps[t][i] = Endpoint(CRASH_EP)
    BY Zenon, <2>1, <2>2 DEF Queues
  <2> QED
    BY Zenon, <1>0, <2>3 DEF CrashEpInv
<1>5. ASSUME NEW role \in {"Send", "Recv", "Call"} PROVE parkAs'[t] # Blocked(CRASH_EP, role)
  <2>1. parkAs[t] # Blocked(CRASH_EP, role)
    BY Zenon, <1>0 DEF CrashEpInv
  <2>2. Ready # Blocked(CRASH_EP, role) /\ AwaitingReply # Blocked(CRASH_EP, role)
    BY BlockedFacts
  <2>3. ASSUME t = current, NEW ep, NEW i \in Slots, caps[current][i] = Endpoint(ep), NEW r
        PROVE  Blocked(ep, r) # Blocked(CRASH_EP, role)
    <3>1. ep # CRASH_EP
      BY Zenon, <1>0, <2>3, OtherEndpoint
    <3> QED
      BY <3>1, BlockedFacts
  <2>4. \/ parkAs'[t] \in {parkAs[t], Ready} \/ parkAs'[t] = AwaitingReply
        \/ t = current /\ \E ep, r : \E i \in Slots :
              caps[current][i] = Endpoint(ep) /\ parkAs'[t] = Blocked(ep, r)
    BY Zenon, <1>0, ParkSource
  <2> QED
    BY <2>1, <2>2, <2>3, <2>4
<1> QED
  BY Zenon, <1>2, <1>3, <1>4, <1>5

(* The healer keeps its capabilities, and is handed nothing.               *)
LEMMA HealerCaps ==
    ASSUME HealInv, Step, NEW p \in Slots
    PROVE  \/ caps'[Healer][p] = caps[Healer][p]
           \/ caps'[Healer][p] = NoCap /\ caps[Healer][p] # Endpoint(CRASH_EP)
<1>0. SchedInv /\ CrashEpInv /\ HealerInv /\ Healer \in Tasks /\ current \in Tasks
  BY Zenon, ConstantFacts DEF HealInv, SchedInv, TypeOK
<1>1. CASE \/ Quiet \/ ResumeMsg \/ Exit \/ RestartTask \/ KernelPark
           \/ \E q \in BOOLEAN : Crash(q)
           \/ \E i \in Slots : IpcSend(i) \/ IpcCall(i) \/ RecvMessage(i) \/ CallMessage(i) \/ WaitIrq(i)
           \/ \E i, src \in Slots : IpcGrant(i, src)
           \/ \E irq \in Irqs : ExternalInterrupt(irq)
  BY Zenon, <1>1 DEF Quiet, ResumeMsg, Exit, RestartTask, KernelPark, Crash, IpcSend, IpcCall,
     RecvMessage, CallMessage, WaitIrq, IpcGrant, ExternalInterrupt, ipcVars
<1>2. CASE ResumeRecv
  <2>1. \/ caps'[Healer][p] = caps[Healer][p]
        \/ current = Healer /\ (pendingGrant[current] # NoCap \/ caller[current] \in Tasks)
    BY Zenon, <1>0, <1>2, ResumeRecvEffect
  <2> QED
    BY Zenon, <1>0, <2>1, ConstantFacts DEF HealerInv
<1>3. ASSUME NEW i \in Slots, NEW rs \in SlotArgs, IpcRecv(i, rs)
      PROVE  caps'[Healer][p] = caps[Healer][p]
  <2>1. CASE current = Healer
    BY Zenon, <1>3, <2>1, HealerRecv DEF RecvParks
  <2>2. CASE current # Healer
    <3>1. \E ep \in Endpoints : (\E from \in Tasks : RecvTakes(ep, rs, from)) \/ RecvParks(ep)
      BY Zenon, <1>0, <1>3, RecvEffect
    <3>2. ASSUME NEW ep, NEW from, RecvTakes(ep, rs, from) PROVE caps'[Healer][p] = caps[Healer][p]
      BY Zenon, <1>0, <2>2, <3>2 DEF RecvTakes
    <3> QED
      BY Zenon, <3>1, <3>2 DEF RecvParks
  <2> QED
    BY Zenon, <2>1, <2>2
<1>4. ASSUME NEW i \in Slots, IpcReply(i) PROVE caps'[Healer][p] = caps[Healer][p]
  <2>1. "reply" \in Program[current] /\ \E c \in Tasks : Replies(i, c)
    BY Zenon, <1>0, <1>4, ReplyEffect
  <2>2. current # Healer
    BY Zenon, <2>1, HealerProgram
  <2> QED
    BY Zenon, <1>0, <2>1, <2>2 DEF Replies
<1>5. ASSUME NEW i \in Slots, IpcRevoke(i)
      PROVE  \/ caps'[Healer][p] = caps[Healer][p]
             \/ caps'[Healer][p] = NoCap /\ caps[Healer][p] # Endpoint(CRASH_EP)
  <2>1. PICK ep \in Endpoints :
           /\ "revoke" \in Program[current] /\ caps[current][i] = Endpoint(ep)
           /\ \/ caps'[Healer][p] = caps[Healer][p]
              \/ caps[Healer][p] = Endpoint(ep) /\ caps'[Healer][p] = NoCap
    BY ZenonT(60), <1>0, <1>5, RevokeEffect DEF Caller
  <2>2. ep # CRASH_EP
    BY Zenon, <1>0, <2>1, HealerProgram, OtherEndpoint
  <2> QED
    BY <2>1, <2>2, KindFacts
<1> QED
  BY Zenon, <1>1, <1>2, <1>3, <1>4, <1>5 DEF Step

LEMMA HealerMail ==
    ASSUME HealInv, Step PROVE pendingGrant'[Healer] = NoCap /\ caller'[Healer] = Nil
<1>0. /\ SchedInv /\ CrashEpInv /\ HealerInv /\ Healer \in Tasks /\ current \in Tasks
      /\ pendingGrant[Healer] = NoCap /\ caller[Healer] = Nil
  BY Zenon, ConstantFacts DEF HealInv, SchedInv, TypeOK, HealerInv
<1>1. CASE \/ Quiet \/ ResumeMsg \/ Exit \/ RestartTask \/ KernelPark
           \/ \E q \in BOOLEAN : Crash(q)
           \/ \E i \in Slots : IpcReply(i) \/ IpcRevoke(i) \/ RecvMessage(i) \/ WaitIrq(i)
           \/ \E irq \in Irqs : ExternalInterrupt(irq)
  BY Zenon, <1>0, <1>1 DEF Quiet, ResumeMsg, Exit, RestartTask, KernelPark, Crash, IpcReply, IpcRevoke,
     RecvMessage, WaitIrq, ExternalInterrupt, ipcVars
<1>2. CASE ResumeRecv
  BY Zenon, <1>0, <1>2, ResumeRecvEffect
<1>3. ASSUME NEW i \in Slots, NEW rs \in SlotArgs, IpcRecv(i, rs)
      PROVE  pendingGrant'[Healer] = NoCap /\ caller'[Healer] = Nil
  BY Zenon, <1>0, <1>3, RecvEffect DEF RecvParks, RecvTakes
<1>4. ASSUME NEW i \in Slots, NEW ep, NEW call, call # "recv", Caller(i, ep, call)
      PROVE  Healer # current /\ state[Healer] # Blocked(ep, "Recv")
  BY Zenon, <1>0, <1>4, HealerProgram, OtherEndpoint DEF Caller
<1>5. ASSUME NEW i \in Slots, NEW ep, NEW call, call # "recv", Caller(i, ep, call),
             NEW cap, Sends(ep, cap)
      PROVE  pendingGrant'[Healer] = NoCap
  BY Zenon, <1>0, <1>4, <1>5 DEF Sends, Hands
<1>6. ASSUME NEW i \in Slots, IpcSend(i) PROVE pendingGrant'[Healer] = NoCap /\ caller'[Healer] = Nil
  <2>1. "send" # "recv"
    OBVIOUS
  <2> QED
    BY Zenon, <1>0, <1>5, <1>6, <2>1, SendEffect
<1>7. ASSUME NEW i \in Slots, NEW src \in Slots, IpcGrant(i, src)
      PROVE  pendingGrant'[Healer] = NoCap /\ caller'[Healer] = Nil
  <2>1. "grant" # "recv"
    OBVIOUS
  <2> QED
    BY Zenon, <1>0, <1>5, <1>7, <2>1, GrantEffect
<1>8. ASSUME NEW i \in Slots, IpcCall(i) PROVE pendingGrant'[Healer] = NoCap /\ caller'[Healer] = Nil
  <2>1. "call" # "recv"
    OBVIOUS
  <2>2. PICK ep \in Endpoints : Caller(i, ep, "call") /\ PlacesCall(ep)
    BY Zenon, <1>0, <1>8, CallEffect
  <2>3. Healer # current /\ state[Healer] # Blocked(ep, "Recv")
    BY Zenon, <1>4, <2>1, <2>2
  <2> QED
    BY Zenon, <1>0, <2>2, <2>3 DEF PlacesCall, Hands
<1>9. ASSUME NEW i \in Slots, CallMessage(i)
      PROVE  pendingGrant'[Healer] = NoCap /\ caller'[Healer] = Nil
  <2>1. /\ pendingGrant' = pendingGrant
        /\ \E ep \in Endpoints :
              /\ KernelCaller(i, ep)
              /\ \/ caller' = caller
                 \/ \E r \in Tasks : /\ state[r] = Blocked(ep, "Recv")
                                     /\ \A t \in Tasks : caller'[t] = IF t = r THEN current ELSE caller[t]
    BY Zenon, <1>0, <1>9, CallMessageEffect
  <2>2. \A ep : KernelCaller(i, ep) => state[Healer] # Blocked(ep, "Recv")
    <3>1. Healer \notin KernelTasks
      BY Zenon, SchedAssumption DEF UserTasks
    <3> QED
      BY Zenon, <1>0, <3>1, OtherEndpoint DEF KernelCaller
  <2> QED
    BY Zenon, <1>0, <2>1, <2>2
<1> QED
  BY Zenon, <1>1, <1>2, <1>3, <1>6, <1>7, <1>8, <1>9 DEF Step

(* The healer runs, can run, or sleeps in its own recv.                    *)
LEMMA HealerAwake ==
    ASSUME HealInv, Step
    PROVE  state'[Healer] \in {Ready, Running, Blocked(CRASH_EP, "Recv")}
<1>0. SchedInv /\ ParkInv /\ CrashEpInv /\ HealerInv /\ Healer \in Tasks /\ current \in Tasks
  BY Zenon, ConstantFacts DEF HealInv, SchedInv, TypeOK
<1>1. state[Healer] \in Awake \/ state[Healer] = Blocked(CRASH_EP, "Recv")
  BY <1>0 DEF HealerInv, Awake
<1>2. ASSUME state'[Healer] \in Awake \/ state'[Healer] = Blocked(CRASH_EP, "Recv")
      PROVE  state'[Healer] \in {Ready, Running, Blocked(CRASH_EP, "Recv")}
  BY <1>2 DEF Awake
<1>3. CASE state[Healer] = Blocked(CRASH_EP, "Recv")
  <2>1. /\ Healer # current /\ state[Healer] \notin Awake /\ state[Healer] # AwaitingReply
        /\ \A irq : state[Healer] # WaitingIrq(irq)
        /\ \A ep : state[Healer] # Blocked(ep, "Send") /\ state[Healer] # Blocked(ep, "Call")
        /\ Ready \in Awake /\ Running \in Awake
    BY <1>0, <1>3, NotAwake, BlockedFacts
  <2>2. WokenBy(Healer) => state'[Healer] \in Awake
    BY Zenon, <2>1 DEF WokenBy, Restarts, Reports
  <2> QED
    BY Zenon, <1>0, <1>2, <1>3, <2>1, <2>2, SleeperStep
<1>4. CASE state[Healer] \in Awake /\ ~Leaves(Healer)
  BY Zenon, <1>0, <1>2, <1>4, AwakeStays
<1>5. CASE Leaves(Healer)
  <2>1. Healer = current /\ ~KernelPark /\ Healer \notin KernelTasks /\ at[Healer] = "run"
    <3>1. Healer \notin KernelTasks
      BY Zenon, SchedAssumption DEF UserTasks
    <3>2. at[Healer] # "park"
      BY Zenon, <1>0, <3>1 DEF ParkInv
    <3> QED
      BY Zenon, <1>5, <3>1, <3>2 DEF Leaves, KernelPark
  <2>2. \A call : call \in Program[current] => call = "recv"
    BY Zenon, <2>1, HealerProgram
  <2>3. state[Healer] \in Awake
    BY <1>0, <2>1 DEF SchedInv, OneRunning, Awake
  <2> DEFINE Good == state'[Healer] \in Awake \/ state'[Healer] = Blocked(CRASH_EP, "Recv")
  <2>4. ASSUME Still(Healer) PROVE Good
    BY Zenon, <2>3, <2>4 DEF Still
  <2>5. ASSUME Quiet \/ ResumeRecv \/ ResumeMsg PROVE Good
    BY Zenon, <1>0, <2>4, <2>5 DEF Quiet, ResumeRecv, ResumeMsg, schedVars, Still
  <2>6. ASSUME RestartTask PROVE Good
    BY Zenon, <1>0, <2>3, <2>6, RestartEffect DEF Restarts
  <2>7. ASSUME NEW i \in Slots, NEW rs \in SlotArgs, IpcRecv(i, rs) PROVE Good
    BY Zenon, <2>1, <2>7, HealerRecv DEF RecvParks
  <2>8. ASSUME NEW irq \in Irqs, ExternalInterrupt(irq) PROVE Good
    <3>1. state[Healer] # WaitingIrq(irq)
      BY <2>3, BlockedFacts
    <3> QED
      BY Zenon, <1>0, <2>3, <2>8, <3>1, InterruptEffect
  <2>9. \A q \in BOOLEAN : ~Crash(q)
    <3>1. "fault" # "recv"
      OBVIOUS
    <3> QED
      BY Zenon, <1>0, <2>2, <3>1, CrashEffect
  <2>10. ~Exit
    <3>1. "exit" # "recv"
      OBVIOUS
    <3> QED
      BY Zenon, <1>0, <2>2, <3>1, ExitEffect
  <2>11. \A i \in Slots : ~IpcSend(i) /\ ~IpcCall(i) /\ ~IpcReply(i) /\ ~IpcRevoke(i) /\ ~WaitIrq(i)
    <3>1. "send" # "recv" /\ "call" # "recv" /\ "reply" # "recv" /\ "revoke" # "recv" /\ "wait_irq" # "recv"
      OBVIOUS
    <3> QED
      BY Zenon, <1>0, <2>2, <3>1, SendEffect, CallEffect, ReplyEffect, RevokeEffect, WaitIrqEffect
         DEF Caller
  <2>12. \A i, src \in Slots : ~IpcGrant(i, src)
    <3>1. "grant" # "recv"
      OBVIOUS
    <3> QED
      BY Zenon, <1>0, <2>2, <3>1, GrantEffect DEF Caller
  <2>13. \A i \in Slots : ~RecvMessage(i) /\ ~CallMessage(i)
    BY Zenon, <2>1 DEF RecvMessage, CallMessage, InKernel
  <2>14. Good
    BY Zenon, <2>1, <2>5, <2>6, <2>7, <2>8, <2>9, <2>10, <2>11, <2>12, <2>13 DEF Step
  <2> QED
    BY Zenon, <1>2, <2>14
<1> QED
  BY Zenon, <1>1, <1>3, <1>4, <1>5

(* Where a task is in its system call, after a step.                       *)
LEMMA AtStep ==
    ASSUME SchedInv, Step, NEW t \in Tasks
    PROVE  \/ at'[t] = at[t] \/ at'[t] = "run"
           \/ t = current /\ at'[t] = "recv" /\ \E i \in Slots, rs \in SlotArgs : IpcRecv(i, rs)
           \/ t = current /\ at'[t] = "msg" /\ "call" \in Program[current]
           \/ t = current /\ (KernelPark \/ current \in KernelTasks)
<1>1. CASE \/ Quiet \/ Exit
           \/ \E q \in BOOLEAN : Crash(q)
           \/ \E i \in Slots : IpcSend(i) \/ IpcReply(i) \/ IpcRevoke(i) \/ WaitIrq(i)
           \/ \E i, src \in Slots : IpcGrant(i, src)
           \/ \E irq \in Irqs : ExternalInterrupt(irq)
  BY Zenon, <1>1 DEF Quiet, Exit, Crash, IpcSend, IpcReply, IpcRevoke, WaitIrq, IpcGrant, ExternalInterrupt
<1>2. CASE ResumeRecv \/ ResumeMsg
  <2>1. at' = [at EXCEPT ![current] = "run"]
    BY Zenon, <1>2 DEF ResumeRecv, ResumeMsg
  <2> QED
    BY <2>1 DEF SchedInv, TypeOK
<1>3. CASE RestartTask
  BY Zenon, <1>3, RestartEffect DEF Restarts
<1>4. CASE KernelPark
  BY Zenon, <1>4, KernelParkEffect
<1>5. ASSUME NEW i \in Slots, NEW rs \in SlotArgs, IpcRecv(i, rs)
      PROVE  at'[t] = at[t] \/ (t = current /\ at'[t] = "recv")
  BY Zenon, <1>5, RecvEffect DEF RecvTakes, RecvParks
<1>6. ASSUME NEW i \in Slots, IpcCall(i)
      PROVE  at'[t] = at[t] \/ (t = current /\ at'[t] = "msg" /\ "call" \in Program[current])
  BY Zenon, <1>6, CallEffect DEF Caller
<1>7. ASSUME NEW i \in Slots, RecvMessage(i) PROVE at'[t] = at[t] \/ (t = current /\ current \in KernelTasks)
  BY Zenon, <1>7, RecvMessageEffect DEF KernelCaller, GoesToPark
<1>8. ASSUME NEW i \in Slots, CallMessage(i) PROVE at'[t] = at[t] \/ (t = current /\ current \in KernelTasks)
  <2>1. current \in KernelTasks /\ \E as : GoesToPark(as)
    BY Zenon, <1>8, CallMessageEffect DEF KernelCaller
  <2> QED
    BY Zenon, <2>1 DEF GoesToPark
<1> QED
  BY Zenon, <1>1, <1>2, <1>3, <1>4, <1>5, <1>6, <1>7, <1>8 DEF Step

LEMMA HealInvNext == ASSUME HealInv, Step, SchedInv' PROVE HealInv'
<1>0. SchedInv /\ ParkInv /\ CrashEpInv /\ HealerInv /\ Healer \in Tasks /\ CRASH_CAP \in Slots
  BY Zenon, ConstantFacts, SchedAssumption DEF HealInv
<1>1. caps'[Healer][CRASH_CAP] = Endpoint(CRASH_EP)
  BY Zenon, <1>0, HealerCaps DEF HealerInv
<1>2. ASSUME NEW s \in Slots, caps'[Healer][s].kind = "Restart" PROVE caps'[Healer][s] = InitCaps[Healer][s]
  <2>1. caps'[Healer][s] = caps[Healer][s] \/ caps'[Healer][s] = NoCap
    BY Zenon, HealerCaps
  <2>2. caps'[Healer][s] # NoCap
    BY <1>2, KindFacts
  <2> QED
    BY Zenon, <1>0, <1>2, <2>1, <2>2 DEF HealerInv
<1>3. at'[Healer] \in {"run", "recv"}
  <2>1. Healer \notin KernelTasks
    BY Zenon, SchedAssumption DEF UserTasks
  <2>2. at[Healer] # "park"
    BY Zenon, <1>0, <2>1 DEF ParkInv
  <2>3. ~(Healer = current /\ KernelPark)
    BY Zenon, <2>2 DEF KernelPark
  <2>4. ~(Healer = current /\ "call" \in Program[current])
    <3>1. "call" # "recv"
      OBVIOUS
    <3> QED
      BY Zenon, <3>1, HealerProgram
  <2>5. at'[Healer] = at[Healer] \/ at'[Healer] = "run" \/ at'[Healer] = "recv"
    BY Zenon, <1>0, <2>1, <2>3, <2>4, AtStep
  <2> QED
    BY <1>0, <2>5 DEF HealerInv
<1>4. HealerInv'
  BY Zenon, <1>1, <1>2, <1>3, HealerMail, HealerAwake DEF HealerInv
<1> QED
  BY Zenon, <1>0, <1>4, CrashEpNext, ParkInvNext DEF HealInv

(* A task that is down stays down until it is restarted.                   *)
LEMMA ExitedStays ==
    ASSUME SchedInv, Step, ~RestartTask, NEW t \in Tasks, state[t] = Exited PROVE state'[t] = Exited
<1>1. /\ state[t] \notin Awake /\ state[t] # AwaitingReply
      /\ \A ep, role : state[t] # Blocked(ep, role)
      /\ \A irq : state[t] # WaitingIrq(irq)
  BY BlockedFacts
<1>2. ~WokenBy(t)
  BY Zenon, <1>1 DEF WokenBy, Reports
<1> QED
  BY Zenon, <1>1, <1>2, SleeperStep

(* The task that the healer's capability for a badge names is down.        *)
Down(badge) ==
    badge \in Slots /\ caps[Healer][badge].kind = "Restart" => state[caps[Healer][badge].obj] = Exited

LEMMA DownStays ==
    ASSUME HealInv, Step, ~RestartTask, NEW badge, Down(badge) PROVE Down(badge)'
<1>0. SchedInv /\ Healer \in Tasks
  BY Zenon, ConstantFacts DEF HealInv
<1> SUFFICES ASSUME badge \in Slots, caps'[Healer][badge].kind = "Restart"
             PROVE  state'[caps'[Healer][badge].obj] = Exited
  BY Zenon DEF Down
<1>1. caps'[Healer][badge] # NoCap
  BY KindFacts
<1>2. caps'[Healer][badge] = caps[Healer][badge]
  BY Zenon, <1>1, HealerCaps
<1>3. caps[Healer][badge] \in Caps
  BY <1>0 DEF SchedInv, TypeOK
<1>4. caps[Healer][badge].obj \in Tasks
  BY Zenon, <1>2, <1>3, CapFacts, ConstantFacts
<1>5. state[caps[Healer][badge].obj] = Exited
  BY Zenon, <1>2 DEF Down
<1> QED
  BY Zenon, <1>0, <1>2, <1>4, <1>5, ExitedStays

(* The healer's verdict is the badge of the message it was woken with.     *)
LEMMA VerdictStep ==
    ASSUME HealInv, Step
    PROVE  \/ verdict' \in {verdict, Nil}
           \/ /\ at[Healer] = "recv" /\ state[Healer] = Running /\ verdict' = message[Healer].badge
              /\ ~RestartTask
<1>0. SchedInv /\ Healer \in Tasks
  BY Zenon, ConstantFacts DEF HealInv
<1>1. CASE \/ Quiet \/ ResumeMsg \/ Exit \/ KernelPark
           \/ \E q \in BOOLEAN : Crash(q)
           \/ \E i \in Slots : \/ IpcSend(i) \/ IpcCall(i) \/ IpcReply(i) \/ IpcRevoke(i)
                               \/ RecvMessage(i) \/ CallMessage(i) \/ WaitIrq(i)
           \/ \E i, src \in Slots : IpcGrant(i, src)
           \/ \E irq \in Irqs : ExternalInterrupt(irq)
  <2>1. verdict' = verdict
    BY Zenon, <1>1 DEF Quiet, ResumeMsg, Exit, KernelPark, Crash, IpcSend, IpcCall, IpcReply, IpcRevoke,
       RecvMessage, CallMessage, WaitIrq, IpcGrant, ExternalInterrupt, healVars
  <2> QED
    BY <2>1
<1>2. CASE RestartTask
  <2>1. verdict' = Nil
    BY Zenon, <1>2 DEF RestartTask
  <2> QED
    BY <2>1
<1>3. CASE ResumeRecv
  <2>1. at[current] = "recv" /\ Received(message[current])
    BY Zenon, <1>3 DEF ResumeRecv
  <2>2. CASE current = Healer
    <3>1. state[Healer] = Running /\ verdict' = message[Healer].badge
      BY Zenon, <1>0, <2>1, <2>2 DEF Received, SchedInv, OneRunning
    <3>2. ~RestartTask
      BY <2>1 DEF RestartTask
    <3> QED
      BY Zenon, <2>1, <2>2, <3>1, <3>2
  <2>3. CASE current # Healer
    <3>1. verdict' = verdict
      BY Zenon, <2>1, <2>3 DEF Received
    <3> QED
      BY <3>1
  <2> QED
    BY Zenon, <2>2, <2>3
<1>4. ASSUME NEW i \in Slots, NEW rs \in SlotArgs, IpcRecv(i, rs) PROVE verdict' = verdict
  <2>1. CASE current = Healer
    BY Zenon, <1>4, <2>1, HealerRecv DEF RecvParks
  <2>2. CASE current # Healer
    <3>1. \E ep \in Endpoints : (\E from \in Tasks : RecvTakes(ep, rs, from)) \/ RecvParks(ep)
      BY Zenon, <1>0, <1>4, RecvEffect
    <3> QED
      BY Zenon, <2>2, <3>1 DEF RecvTakes, RecvParks, Received
  <2> QED
    BY Zenon, <2>1, <2>2
<1>5. verdict \in {verdict, Nil}
  OBVIOUS
<1> QED
  BY Zenon, <1>1, <1>2, <1>3, <1>4, <1>5 DEF Step

(* The mail that the healer is woken with: unread, or a crash report.      *)
LEMMA HealerWoken ==
    ASSUME HealInv, Step, at'[Healer] = "recv", state'[Healer] \in Awake
    PROVE  \/ /\ at[Healer] = "recv" /\ state[Healer] \in Awake
              /\ message'[Healer] = message[Healer]
           \/ Reports(Healer) /\ \E q \in BOOLEAN : Crash(q)
<1>0. /\ SchedInv /\ ParkInv /\ CrashEpInv /\ HealerInv /\ Healer \in Tasks /\ current \in Tasks
      /\ Healer \notin KernelTasks
  BY Zenon, ConstantFacts, SchedAssumption DEF HealInv, SchedInv, TypeOK, UserTasks
<1>1. at[Healer] = "recv"
  <2>1. ~(Healer = current /\ KernelPark)
    BY Zenon, <1>0 DEF KernelPark, ParkInv
  <2>2. ASSUME NEW i \in Slots, NEW rs \in SlotArgs, IpcRecv(i, rs), Healer = current PROVE FALSE
    <3>1. state'[Healer] = Blocked(CRASH_EP, "Recv")
      BY Zenon, <2>2, HealerRecv DEF RecvParks
    <3> QED
      BY <3>1, BlockedFacts
  <2>3. "recv" # "run" /\ "recv" # "msg"
    OBVIOUS
  <2> QED
    BY Zenon, <1>0, <2>1, <2>2, <2>3, AtStep
<1>2. CASE state[Healer] \in Awake
  <2>1. Holds(Healer)
    BY <1>1, <1>2 DEF Holds, Awake
  <2> QED
    BY Zenon, <1>0, <1>1, <1>2, <2>1, MessageStep
<1>3. CASE state[Healer] \notin Awake
  <2>1. state[Healer] = Blocked(CRASH_EP, "Recv")
    BY <1>0, <1>3 DEF HealerInv, Awake
  <2>2. Healer # current
    BY Zenon, <1>0, <1>3, NotAwake
  <2>3. WokenBy(Healer)
    BY Zenon, <1>0, <1>3, SleeperStep
  <2>4. /\ state[Healer] # AwaitingReply /\ \A irq : state[Healer] # WaitingIrq(irq)
        /\ \A ep : /\ state[Healer] # Blocked(ep, "Send") /\ state[Healer] # Blocked(ep, "Call")
                   /\ state[Healer] = Blocked(ep, "Recv") => ep = CRASH_EP
    BY <2>1, BlockedFacts
  <2>5. ASSUME NEW i \in Slots, caps[current][i] = Endpoint(CRASH_EP) PROVE FALSE
    BY Zenon, <1>0, <2>2, <2>5 DEF CrashEpInv
  <2>6. ~Restarts(Healer)
    BY Zenon DEF Restarts
  <2>7. ASSUME NEW ep, NEW i \in Slots, state[Healer] = Blocked(ep, "Recv"),
               (\E call : Caller(i, ep, call)) \/ KernelCaller(i, ep)
        PROVE  FALSE
    BY Zenon, <2>4, <2>5, <2>7 DEF Caller, KernelCaller
  <2> QED
    BY Zenon, <2>3, <2>4, <2>6, <2>7 DEF WokenBy
<1> QED
  BY Zenon, <1>2, <1>3

RestartInv == HealInv /\ RestartTargetsExited

LEMMA DownForm ==
    RestartTargetsExited <=> /\ verdict # Nil => Down(verdict)
                             /\ at[Healer] = "recv" /\ state[Healer] \in Awake => Down(message[Healer].badge)
BY Zenon DEF RestartTargetsExited, Down, Awake

LEMMA RestartInvInit == Init => RestartInv
<1> SUFFICES ASSUME Init PROVE RestartInv
  OBVIOUS
<1>1. verdict = Nil /\ at[Healer] = "run"
  BY ConstantFacts DEF Init
<1>2. RestartTargetsExited
  BY <1>1 DEF RestartTargetsExited
<1> QED
  BY Zenon, <1>2, HealInvInit DEF RestartInv

LEMMA RestartInvNext == RestartInv /\ [Next]_vars => RestartInv'
<1> SUFFICES ASSUME RestartInv, [Next]_vars PROVE RestartInv'
  OBVIOUS
<1>0. HealInv /\ RestartTargetsExited /\ SchedInv /\ HealerInv
  BY Zenon DEF RestartInv, HealInv
<1>1. Step /\ SchedInv'
  BY Zenon, <1>0, Steps, SchedInvNext
<1>2. HealInv' /\ HealerInv'
  BY Zenon, <1>0, <1>1, HealInvNext DEF HealInv
<1>3. /\ verdict # Nil => Down(verdict)
      /\ at[Healer] = "recv" /\ state[Healer] \in Awake => Down(message[Healer].badge)
  BY Zenon, <1>0, DownForm
<1>4. ASSUME verdict' # Nil PROVE Down(verdict)'
  <2>1. ~RestartTask
    BY Zenon, <1>4 DEF RestartTask
  <2>2. CASE verdict' = verdict
    <3>1. Down(verdict)
      BY Zenon, <1>3, <1>4, <2>2
    <3>2. PICK b : b = verdict
      OBVIOUS
    <3>3. Down(b)'
      BY Zenon, <1>0, <1>1, <2>1, <3>1, <3>2, DownStays
    <3> QED
      BY Zenon, <2>2, <3>2, <3>3 DEF Down
  <2>3. CASE verdict' # verdict
    <3>1. at[Healer] = "recv" /\ state[Healer] = Running /\ verdict' = message[Healer].badge
      BY <1>0, <1>1, <1>4, <2>3, VerdictStep
    <3>2. PICK b : b = message[Healer].badge
      OBVIOUS
    <3>3. Down(b)
      BY Zenon, <1>3, <3>1, <3>2, BlockedFacts
    <3>4. Down(b)'
      BY Zenon, <1>0, <1>1, <2>1, <3>3, DownStays
    <3> QED
      BY Zenon, <3>1, <3>2, <3>4 DEF Down
  <2> QED
    BY Zenon, <2>2, <2>3
<1>5. ASSUME at'[Healer] = "recv", state'[Healer] \in Awake PROVE Down(message[Healer].badge)'
  <2>1. ~RestartTask
    <3>1. ASSUME RestartTask PROVE at'[Healer] = "run"
      BY Zenon, <1>0, <3>1, RestartEffect, ConstantFacts DEF Restarts
    <3> QED
      BY <1>5, <3>1
  <2>2. CASE at[Healer] = "recv" /\ state[Healer] \in Awake /\ message'[Healer] = message[Healer]
    <3>1. PICK b : b = message[Healer].badge
      OBVIOUS
    <3>2. Down(b)'
      BY Zenon, <1>0, <1>1, <1>3, <2>1, <2>2, <3>1, DownStays
    <3> QED
      BY Zenon, <2>2, <3>1, <3>2 DEF Down
  <2>3. CASE Reports(Healer) /\ \E q \in BOOLEAN : Crash(q)
    <3>1. current \in UserTasks /\ state'[current] = Exited
      BY Zenon, <1>0, <2>3, CrashEffect
    <3>2. message'[Healer].badge = CrashBadge[current]
      BY <2>3 DEF Reports, Message
    <3>3. ASSUME NEW s \in Slots, s = CrashBadge[current], caps'[Healer][s].kind = "Restart"
          PROVE  caps'[Healer][s].obj = current
      <4>1. caps'[Healer][s] = InitCaps[Healer][s]
        BY Zenon, <1>2, <3>3 DEF HealerInv
      <4> QED
        BY Zenon, <3>1, <3>3, <4>1, BootAssumption
    <3> QED
      BY Zenon, <3>1, <3>2, <3>3 DEF Down
  <2> QED
    BY Zenon, <1>0, <1>1, <1>5, <2>2, <2>3, HealerWoken
<1>6. RestartTargetsExited'
  BY Zenon, <1>4, <1>5, DownForm DEF RestartTargetsExited, Down, Awake
<1> QED
  BY Zenon, <1>2, <1>6 DEF RestartInv

(* The healer restarts only tasks that are down, whatever the others do:   *)
(* restart, which does not look at its target, never re-forges the context *)
(* of a task that is running, queued or waiting.                           *)
THEOREM RestartsOnlyTheDown == Spec => []RestartTargetsExited
<1>1. RestartInv => RestartTargetsExited
  BY Zenon DEF RestartInv
<1> QED
  BY <1>1, RestartInvInit, RestartInvNext, PTL DEF Spec

-----------------------------------------------------------------------------
(* Replies.  A right to reply is minted for a task that begins to await    *)
(* the reply, moves from the caller field into a capability slot, and is   *)
(* used up by the reply that ends the wait.                                *)

ReplyInv ==
    /\ RestartInv
    /\ \A t \in Tasks : pendingGrant[t].kind # "Reply"
    /\ ReplyCapNamesWaiter

LEMMA ReplyGrantsNext ==
    ASSUME SchedInv, Step, \A t \in Tasks : pendingGrant[t].kind # "Reply"
    PROVE  \A t \in Tasks : pendingGrant'[t].kind # "Reply"
<1> SUFFICES ASSUME NEW t \in Tasks PROVE pendingGrant'[t].kind # "Reply"
  BY Zenon
<1>1. NoCap.kind # "Reply" /\ pendingGrant[t].kind # "Reply"
  BY KindFacts
<1>2. \A src : caps[current][src].kind \in Delegable => caps[current][src].kind # "Reply"
  BY Zenon, ProgramAssumption
<1>3. \/ pendingGrant'[t] \in {pendingGrant[t], NoCap}
      \/ \E src \in Slots : pendingGrant'[t] = caps[current][src] /\ caps[current][src].kind \in Delegable
  BY Zenon, GrantSource
<1> QED
  BY <1>1, <1>2, <1>3

(* Nobody gains a right to reply but w, in place q, towards c0.            *)
GainsOnly(w, q, c0) ==
    \A t, c \in Tasks : \A p \in Slots \cup {Nil} :
        MayReply(t, p, c)' => MayReply(t, p, c) \/ (t = w /\ p = q /\ c = c0)

(* The task that the new right is for begins to wait.                      *)
BeginsToWait(c0) ==
    /\ c0 \in Tasks /\ ~AwaitsReply(c0)
    /\ state'[c0] = AwaitingReply \/ (at'[c0] = "park" /\ parkAs'[c0] = AwaitingReply)

LEMMA RightsKept ==
    ASSUME caller' = caller, \A t \in Tasks, p \in Slots : caps'[t][p] \in {caps[t][p], NoCap}
    PROVE  GainsOnly(Nil, Nil, Nil)
<1> SUFFICES ASSUME NEW t \in Tasks, NEW c \in Tasks, NEW p \in Slots \cup {Nil}, MayReply(t, p, c)'
             PROVE  MayReply(t, p, c)
  BY Zenon DEF GainsOnly
<1>1. CASE p = Nil
  BY Zenon, <1>1 DEF MayReply
<1>2. CASE p # Nil
  <2>1. p \in Slots /\ caps'[t][p] = Reply(c)
    BY <1>2 DEF MayReply
  <2>2. caps'[t][p] = caps[t][p]
    BY <2>1, CapFacts
  <2> QED
    BY Zenon, <1>2, <2>1, <2>2 DEF MayReply
<1> QED
  BY Zenon, <1>1, <1>2

LEMMA RightsStep ==
    ASSUME SchedInv, ParkInv, \A t \in Tasks : pendingGrant[t].kind # "Reply", Step
    PROVE  \/ ResumeRecv
           \/ GainsOnly(Nil, Nil, Nil)
           \/ \E w, q, c0 : GainsOnly(w, q, c0) /\ BeginsToWait(c0)
<1>0. current \in Tasks /\ state[current] = Running /\ Running # AwaitingReply
  BY StateFacts DEF SchedInv, TypeOK, OneRunning
<1>1. CASE \/ Quiet \/ ResumeMsg \/ Exit \/ RestartTask \/ KernelPark
           \/ \E q \in BOOLEAN : Crash(q)
           \/ \E i \in Slots : IpcSend(i) \/ RecvMessage(i) \/ WaitIrq(i)
           \/ \E i, src \in Slots : IpcGrant(i, src)
           \/ \E irq \in Irqs : ExternalInterrupt(irq)
  <2>1. caps' = caps /\ caller' = caller
    BY Zenon, <1>1 DEF Quiet, ResumeMsg, Exit, RestartTask, KernelPark, Crash, IpcSend,
       RecvMessage, WaitIrq, IpcGrant, ExternalInterrupt, ipcVars
  <2>2. \A t \in Tasks, p \in Slots : caps'[t][p] \in {caps[t][p], NoCap}
    BY <2>1
  <2> QED
    BY Zenon, <2>1, <2>2, RightsKept
<1>2. ASSUME NEW i \in Slots, IpcReply(i) \/ IpcRevoke(i) PROVE GainsOnly(Nil, Nil, Nil)
  <2>1. caller' = caller /\ \A t \in Tasks, p \in Slots : caps'[t][p] = caps[t][p] \/ caps'[t][p] = NoCap
    BY ZenonT(60), <1>2, ReplyEffect, RevokeEffect DEF Replies
  <2>2. \A t \in Tasks, p \in Slots : caps'[t][p] \in {caps[t][p], NoCap}
    BY <2>1
  <2> QED
    BY Zenon, <2>1, <2>2, RightsKept
<1>3. ASSUME NEW ep, NEW rs, NEW from \in Tasks, RecvTakes(ep, rs, from)
      PROVE  \/ GainsOnly(Nil, Nil, Nil)
             \/ GainsOnly(current, rs, from) /\ BeginsToWait(from)
  <2>1. ASSUME NEW t \in Tasks, NEW c \in Tasks, NEW p \in Slots \cup {Nil}, MayReply(t, p, c)',
               ~MayReply(t, p, c)
        PROVE  t = current /\ p = rs /\ c = from /\ state[from] = Blocked(ep, "Call")
    <3>1. caller' = caller
      BY Zenon, <1>3 DEF RecvTakes
    <3>2. p \in Slots /\ caps'[t][p] = Reply(c) /\ caps[t][p] # Reply(c)
      BY <2>1, <3>1, ConstantFacts DEF MayReply
    <3>3. caps'[t][p] # pendingGrant[from]
      <4>1. pendingGrant[from].kind # "Reply" /\ Reply(c).kind = "Reply"
        BY Zenon, KindFacts
      <4> QED
        BY Zenon, <3>2, <4>1
    <3>4. t = current /\ p = rs /\ caps'[t][p] = Reply(from) /\ state[from] = Blocked(ep, "Call")
      BY Zenon, <1>3, <3>2, <3>3 DEF RecvTakes
    <3>5. c = from
      BY <3>2, <3>4, CapFacts
    <3> QED
      BY Zenon, <3>4, <3>5
  <2>2. CASE state[from] = Blocked(ep, "Call")
    <3>1. state[from] \notin Awake /\ state[from] # AwaitingReply /\ \A e : state[from] # Blocked(e, "Send")
      BY <2>2, BlockedFacts
    <3>2. ~AwaitsReply(from)
      BY Zenon, <3>1 DEF AwaitsReply, ParkInv
    <3>3. state'[from] = AwaitingReply
      BY Zenon, <1>3, <3>1 DEF RecvTakes
    <3> QED
      BY Zenon, <2>1, <3>2, <3>3 DEF GainsOnly, BeginsToWait
  <2>3. CASE state[from] # Blocked(ep, "Call")
    BY Zenon, <2>1, <2>3 DEF GainsOnly
  <2> QED
    BY Zenon, <2>2, <2>3
<1>4. ASSUME NEW i \in Slots, NEW rs \in SlotArgs, IpcRecv(i, rs)
      PROVE  \/ GainsOnly(Nil, Nil, Nil)
             \/ \E from \in Tasks : GainsOnly(current, rs, from) /\ BeginsToWait(from)
  <2>1. PICK ep \in Endpoints : (\E from \in Tasks : RecvTakes(ep, rs, from)) \/ RecvParks(ep)
    BY Zenon, <1>4, RecvEffect
  <2>2. CASE RecvParks(ep)
    <3>1. caps' = caps /\ caller' = caller
      BY Zenon, <2>2 DEF RecvParks
    <3>2. \A t \in Tasks, p \in Slots : caps'[t][p] \in {caps[t][p], NoCap}
      BY <3>1
    <3> QED
      BY Zenon, <3>1, <3>2, RightsKept
  <2> QED
    BY Zenon, <1>3, <2>1, <2>2
<1>5. ASSUME caps' = caps, NEW r \in Tasks,
             \A t \in Tasks : caller'[t] = IF t = r THEN current ELSE caller[t]
      PROVE  GainsOnly(r, Nil, current)
  BY <1>5 DEF GainsOnly, MayReply
<1>6. ASSUME caps' = caps, caller' = caller PROVE GainsOnly(Nil, Nil, Nil)
  BY Zenon, <1>6 DEF GainsOnly, MayReply
<1>7. ASSUME NEW i \in Slots, IpcCall(i)
      PROVE  \/ GainsOnly(Nil, Nil, Nil)
             \/ \E r \in Tasks : GainsOnly(r, Nil, current) /\ BeginsToWait(current)
  <2>1. PICK ep \in Endpoints : caps' = caps /\ Caller(i, ep, "call") /\ PlacesCall(ep)
    BY Zenon, <1>7, CallEffect
  <2>2. ~AwaitsReply(current)
    <3>1. at[current] # "park"
      BY <2>1 DEF Caller
    <3> QED
      BY Zenon, <1>0, <3>1 DEF AwaitsReply
  <2> QED
    BY Zenon, <1>0, <1>5, <1>6, <2>1, <2>2 DEF PlacesCall, BeginsToWait
<1>8. ASSUME NEW i \in Slots, CallMessage(i)
      PROVE  \/ GainsOnly(Nil, Nil, Nil)
             \/ \E r \in Tasks : GainsOnly(r, Nil, current) /\ BeginsToWait(current)
  <2>1. PICK ep \in Endpoints :
           /\ caps' = caps /\ KernelCaller(i, ep)
           /\ \/ \E r \in Tasks :
                    /\ \A t \in Tasks : caller'[t] = IF t = r THEN current ELSE caller[t]
                    /\ GoesToPark(AwaitingReply)
              \/ caller' = caller
    BY Zenon, <1>8, CallMessageEffect
  <2>2. ~AwaitsReply(current)
    <3>1. at[current] # "park"
      BY <2>1 DEF KernelCaller
    <3> QED
      BY Zenon, <1>0, <3>1 DEF AwaitsReply
  <2>3. GoesToPark(AwaitingReply) => at'[current] = "park" /\ parkAs'[current] = AwaitingReply
    BY Zenon, <1>0 DEF GoesToPark
  <2> QED
    BY Zenon, <1>0, <1>5, <1>6, <2>1, <2>2, <2>3 DEF BeginsToWait
<1> QED
  BY Zenon, <1>0, <1>1, <1>2, <1>4, <1>7, <1>8 DEF Step

(* A kernel task on its way to a park gets there.                          *)
LEMMA ParkStays ==
    ASSUME SchedInv, ParkInv, Step, NEW c \in Tasks, at[c] = "park"
    PROVE  (at'[c] = "park" /\ parkAs'[c] = parkAs[c]) \/ state'[c] = parkAs[c]
<1>0. c \in KernelTasks /\ at[c] # "run" /\ at[c] # "recv" /\ at[c] # "msg"
  BY DEF ParkInv
<1>1. CASE Quiet \/ Exit \/ (\E q \in BOOLEAN : Crash(q)) \/ \E irq \in Irqs : ExternalInterrupt(irq)
  BY Zenon, <1>1 DEF Quiet, Exit, Crash, ExternalInterrupt, kernVars
<1>2. CASE ResumeRecv \/ ResumeMsg
  <2>1. at' = [at EXCEPT ![current] = "run"] /\ parkAs' = parkAs /\ at[current] \in {"recv", "msg"}
    BY Zenon, <1>2 DEF ResumeRecv, ResumeMsg, kernVars
  <2> QED
    BY <1>0, <2>1 DEF SchedInv, TypeOK
<1>3. CASE RestartTask
  <2>1. parkAs' = parkAs
    BY Zenon, <1>3 DEF RestartTask, kernVars
  <2>2. (\E task \in UserTasks : Restarts(task)) \/ at' = at
    BY Zenon, <1>3, RestartEffect
  <2>3. c \notin UserTasks
    BY Zenon, <1>0 DEF UserTasks
  <2> QED
    BY Zenon, <2>1, <2>2, <2>3 DEF Restarts
<1>4. CASE KernelPark
  BY Zenon, <1>4, KernelParkEffect
<1>5. ASSUME NEW i \in Slots, NEW rs \in SlotArgs, IpcRecv(i, rs)
      PROVE  at'[c] = "park" /\ parkAs'[c] = parkAs[c]
  <2>1. parkAs' = parkAs /\ at[current] = "run"
    BY Zenon, <1>5, RecvEffect DEF Caller, kernVars
  <2> QED
    BY Zenon, <1>0, <1>5, <2>1, RecvEffect DEF RecvTakes, RecvParks
<1>6. ASSUME NEW i \in Slots, IpcCall(i) PROVE at'[c] = "park" /\ parkAs'[c] = parkAs[c]
  BY Zenon, <1>0, <1>6, CallEffect DEF Caller, kernVars
<1>7. ASSUME NEW i \in Slots, IpcSend(i) \/ IpcReply(i) \/ IpcRevoke(i) \/ WaitIrq(i)
      PROVE  at'[c] = "park" /\ parkAs'[c] = parkAs[c]
  BY Zenon, <1>7 DEF IpcSend, IpcReply, IpcRevoke, WaitIrq, kernVars
<1>8. ASSUME NEW i \in Slots, NEW src \in Slots, IpcGrant(i, src)
      PROVE  at'[c] = "park" /\ parkAs'[c] = parkAs[c]
  BY Zenon, <1>8 DEF IpcGrant, kernVars
<1>9. ASSUME NEW as, GoesToPark(as), at[current] = "run" PROVE at'[c] = "park" /\ parkAs'[c] = parkAs[c]
  BY Zenon, <1>0, <1>9 DEF GoesToPark
<1>10. ASSUME NEW i \in Slots, RecvMessage(i) PROVE at'[c] = "park" /\ parkAs'[c] = parkAs[c]
  <2>1. at[current] = "run" /\ ((\E as : GoesToPark(as)) \/ UNCHANGED <<at, parkAs>>)
    BY Zenon, <1>10, RecvMessageEffect DEF KernelCaller
  <2> QED
    BY Zenon, <1>9, <2>1
<1>11. ASSUME NEW i \in Slots, CallMessage(i) PROVE at'[c] = "park" /\ parkAs'[c] = parkAs[c]
  <2>1. at[current] = "run" /\ \E as : GoesToPark(as)
    BY Zenon, <1>11, CallMessageEffect DEF KernelCaller
  <2> QED
    BY Zenon, <1>9, <2>1
<1> QED
  BY Zenon, <1>1, <1>2, <1>3, <1>4, <1>5, <1>6, <1>7, <1>8, <1>10, <1>11 DEF Step

(* A task that awaits a reply goes on waiting until it gets it.            *)
LEMMA WaiterStays ==
    ASSUME RestartInv, Step, NEW c \in Tasks, AwaitsReply(c)
    PROVE  \/ AwaitsReply(c)'
           \/ \E i \in Slots : IpcReply(i) /\ Replies(i, c)
<1>0. SchedInv /\ ParkInv
  BY Zenon DEF RestartInv, HealInv
<1>1. CASE at[c] = "park" /\ parkAs[c] = AwaitingReply
  BY Zenon, <1>0, <1>1, ParkStays DEF AwaitsReply
<1>2. CASE state[c] = AwaitingReply
  <2>1. /\ state[c] \notin Awake /\ state[c] # Exited
        /\ \A ep, role : state[c] # Blocked(ep, role)
        /\ \A irq : state[c] # WaitingIrq(irq)
    BY <1>2, BlockedFacts
  <2>2. ~(Restarts(c) /\ RestartTask)
    <3> SUFFICES ASSUME Restarts(c), RestartTask PROVE FALSE
      BY Zenon
    <3>1. verdict \in Slots /\ caps[Healer][verdict] = Restart(c) /\ verdict # Nil
      BY Zenon DEF Restarts, RestartTask
    <3>2. Down(verdict)
      BY Zenon, <3>1, DownForm DEF RestartInv
    <3>3. caps[Healer][verdict].kind = "Restart" /\ caps[Healer][verdict].obj = c
      BY Zenon, <3>1, KindFacts
    <3>4. state[c] = Exited
      BY Zenon, <3>1, <3>2, <3>3 DEF Down
    <3> QED
      BY Zenon, <2>1, <3>4
  <2>3. state'[c] = state[c] \/ WokenBy(c)
    BY Zenon, <1>0, <2>1, SleeperStep
  <2>4. WokenBy(c) => \E i \in Slots : IpcReply(i) /\ Replies(i, c)
    BY Zenon, <2>1, <2>2 DEF WokenBy, Reports
  <2> QED
    BY Zenon, <1>2, <2>3, <2>4 DEF AwaitsReply
<1> QED
  BY Zenon, <1>1, <1>2 DEF AwaitsReply

(* The receiver's right moves into the slot it named in recv.              *)
LEMMA ResumeRights ==
    ASSUME SchedInv, \A t \in Tasks : pendingGrant[t].kind # "Reply", ResumeRecv,
           NEW t \in Tasks, NEW c \in Tasks, NEW p \in Slots \cup {Nil}, MayReply(t, p, c)'
    PROVE  \/ MayReply(t, p, c) /\ ~(t = current /\ p = Nil)
           \/ t = current /\ p = slot[current] /\ p \in Slots /\ MayReply(current, Nil, c)
<1>0. Nil \notin Slots /\ Nil \notin Tasks
  BY Zenon, ConstantFacts
<1>1. CASE p = Nil
  <2>1. caller'[t] = c
    BY Zenon, <1>1 DEF MayReply
  <2>2. t # current /\ caller[t] = c
    BY Zenon, <1>0, <2>1, ResumeRecvEffect
  <2> QED
    BY Zenon, <1>1, <2>2 DEF MayReply
<1>2. CASE p # Nil
  <2>1. p \in Slots /\ caps'[t][p] = Reply(c)
    BY <1>2 DEF MayReply
  <2>2. CASE caps[t][p] = Reply(c)
    BY Zenon, <1>2, <2>2 DEF MayReply
  <2>3. CASE caps[t][p] # Reply(c)
    <3>1. pendingGrant[t] # Reply(c)
      BY KindFacts
    <3>0. \/ caps'[t][p] = caps[t][p]
          \/ /\ t = current /\ p = slot[current]
             /\ \/ caps'[t][p] = pendingGrant[current]
                \/ caps'[t][p] = Reply(caller[current])
      BY Zenon, <2>1, ResumeRecvEffect
    <3>2. t = current /\ p = slot[current] /\ Reply(c) = Reply(caller[current])
      BY <2>1, <2>3, <3>0, <3>1
    <3>3. caller[current] = c
      BY <3>2, CapFacts
    <3> QED
      BY Zenon, <2>1, <3>2, <3>3 DEF MayReply
  <2> QED
    BY Zenon, <2>2, <2>3
<1> QED
  BY Zenon, <1>1, <1>2

LEMMA ReplyInvNext == ReplyInv /\ [Next]_vars => ReplyInv'
<1> SUFFICES ASSUME ReplyInv, [Next]_vars PROVE ReplyInv'
  OBVIOUS
<1>0. /\ RestartInv /\ SchedInv /\ ParkInv /\ ReplyCapNamesWaiter
      /\ \A t \in Tasks : pendingGrant[t].kind # "Reply"
  BY Zenon DEF ReplyInv, RestartInv, HealInv
<1>1. Step /\ RestartInv'
  BY Zenon, <1>0, Steps, RestartInvNext
<1>2. \A t \in Tasks : pendingGrant'[t].kind # "Reply"
  BY Zenon, <1>0, <1>1, ReplyGrantsNext
<1>3. /\ Nil \notin Tasks /\ Nil \notin Slots
      /\ \/ ResumeRecv \/ GainsOnly(Nil, Nil, Nil)
         \/ \E w, q, c0 : GainsOnly(w, q, c0) /\ BeginsToWait(c0)
  BY Zenon, <1>0, <1>1, RightsStep, ConstantFacts
<1>4. ASSUME NEW t \in Tasks, NEW c \in Tasks, NEW p \in Slots \cup {Nil},
             NEW u \in Tasks, NEW q \in Slots \cup {Nil}, MayReply(t, p, c), MayReply(u, q, c)
      PROVE  AwaitsReply(c) /\ u = t /\ q = p
  BY Zenon, <1>0, <1>4 DEF ReplyCapNamesWaiter
<1>5. ASSUME NEW t \in Tasks, NEW c \in Tasks, NEW p \in Slots \cup {Nil}, MayReply(t, p, c)'
      PROVE  AwaitsReply(c)'
  <2>1. CASE MayReply(t, p, c)
    <3>1. AwaitsReply(c)
      BY Zenon, <1>4, <2>1
    <3>2. ASSUME NEW i \in Slots, IpcReply(i), Replies(i, c) PROVE FALSE
      <4>1. current \in Tasks /\ caps[current][i] = Reply(c) /\ caps'[current][i] = NoCap
        BY Zenon, <1>0, <3>2, ReplyEffect DEF Replies
      <4>2. MayReply(current, i, c)
        BY Zenon, <1>3, <4>1 DEF MayReply
      <4>3. t = current /\ p = i
        BY <1>4, <2>1, <4>1, <4>2
      <4>4. caps'[current][i] = Reply(c)
        BY Zenon, <1>3, <1>5, <4>3 DEF MayReply
      <4> QED
        BY Zenon, <4>1, <4>4, CapFacts
    <3> QED
      BY Zenon, <1>0, <1>1, <3>1, <3>2, WaiterStays
  <2>2. CASE ~MayReply(t, p, c) /\ ResumeRecv
    <3>1. MayReply(current, Nil, c) /\ current \in Tasks
      BY Zenon, <1>0, <1>5, <2>2, ResumeRights DEF SchedInv, TypeOK
    <3>2. AwaitsReply(c)
      BY Zenon, <1>4, <3>1
    <3>3. \A i \in Slots : ~IpcReply(i)
      BY <2>2 DEF ResumeRecv, IpcReply, InUser, InProgram
    <3> QED
      BY Zenon, <1>0, <1>1, <3>2, <3>3, WaiterStays
  <2>3. CASE ~MayReply(t, p, c) /\ ~ResumeRecv
    <3>1. \E w, q, c0 : GainsOnly(w, q, c0) /\ BeginsToWait(c0)
      BY Zenon, <1>3, <1>5, <2>3 DEF GainsOnly
    <3>2. BeginsToWait(c)
      BY Zenon, <1>5, <2>3, <3>1 DEF GainsOnly
    <3> QED
      BY Zenon, <3>2 DEF BeginsToWait, AwaitsReply
  <2> QED
    BY Zenon, <2>1, <2>2, <2>3
<1>6. ASSUME NEW t \in Tasks, NEW c \in Tasks, NEW p \in Slots \cup {Nil}, MayReply(t, p, c)',
             NEW u \in Tasks, NEW q \in Slots \cup {Nil}, MayReply(u, q, c)'
      PROVE  u = t /\ q = p
  <2>1. CASE ResumeRecv
    <3>0. current \in Tasks
      BY Zenon, <1>0 DEF SchedInv, TypeOK
    <3>1. \/ MayReply(t, p, c) /\ ~(t = current /\ p = Nil)
          \/ t = current /\ p = slot[current] /\ MayReply(current, Nil, c)
      BY Zenon, <1>0, <1>6, <2>1, ResumeRights
    <3>2. \/ MayReply(u, q, c) /\ ~(u = current /\ q = Nil)
          \/ u = current /\ q = slot[current] /\ MayReply(current, Nil, c)
      BY Zenon, <1>0, <1>6, <2>1, ResumeRights
    <3>3. ASSUME MayReply(t, p, c), MayReply(u, q, c) PROVE u = t /\ q = p
      BY <1>4, <3>3
    <3>4. ASSUME MayReply(t, p, c), MayReply(current, Nil, c) PROVE t = current /\ p = Nil
      BY <1>4, <3>0, <3>4
    <3>5. ASSUME MayReply(u, q, c), MayReply(current, Nil, c) PROVE u = current /\ q = Nil
      BY <1>4, <3>0, <3>5
    <3> QED
      BY Zenon, <3>1, <3>2, <3>3, <3>4, <3>5
  <2>2. CASE GainsOnly(Nil, Nil, Nil)
    <3>1. MayReply(t, p, c) /\ MayReply(u, q, c)
      BY Zenon, <1>3, <1>6, <2>2 DEF GainsOnly
    <3> QED
      BY <1>4, <3>1
  <2>3. ASSUME NEW w, NEW place, NEW c0, GainsOnly(w, place, c0), BeginsToWait(c0)
        PROVE  u = t /\ q = p
    <3>1. MayReply(t, p, c) \/ (t = w /\ p = place /\ c = c0)
      BY Zenon, <1>6, <2>3 DEF GainsOnly
    <3>2. MayReply(u, q, c) \/ (u = w /\ q = place /\ c = c0)
      BY Zenon, <1>6, <2>3 DEF GainsOnly
    <3>3. ~AwaitsReply(c0)
      BY Zenon, <2>3 DEF BeginsToWait
    <3>4. CASE c = c0
      <4>1. ~MayReply(t, p, c) /\ ~MayReply(u, q, c)
        BY Zenon, <1>4, <3>3, <3>4
      <4> QED
        BY Zenon, <3>1, <3>2, <4>1
    <3>5. CASE c # c0
      BY <1>4, <3>1, <3>2, <3>5
    <3> QED
      BY Zenon, <3>4, <3>5
  <2> QED
    BY Zenon, <1>3, <2>1, <2>2, <2>3
<1>7. ReplyCapNamesWaiter'
  BY Zenon, <1>5, <1>6 DEF ReplyCapNamesWaiter
<1> QED
  BY Zenon, <1>1, <1>2, <1>7 DEF ReplyInv

LEMMA ReplyInvInit == Init => ReplyInv
<1> SUFFICES ASSUME Init PROVE ReplyInv
  OBVIOUS
<1>1. /\ \A t \in Tasks : pendingGrant[t] = NoCap /\ caller[t] = Nil
      /\ caps = InitCaps
  BY DEF Init
<1>2. NoCap.kind # "Reply"
  BY KindFacts
<1>3. \A t, c \in Tasks : \A p \in Slots \cup {Nil} : ~MayReply(t, p, c)
  <2> SUFFICES ASSUME NEW t \in Tasks, NEW c \in Tasks, NEW p \in Slots \cup {Nil} PROVE ~MayReply(t, p, c)
    BY Zenon
  <2>1. CASE p = Nil
    BY Zenon, <1>1, <2>1, ConstantFacts DEF MayReply
  <2>2. CASE p # Nil
    <3>1. p \in Slots
      BY <2>2
    <3>2. InitCaps[t][p].kind # "Reply"
      BY Zenon, <3>1, BootAssumption
    <3>3. InitCaps[t][p] # Reply(c)
      BY Zenon, <3>2, KindFacts
    <3> QED
      BY Zenon, <1>1, <2>2, <3>3 DEF MayReply
  <2> QED
    BY Zenon, <2>1, <2>2
<1>4. ReplyCapNamesWaiter
  BY Zenon, <1>3 DEF ReplyCapNamesWaiter
<1> QED
  BY Zenon, <1>1, <1>2, <1>4, RestartInvInit DEF ReplyInv

(* A Reply capability, and a caller handed to a receiver, always name a    *)
(* task that awaits that very reply, and only once: a reply never lands in *)
(* a later call, never twice, and never at a task that has been restarted. *)
THEOREM RepliesAlwaysNameWaiters == Spec => []ReplyCapNamesWaiter
<1>1. ReplyInv => ReplyCapNamesWaiter
  BY Zenon DEF ReplyInv
<1> QED
  BY <1>1, ReplyInvInit, ReplyInvNext, PTL DEF Spec

(* The one case in which a reply finds its caller not yet asleep: a kernel *)
(* task preempted between placing its call and parking.                    *)
OnItsWay(c) == c \in KernelTasks /\ at[c] = "park" /\ parkAs[c] = AwaitingReply

(* ipc_reply wakes its caller, or the caller is a kernel task that has yet *)
(* to park: no U-mode caller ever loses its reply.                         *)
ReplyFindsCaller ==
    [][\A i \in Slots : IpcReply(i) =>
          state[caps[current][i].obj] = AwaitingReply \/ OnItsWay(caps[current][i].obj)]_vars

LEMMA ReplyTarget ==
    ASSUME ReplyInv, NEW i \in Slots, IpcReply(i)
    PROVE  /\ caps[current][i].obj \in Tasks
           /\ state[caps[current][i].obj] = AwaitingReply \/ OnItsWay(caps[current][i].obj)
<1>0. SchedInv /\ ParkInv /\ ReplyCapNamesWaiter
  BY Zenon DEF ReplyInv, RestartInv, HealInv
<1>1. PICK c \in Tasks : current \in Tasks /\ caps[current][i] = Reply(c)
  BY Zenon, <1>0, ReplyEffect DEF Replies
<1>2. caps[current][i].obj = c
  BY <1>1 DEF Reply, Capability
<1>3. i # Nil /\ i \in Slots \cup {Nil}
  BY ConstantFacts
<1>4. MayReply(current, i, c)
  BY Zenon, <1>1, <1>3 DEF MayReply
<1>5. AwaitsReply(c)
  BY Zenon, <1>0, <1>1, <1>3, <1>4 DEF ReplyCapNamesWaiter
<1> QED
  BY Zenon, <1>0, <1>2, <1>5 DEF AwaitsReply, OnItsWay, ParkInv

(* Every use of a Reply capability finds its caller asleep, or, if that is *)
(* a kernel task, on its way to sleep.                                     *)
THEOREM RepliesFindTheirCaller == Spec => ReplyFindsCaller
<1>1. ReplyInv /\ [Next]_vars =>
         [\A i \in Slots : IpcReply(i) =>
             state[caps[current][i].obj] = AwaitingReply \/ OnItsWay(caps[current][i].obj)]_vars
  BY Zenon, ReplyTarget
<1> QED
  BY <1>1, ReplyInvInit, ReplyInvNext, PTL DEF Spec, ReplyFindsCaller

(* No kernel task is on its way to wait for a reply, when none calls.      *)
NobodyOnItsWay == \A t \in Tasks : parkAs[t] # AwaitingReply

(* When no kernel task calls a service, ipc_reply never throws a reply     *)
(* away: whatever the U-mode programs do, it wakes the caller it names.    *)
THEOREM UserRepliesWake ==
    ASSUME \A k \in KernelTasks : "call_message" \notin Program[k]
    PROVE  Spec => ReplyWakesCaller
<1> DEFINE Inv == ReplyInv /\ NobodyOnItsWay
<1>1. Init => Inv
  <2>1. Ready # AwaitingReply
    BY BlockedFacts
  <2> QED
    BY <2>1, ReplyInvInit DEF Init, NobodyOnItsWay
<1>2. Inv /\ [Next]_vars => Inv'
  <2> SUFFICES ASSUME Inv, [Next]_vars PROVE Inv'
    OBVIOUS
  <2>0. SchedInv /\ Step
    BY Zenon, Steps DEF ReplyInv, RestartInv, HealInv
  <2>1. ASSUME NEW t \in Tasks PROVE parkAs'[t] # AwaitingReply
    <3>1. Ready # AwaitingReply /\ \A ep, role : Blocked(ep, role) # AwaitingReply
      BY BlockedFacts
    <3>2. parkAs[t] # AwaitingReply
      BY Zenon DEF NobodyOnItsWay
    <3>3. parkAs'[t] \in {parkAs[t], Ready} \/ \E ep, role : parkAs'[t] = Blocked(ep, role)
      BY Zenon, <2>0, ParkSource
    <3> QED
      BY <3>1, <3>2, <3>3
  <2> QED
    BY Zenon, <2>1, ReplyInvNext DEF NobodyOnItsWay
<1>3. Inv /\ [Next]_vars =>
         [\A i \in Slots : IpcReply(i) => state[caps[current][i].obj] = AwaitingReply]_vars
  BY Zenon, ReplyTarget DEF NobodyOnItsWay, OnItsWay
<1> QED
  BY <1>1, <1>2, <1>3, PTL DEF Spec, ReplyWakesCaller

-----------------------------------------------------------------------------
(* Interrupts.  An asserted line is pending or claimed, only the driver    *)
(* that was handed a source waits for it, and it completes before it does. *)
Drives(t, irq) == \E s \in Slots : InitCaps[t][s] = Interrupt(irq)

DriverInv(t) ==
    /\ \A s \in Slots, irq \in Irqs : caps[t][s] = Interrupt(irq) => Drives(t, irq)
    /\ pendingGrant[t].kind # "Interrupt"
    /\ \A irq \in Irqs : /\ state[t] = WaitingIrq(irq) => Drives(t, irq) /\ irq \notin claimed
                         /\ parkAs[t] # WaitingIrq(irq)

IrqInv == SchedInv /\ line \subseteq pending \cup claimed /\ \A t \in Tasks : DriverInv(t)

LEMMA OneDriver ==
    ASSUME NEW t \in Tasks, NEW u \in Tasks, NEW irq, Drives(t, irq), Drives(u, irq) PROVE t = u
<1>1. PICK s \in Slots, p \in Slots : InitCaps[t][s] = Interrupt(irq) /\ InitCaps[u][p] = Interrupt(irq)
  BY Zenon DEF Drives
<1>2. InitCaps[t][s].kind = "Interrupt" /\ InitCaps[t][s] = InitCaps[u][p]
  BY Zenon, <1>1, KindFacts
<1> QED
  BY Zenon, <1>2, ProgramAssumption

LEMMA IrqInvInit == Init => IrqInv
<1> SUFFICES ASSUME Init PROVE IrqInv
  OBVIOUS
<1>1. /\ caps = InitCaps /\ line = {}
      /\ \A t \in Tasks : pendingGrant[t] = NoCap /\ parkAs[t] = Ready /\ state[t] \in Awake
  BY DEF Init, Awake
<1>2. NoCap.kind # "Interrupt" /\ \A irq : WaitingIrq(irq) \notin Awake /\ Ready # WaitingIrq(irq)
  BY KindFacts, BlockedFacts
<1>3. \A t \in Tasks : DriverInv(t)
  BY Zenon, <1>1, <1>2 DEF DriverInv, Drives
<1> QED
  BY <1>1, <1>3, SchedInvInit DEF IrqInv

(* What happens to the interrupt controller.                               *)
LEMMA PlicSteps ==
    ASSUME SchedInv, [Next]_vars
    PROVE  \/ UNCHANGED plicVars
           \/ \E irq \in Irqs : DeviceRaise(irq) \/ ExternalInterrupt(irq)
           \/ \E i \in Slots : DriverAck(i) \/ WaitIrq(i)
<1>1. CASE UNCHANGED vars
  BY Zenon, <1>1 DEF vars
<1>2. CASE Yield \/ Tick \/ Resume \/ Exit \/ RestartTask \/ \E q \in BOOLEAN : Crash(q)
  BY Zenon, <1>2 DEF Yield, Tick, YieldNow, Resume, ResumeRecv, ResumeMsg, Exit, RestartTask, Crash
<1>3. CASE Ipc
  BY Zenon, <1>3 DEF Ipc, IpcRecv, IpcSend, IpcCall, IpcReply, IpcRevoke, IpcGrant
<1>4. CASE KernelIpc
  BY Zenon, <1>4 DEF KernelIpc, RecvMessage, CallMessage, KernelPark
<1> QED
  BY Zenon, <1>1, <1>2, <1>3, <1>4 DEF Next, Interrupts

(* Only wait_irq puts a task to sleep on an interrupt.                     *)
LEMMA IrqSleeper ==
    ASSUME SchedInv, Step, NEW t \in Tasks, NEW irq, state'[t] = WaitingIrq(irq),
           parkAs[t] # WaitingIrq(irq)
    PROVE  state[t] = WaitingIrq(irq) \/ (t = current /\ \E i \in Slots : WaitIrq(i))
<1>1. /\ state'[t] \notin Awake /\ state'[t] # Exited /\ state'[t] # AwaitingReply
      /\ \A ep, role : state'[t] # Blocked(ep, role)
      /\ Ready \in Awake /\ Running \in Awake
  BY BlockedFacts
<1>2. CASE Still(t)
  BY Zenon, <1>1, <1>2 DEF Still
<1>3. CASE t # current
  <2>1. CASE state[t] \in Awake
    <3>1. state'[t] \in Awake \/ Leaves(t)
      BY Zenon, <2>1, AwakeStays
    <3> QED
      BY Zenon, <1>1, <1>3, <3>1 DEF Leaves
  <2>2. CASE state[t] \notin Awake
    <3>1. state'[t] = state[t] \/ WokenBy(t)
      BY Zenon, <2>2, SleeperStep
    <3>2. ~WokenBy(t)
      BY Zenon, <1>1 DEF WokenBy, Restarts, Reports, Replies
    <3> QED
      BY Zenon, <3>1, <3>2
  <2> QED
    BY Zenon, <2>1, <2>2
<1>4. CASE t = current
  <2>1. CASE Quiet \/ ResumeRecv \/ ResumeMsg \/ Exit \/ RestartTask \/ KernelPark
    <3>1. CASE Quiet \/ ResumeRecv \/ ResumeMsg
      BY Zenon, <1>2, <3>1 DEF Quiet, ResumeRecv, ResumeMsg, schedVars, Still
    <3>2. CASE Exit \/ KernelPark
      BY Zenon, <1>1, <1>4, <3>2, ExitEffect, KernelParkEffect
    <3>3. CASE RestartTask
      BY Zenon, <1>1, <3>3, RestartEffect DEF Restarts
    <3> QED
      BY Zenon, <2>1, <3>1, <3>2, <3>3
  <2>2. ASSUME NEW q \in BOOLEAN, Crash(q) PROVE FALSE
    BY Zenon, <1>1, <1>4, <2>2, CrashEffect
  <2>3. ASSUME NEW i \in Slots, NEW rs \in SlotArgs, IpcRecv(i, rs) PROVE state[t] = WaitingIrq(irq)
    BY Zenon, <1>1, <1>4, <2>3, RecvEffect DEF RecvTakes, RecvParks
  <2>4. ASSUME NEW ep, NEW cap, Sends(ep, cap) PROVE state[t] = WaitingIrq(irq)
    BY Zenon, <1>1, <1>4, <2>4 DEF Sends
  <2>5. ASSUME NEW i \in Slots, IpcSend(i) PROVE state[t] = WaitingIrq(irq)
    BY Zenon, <2>4, <2>5, SendEffect
  <2>6. ASSUME NEW i \in Slots, NEW src \in Slots, IpcGrant(i, src) PROVE state[t] = WaitingIrq(irq)
    BY Zenon, <2>4, <2>6, GrantEffect
  <2>7. ASSUME NEW i \in Slots, IpcCall(i) PROVE FALSE
    BY Zenon, <1>1, <1>4, <2>7, CallEffect DEF PlacesCall
  <2>8. ASSUME NEW i \in Slots, IpcReply(i) \/ IpcRevoke(i) PROVE state[t] = WaitingIrq(irq)
    BY Zenon, <1>1, <1>4, <2>8, ReplyEffect, RevokeEffect DEF Replies
  <2>9. ASSUME NEW i \in Slots, RecvMessage(i) \/ CallMessage(i) PROVE state[t] = WaitingIrq(irq)
    BY Zenon, <1>1, <1>4, <2>9, RecvMessageEffect, CallMessageEffect
  <2>10. ASSUME NEW j \in Irqs, ExternalInterrupt(j) PROVE state[t] = WaitingIrq(irq)
    BY Zenon, <1>1, <2>10, InterruptEffect
  <2> QED
    BY Zenon, <1>4, <2>1, <2>2, <2>3, <2>5, <2>6, <2>7, <2>8, <2>9, <2>10 DEF Step
<1> QED
  BY Zenon, <1>3, <1>4

(* No message carries an Interrupt capability, so drivers keep the ones    *)
(* they were handed.                                                       *)
LEMMA DriverCaps ==
    ASSUME IrqInv, Step, NEW t \in Tasks
    PROVE  /\ \A s \in Slots, irq \in Irqs : caps'[t][s] = Interrupt(irq) => Drives(t, irq)
           /\ pendingGrant'[t].kind # "Interrupt"
           /\ \A irq \in Irqs : parkAs'[t] # WaitingIrq(irq)
<1>0. SchedInv /\ \A u \in Tasks : DriverInv(u)
  BY Zenon DEF IrqInv
<1>1. ASSUME NEW s \in Slots, NEW irq \in Irqs, caps'[t][s] = Interrupt(irq) PROVE Drives(t, irq)
  <2>1. NoCap # Interrupt(irq)
    BY KindFacts
  <2>2. \A u \in Tasks : Reply(u) # Interrupt(irq)
    BY KindFacts
  <2>3. \A u \in Tasks : pendingGrant[u] # Interrupt(irq)
    BY Zenon, <1>0, KindFacts DEF DriverInv
  <2>4. \/ caps'[t][s] \in {caps[t][s], NoCap}
        \/ \E u \in Tasks : caps'[t][s] \in {pendingGrant[u], Reply(u)}
    BY Zenon, <1>0, CapSource
  <2>5. caps[t][s] = Interrupt(irq)
    BY <1>1, <2>1, <2>2, <2>3, <2>4
  <2> QED
    BY Zenon, <1>0, <2>5 DEF DriverInv
<1>2. pendingGrant'[t].kind # "Interrupt"
  <2>1. pendingGrant[t].kind # "Interrupt" /\ NoCap.kind # "Interrupt"
    BY <1>0, KindFacts DEF DriverInv
  <2>2. "Interrupt" \notin Delegable
    BY ProgramAssumption
  <2>3. \/ pendingGrant'[t] \in {pendingGrant[t], NoCap}
        \/ pendingGrant'[t].kind \in Delegable
    BY Zenon, <1>0, GrantSource
  <2> QED
    BY <2>1, <2>2, <2>3
<1>3. ASSUME NEW irq \in Irqs PROVE parkAs'[t] # WaitingIrq(irq)
  <2>1. parkAs[t] # WaitingIrq(irq)
    BY Zenon, <1>0 DEF DriverInv
  <2>2. /\ Ready # WaitingIrq(irq) /\ AwaitingReply # WaitingIrq(irq)
        /\ \A ep, role : Blocked(ep, role) # WaitingIrq(irq)
    BY BlockedFacts
  <2>3. \/ parkAs'[t] \in {parkAs[t], Ready} \/ parkAs'[t] = AwaitingReply
        \/ \E ep, role : parkAs'[t] = Blocked(ep, role)
    BY Zenon, <1>0, ParkSource
  <2> QED
    BY <2>1, <2>2, <2>3
<1> QED
  BY Zenon, <1>1, <1>2, <1>3

(* A task that waits for a source drives it, and the source is complete.   *)
LEMMA WaiterUnclaimed ==
    ASSUME IrqInv, [Next]_vars, Step, NEW t \in Tasks, NEW irq \in Irqs, state'[t] = WaitingIrq(irq)
    PROVE  Drives(t, irq) /\ irq \notin claimed'
<1>0. SchedInv /\ DriverInv(t) /\ \A u \in Tasks : DriverInv(u)
  BY Zenon DEF IrqInv
<1>1. state[t] = WaitingIrq(irq) \/ (t = current /\ \E i \in Slots : WaitIrq(i))
  BY Zenon, <1>0, IrqSleeper DEF DriverInv
<1>2. ASSUME t = current, NEW i \in Slots, WaitIrq(i) PROVE Drives(t, irq) /\ irq \notin claimed'
  <2>1. PICK j \in Irqs : caps[t][i] = Interrupt(j) /\ Complete(j) /\ state'[t] = WaitingIrq(j)
    BY Zenon, <1>0, <1>2, WaitIrqEffect
  <2>2. j = irq
    <3>1. WaitingIrq(j) = WaitingIrq(irq)
      BY Zenon, <2>1
    <3>2. \A a, b : WaitingIrq(a) = WaitingIrq(b) => a = b
      BY BlockedFacts
    <3> QED
      BY Zenon, <3>1, <3>2
  <2>3. irq \notin claimed'
    BY <2>1, <2>2 DEF Complete
  <2> QED
    BY Zenon, <1>0, <2>1, <2>2, <2>3 DEF DriverInv
<1>3. ASSUME state[t] = WaitingIrq(irq) PROVE Drives(t, irq) /\ irq \notin claimed'
  <2>1. Drives(t, irq) /\ irq \notin claimed
    BY Zenon, <1>0, <1>3 DEF DriverInv
  <2>2. ASSUME NEW j \in Irqs, ExternalInterrupt(j) PROVE irq \notin claimed'
    <3>1. claimed' = claimed \cup {j}
      BY Zenon, <1>0, <2>2, InterruptEffect DEF Claim
    <3>2. j # irq
      <4> SUFFICES ASSUME j = irq PROVE FALSE
        BY Zenon
      <4>1. PICK w \in Tasks : /\ state[w] = WaitingIrq(irq) /\ state'[w] = Ready
        BY Zenon, <1>0, <1>3, <2>2, InterruptEffect
      <4>2. w = t
        BY Zenon, <1>0, <2>1, <4>1, OneDriver DEF DriverInv
      <4> QED
        BY <4>1, <4>2, BlockedFacts
    <3> QED
      BY <2>1, <3>1, <3>2
  <2>3. ASSUME NEW i \in Slots, WaitIrq(i) PROVE irq \notin claimed'
    <3>1. \E j : claimed' = claimed \ {j}
      BY Zenon, <1>0, <2>3, WaitIrqEffect DEF Complete
    <3> QED
      BY <2>1, <3>1
  <2>4. CASE \/ UNCHANGED plicVars
             \/ \E j \in Irqs : DeviceRaise(j)
             \/ \E i \in Slots : DriverAck(i)
    <3>1. claimed' = claimed
      BY Zenon, <2>4 DEF DeviceRaise, DriverAck, plicVars
    <3> QED
      BY <2>1, <3>1
  <2> QED
    BY Zenon, <1>0, <2>1, <2>2, <2>3, <2>4, PlicSteps
<1> QED
  BY Zenon, <1>1, <1>2, <1>3

(* An asserted line is never forgotten by the controller.                  *)
LEMMA LinesKept == ASSUME IrqInv, [Next]_vars PROVE line' \subseteq pending' \cup claimed'
<1>0. SchedInv /\ line \subseteq pending \cup claimed
  BY Zenon DEF IrqInv
<1>1. CASE UNCHANGED plicVars
  BY <1>0, <1>1 DEF plicVars
<1>2. ASSUME NEW irq \in Irqs, DeviceRaise(irq) PROVE line' \subseteq pending' \cup claimed'
  BY <1>0, <1>2 DEF DeviceRaise
<1>3. ASSUME NEW irq \in Irqs, ExternalInterrupt(irq) PROVE line' \subseteq pending' \cup claimed'
  <2>1. line' = line /\ pending' = pending \ {irq} /\ claimed' = claimed \cup {irq}
    BY Zenon, <1>0, <1>3, InterruptEffect DEF Claim
  <2> QED
    BY <1>0, <2>1
<1>4. ASSUME NEW i \in Slots, DriverAck(i) PROVE line' \subseteq pending' \cup claimed'
  <2>1. line' \subseteq line /\ pending' = pending /\ claimed' = claimed
    BY <1>4 DEF DriverAck
  <2> QED
    BY <1>0, <2>1
<1>5. ASSUME NEW i \in Slots, WaitIrq(i) PROVE line' \subseteq pending' \cup claimed'
  <2>1. PICK irq \in Irqs : line' = line /\ Complete(irq)
    BY Zenon, <1>0, <1>5, WaitIrqEffect
  <2> QED
    BY <1>0, <2>1 DEF Complete
<1> QED
  BY Zenon, <1>0, <1>1, <1>2, <1>3, <1>4, <1>5, PlicSteps

LEMMA IrqInvNext == IrqInv /\ [Next]_vars => IrqInv'
<1> SUFFICES ASSUME IrqInv, [Next]_vars PROVE IrqInv'
  OBVIOUS
<1>1. SchedInv /\ SchedInv'
  BY Zenon, SchedInvNext DEF IrqInv
<1>2. Step
  BY Zenon, <1>1, Steps
<1>3. \A t \in Tasks : DriverInv(t)'
  BY Zenon, <1>2, DriverCaps, WaiterUnclaimed DEF DriverInv
<1> QED
  BY Zenon, <1>1, <1>3, LinesKept DEF IrqInv

(* A driver asleep in wait_irq can always be woken, however many devices,  *)
(* drivers and other tasks there are: its source is complete, and pending  *)
(* as soon as the device asserts its line.                                 *)
THEOREM DriversNeverStuck == Spec => []IrqNotStuck
<1>1. IrqInv => IrqNotStuck
  <2> SUFFICES ASSUME IrqInv, NEW irq \in Irqs, NEW t \in Tasks, state[t] = WaitingIrq(irq)
               PROVE  irq \notin claimed /\ (irq \in line => irq \in pending)
    BY Zenon DEF IrqNotStuck
  <2>1. irq \notin claimed
    BY Zenon DEF IrqInv, DriverInv
  <2> QED
    BY <2>1 DEF IrqInv
<1> QED
  BY <1>1, IrqInvInit, IrqInvNext, PTL DEF Spec
=============================================================================
