----------------------------- MODULE Userland -----------------------------
(***************************************************************************)
(* The programs of the user components kmain starts beside the drivers     *)
(* (kernel/src/main.rs), run on the scheduler of Sched: the RTC server,    *)
(* delegation (needy, broker), revocation (lease, tenant), the encrypted   *)
(* channel (sealer, opener), the deferring server and its clients, the two *)
(* components without authority (rogue, nocap), and the patients behind    *)
(* the gate of the KB loader.  Each is a short sequence of system calls;   *)
(* the timer may preempt it between any two.                               *)
(*                                                                         *)
(* Data is kept as far as an exit code depends on it: who wrote what a     *)
(* program received, which of its calls were refused (usize::MAX), and     *)
(* whose request the answer to its call was made from.                     *)
(***************************************************************************)
EXTENDS Sched, Sequences

CONSTANTS
    Name,       \* the program each slot runs
    Groups,     \* the sets of components to start; see Start
    Ranks       \* sets of components no two of which are in the same group

ASSUME UserAssumption ==
    \A g \in Groups :
        /\ \A t \in Tasks : Name[t] \in g => \E rank \in Ranks : t \in rank
        /\ \A rank \in Ranks : Cardinality({t \in rank : Name[t] \in g}) <= 1

VARIABLES
    pc,         \* the next call of each program, 0 if it is not started
    refused,    \* the calls of each program that were refused
    heard,      \* the writer of the message received with each reply slot
    answer,     \* the request that the answer to a task's call was made from
    code        \* the exit code of each task

userVars == <<pc, refused, heard, answer, code>>
allVars == <<vars, userVars>>

Op(op, cap, arg) == [op |-> op, cap |-> cap, arg |-> arg]
Recv(cap, replySlot) == Op("recv", cap, replySlot)
Answer(replySlot, to) == Op("reply", replySlot, to)
Ask(cap) == Op("call", cap, 0)
Send(cap) == Op("send", cap, 0)
Delegate(cap, src) == Op("grant", cap, src)
Revoke(cap) == Op("revoke", cap, 0)
Seal == Op("seal", 0, 0)
Open(tampered) == Op("open", 0, IF tampered THEN 1 ELSE 0)
Leave == Op("exit", 0, 0)
Fault == Op("fault", 0, 0)
AskGate == Op("call_message", 1, 0)
Idling == Op("yield", 0, 0)

(* The patients wait at the gate on their first launch only.               *)
Gated(generation, then) == IF generation = 0 THEN <<Recv(0, 1), Answer(1, 1)>> \o then ELSE then

-----------------------------------------------------------------------------
(* The programs, by the generation they were launched with.                *)

RtcServer == <<Recv(0, 1), Answer(1, 1)>>
NeedyTask == <<Recv(0, 1), Ask(1), Leave>>
BrokerTask == <<Delegate(0, 3), Delegate(0, 1), Leave>>
LeaseServer == <<Recv(0, 1), Answer(1, 1), Revoke(0), Leave>>
TenantTask == <<Ask(0), Ask(0), Leave>>
SealerTask == <<Seal, Send(1), Leave>>
OpenerTask == <<Recv(1, 2), Open(FALSE), Open(TRUE), Leave>>
NocapTask == <<Seal, Leave>>
RogueTask == <<Send(0), Leave>>

(* Mutants: both calls are received with the same reply slot; each answer  *)
(* is made from the other request.                                         *)
DeferrerOneSlot == <<Recv(0, 1), Recv(0, 1), Answer(1, 1), Answer(1, 1), Leave>>
DeferrerSwapped == <<Recv(0, 1), Recv(0, 2), Answer(2, 1), Answer(1, 2), Leave>>

DeferrerTask == <<Recv(0, 1), Recv(0, 2), Answer(2, 2), Answer(1, 1), Leave>>
DclientTask == <<Ask(0), Leave>>
FlakyTask(generation) == Gated(generation, <<Fault>>)
TransientTask(generation) == IF generation = 0 THEN Gated(0, <<Fault>>) ELSE <<Leave>>
NovelTask(generation) == Gated(generation, <<Fault>>)

(* kb_loader_task once the table is loaded (see KbStore): it opens the     *)
(* gate to one patient after the other, then only yields.                  *)
KbLoaderGate == <<AskGate, AskGate, AskGate, Idling>>

Code(name, generation) ==
    CASE name = "rtc" -> RtcServer
      [] name = "needy" -> NeedyTask
      [] name = "broker" -> BrokerTask
      [] name = "lease" -> LeaseServer
      [] name = "tenant" -> TenantTask
      [] name = "sealer" -> SealerTask
      [] name = "opener" -> OpenerTask
      [] name = "nocap" -> NocapTask
      [] name = "rogue" -> RogueTask
      [] name = "deferrer" -> DeferrerTask
      [] name \in {"dclientA", "dclientB"} -> DclientTask
      [] name = "transient" -> TransientTask(generation)
      [] name = "flaky" -> FlakyTask(generation)
      [] name = "novel" -> NovelTask(generation)
      [] name = "kb" -> KbLoaderGate
      [] OTHER -> <<Idling>>

Instr == Code(Name[current], restarts[current])[pc[current]]

(* The RTC server and the idling tasks loop; the others leave.             *)
Advance ==
    LET n == Len(Code(Name[current], restarts[current]))
    IN  pc' = [pc EXCEPT ![current] =
                  IF @ < n THEN @ + 1 ELSE IF Instr = Idling THEN @ ELSE 1]

-----------------------------------------------------------------------------
(* Whether the kernel refuses the call with usize::MAX.                    *)
SealedBy(t) == t # Nil /\ 1 \notin refused[t]

Refuses(i) ==
    CASE i.op \in {"recv", "send", "call", "revoke"} -> i.cap \notin EndpointCaps(current)
      [] i.op = "grant" -> i.cap \notin EndpointCaps(current) \/ caps[current][i.arg] = NoCap
      [] i.op = "reply" -> caps[current][i.cap].kind # "Reply"
      [] i.op = "seal" -> caps[current][0] # Session
      [] i.op = "open" ->
            caps[current][0] # Session \/ i.arg = 1 \/ ~SealedBy(heard[current][2])
      [] OTHER -> FALSE

InCode(op) == at[current] = "run" /\ current # Healer /\ Instr.op = op /\ ~Refuses(Instr)

RefusedCall ==
    /\ at[current] = "run" /\ current # Healer /\ Refuses(Instr)
    /\ refused' = [refused EXCEPT ![current] = @ \cup {pc[current]}]
    /\ Advance
    /\ UNCHANGED <<vars, heard, answer, code>>

(* The lowest sender, else the lowest caller, whose message recv takes.    *)
Writer(ep) ==
    LowestSlot(IF Waiting(ep, "Send") # {} THEN Waiting(ep, "Send") ELSE Waiting(ep, "Call"))

Hear(rs, from) == heard' = [heard EXCEPT ![current][rs] = from]

RecvStep ==
    LET ep == caps[current][Instr.cap].obj
    IN
    /\ InCode("recv") /\ IpcRecv(Instr.cap, Instr.arg) /\ Advance
    /\ \/ current' = current /\ Hear(Instr.arg, Writer(ep))
       \/ current' # current /\ UNCHANGED heard
    /\ UNCHANGED <<refused, answer, code>>

ResumeStep ==
    /\ Resume
    /\ \/ at[current] = "recv" /\ Hear(slot[current], message[current].from)
       \/ at[current] # "recv" /\ UNCHANGED heard
    /\ UNCHANGED <<pc, refused, answer, code>>

ReplyStep ==
    LET c == caps[current][Instr.cap].obj
    IN
    /\ InCode("reply") /\ IpcReply(Instr.cap) /\ Advance
    /\ answer' = [answer EXCEPT ![c] =
                     IF state[c] = AwaitingReply THEN heard[current][Instr.arg] ELSE @]
    /\ UNCHANGED <<refused, heard, code>>

SimpleStep ==
    /\ \/ InCode("send") /\ IpcSend(Instr.cap)
       \/ InCode("call") /\ IpcCall(Instr.cap)
       \/ InCode("grant") /\ IpcGrant(Instr.cap, Instr.arg)
       \/ InCode("revoke") /\ IpcRevoke(Instr.cap)
       \/ InCode("call_message") /\ CallMessage(Instr.cap)
       \/ InCode("yield") /\ Yield
       \/ (InCode("seal") \/ InCode("open")) /\ UNCHANGED vars
    /\ Advance
    /\ UNCHANGED <<refused, heard, answer, code>>

(* The exit codes: a marker for "as intended", or the answer.              *)
ExitCode(t) ==
    CASE Name[t] = "tenant" -> IF refused[t] = {2} THEN 13 ELSE 99
      [] Name[t] = "opener" -> IF refused[t] = {3} THEN 14 ELSE 99
      [] Name[t] = "nocap" -> IF refused[t] = {1} THEN 15 ELSE 98
      [] Name[t] = "rogue" -> IF refused[t] = {1} THEN 7 ELSE 0
      [] Name[t] \in {"needy", "dclientA", "dclientB"} ->
            IF refused[t] = {} THEN answer[t] ELSE 99
      [] OTHER -> 0

ExitStep ==
    /\ InCode("exit") /\ Exit
    /\ code' = [code EXCEPT ![current] = ExitCode(current)]
    /\ UNCHANGED <<pc, refused, heard, answer>>

(* A first boot: nothing is chronic yet, so no crash is quarantined.       *)
FaultStep == InCode("fault") /\ Crash(FALSE) /\ UNCHANGED userVars

HealerStep ==
    /\ IpcRecv(CRASH_CAP, 0) \/ RestartTask
    /\ current = Healer
    /\ pc' = [t \in Tasks |-> IF restarts'[t] # restarts[t] THEN 1 ELSE pc[t]]
    /\ UNCHANGED <<refused, heard, answer, code>>

Preempt == Tick /\ UNCHANGED userVars
ParkStep == KernelPark /\ UNCHANGED userVars

-----------------------------------------------------------------------------
(* The scheduler in the idle task, with one group of components about to   *)
(* start.  Every other component is done: it has exited, or waits or only  *)
(* yields for good, and shares no endpoint with the group.                 *)
Start(group) ==
    /\ current = Idle
    /\ state = [t \in Tasks |-> CASE t = Idle -> Running
                                  [] Name[t] \in group -> Ready
                                  [] OTHER -> Exited]
    /\ caps = InitCaps
    /\ message = [t \in Tasks |-> Message(Nil, 0)]
    /\ caller = [t \in Tasks |-> Nil]
    /\ pendingGrant = [t \in Tasks |-> NoCap]
    /\ restarts = [t \in Tasks |-> 0]
    /\ at = [t \in Tasks |-> "run"]
    /\ slot = [t \in Tasks |-> 0]
    /\ parkAs = [t \in Tasks |-> Ready]
    /\ sie = [k \in KernelTasks |-> TRUE]
    /\ verdict = Nil
    /\ leftDown = {}
    /\ line = {} /\ pending = {} /\ claimed = {}
    /\ pc = [t \in Tasks |-> IF Name[t] \in group \/ t = Idle THEN 1 ELSE 0]
    /\ refused = [t \in Tasks |-> {}]
    /\ heard = [t \in Tasks |-> [s \in Slots |-> Nil]]
    /\ answer = [t \in Tasks |-> Nil]
    /\ code = [t \in Tasks |-> Nil]

ProgramStep ==
    \/ RefusedCall \/ RecvStep \/ ReplyStep \/ SimpleStep \/ ExitStep \/ FaultStep
    \/ HealerStep

UserNext == ProgramStep \/ ResumeStep \/ Preempt \/ ParkStep

UserInit == \E group \in Groups : Start(group)
UserSpec == UserInit /\ [][UserNext]_allVars

(* The fairness of Sched; and a program that is given the hart again and   *)
(* again makes its next call.  One condition serves all the components of  *)
(* a rank, of which at most one is started.                                *)
UserFairness ==
    /\ SF_allVars(Preempt) /\ WF_allVars(ResumeStep)
    /\ \A rank \in Ranks : SF_allVars(current \in rank /\ (ProgramStep \/ ParkStep))

FairUserSpec == UserSpec /\ UserFairness

-----------------------------------------------------------------------------
(* Properties.                                                             *)

Demos == {"needy", "broker", "lease", "tenant", "sealer", "opener", "nocap", "rogue",
          "deferrer", "dclientA", "dclientB"}

(* A component that exits does so with the code that says it went as       *)
(* intended, however the timer interleaves the components: the delegated   *)
(* capability reaches the RTC server, the answers of the deferring server  *)
(* reach the clients that asked for them, the sealed message verifies and  *)
(* the tampered one does not, the revoked call is refused, and components  *)
(* without the capability are refused (the exit codes test-qemu.ps1        *)
(* looks for, on one schedule).                                            *)
ExitCodes ==
    \A t \in Tasks : code[t] # Nil =>
        code[t] = CASE Name[t] = "tenant" -> 13
                    [] Name[t] = "opener" -> 14
                    [] Name[t] = "nocap" -> 15
                    [] Name[t] = "rogue" -> 7
                    [] Name[t] \in {"needy", "dclientA", "dclientB"} -> t
                    [] OTHER -> 0

(* t waits for a server, and no other component that has not exited holds  *)
(* the endpoint any more.                                                  *)
Abandoned(t) ==
    /\ state[t].tag = "Blocked" /\ state[t].role = "Call"
    /\ \A u \in Tasks \ {t}, s \in Slots :
          caps[u][s] = Endpoint(state[t].on) => state[u] = Exited

(* t waits at the gate, but the loader was preempted between looking at    *)
(* the gate and parking: either it queued its call although t waits to     *)
(* receive it, or its patient had already answered and the answer is lost. *)
GateStuck(t) ==
    /\ state[t].tag = "Blocked" /\ state[t].role = "Recv"
    /\ \E k \in KernelTasks :
          \/ state[k] = Blocked(state[t].on, "Call")
          \/ /\ Name[k] = "kb" /\ state[k] = AwaitingReply
             /\ \A u \in Tasks, p \in Slots \cup {Nil} : ~MayReply(u, p, k)

(* Every demonstration component comes to its end.  The tenant alone may   *)
(* be abandoned: preempted between its answer and the revocation, the      *)
(* lease server lets the second call in and never takes it.  Every patient *)
(* ends too: transient with its work done after one restart, flaky with    *)
(* its restarts used up, either one unless its crash found no healer       *)
(* waiting or the gate is stuck.                                           *)
Settled(t) ==
    CASE Name[t] = "tenant" -> state[t] = Exited \/ Abandoned(t)
      [] Name[t] \in Demos \ {"tenant"} -> state[t] = Exited
      [] Name[t] = "transient" ->
            (state[t] = Exited /\ (code[t] = 0 \/ t \in leftDown)) \/ GateStuck(t)
      [] Name[t] = "flaky" ->
            (state[t] = Exited /\ (restarts[t] = MAX_RESTARTS \/ t \in leftDown)) \/ GateStuck(t)
      [] OTHER -> TRUE

(* From some moment on every component that was started is settled, under  *)
(* the fairness of the round-robin scheduler.                              *)
ComponentsEnd == <>[](\A t \in Tasks : pc[t] # 0 => Settled(t))
=============================================================================
