------------------------------ MODULE MCSched ------------------------------
(***************************************************************************)
(* Instances of Sched.  The last slot is the idle task and slot 0 the      *)
(* healer; the tasks between them differ from one instance to the next.    *)
(***************************************************************************)
EXTENDS Sched

CONSTANTS mainEp, crashEp, dev

Table(first, second) ==
    [s \in Slots |-> CASE s = 0 -> first [] s = 1 -> second [] OTHER -> NoCap]

(* Three user tasks that exchange messages, calls and capabilities over    *)
(* one endpoint, in any order.                                             *)
IpcCaps ==
    [t \in Tasks |->
        CASE t = Healer -> Table(Endpoint(crashEp), NoCap)
          [] t = Idle -> Table(NoCap, NoCap)
          [] OTHER -> Table(Endpoint(mainEp), NoCap)]
IpcProgram ==
    [t \in Tasks |->
        CASE t = Healer -> {"recv"}
          [] t = 1 -> {"recv", "reply", "revoke", "exit"}
          [] t = 2 -> {"call", "send", "recv"}
          [] t = 3 -> {"call", "grant", "reply", "recv"}
          [] t = Idle -> {"yield"}]
IpcBadge == [t \in Tasks |-> 0]

(* Two patients of the healer that call and serve each other, and fault.   *)
HealCaps ==
    [t \in Tasks |->
        CASE t = Healer -> [s \in Slots |-> IF s = 0 THEN Endpoint(crashEp) ELSE Restart(s)]
          [] t = Idle -> Table(NoCap, NoCap)
          [] OTHER -> Table(Endpoint(mainEp), NoCap)]
HealProgram ==
    [t \in Tasks |->
        CASE t = Healer -> {"recv"}
          [] t = Idle -> {"yield"}
          [] OTHER -> {"call", "recv", "reply", "fault"}]
HealBadge == [t \in Tasks |-> IF t \in {1, 2} THEN t ELSE 0]

(* A user server that waits for its device (as the block driver is), a     *)
(* kernel client (as the KB loader and writer are) and a kernel receiver   *)
(* (as the entropy consumer is).                                           *)
KernelCaps ==
    [t \in Tasks |->
        CASE t = Healer -> Table(Endpoint(crashEp), NoCap)
          [] t = 1 -> Table(Endpoint(mainEp), Interrupt(dev))
          [] t = Idle -> Table(NoCap, NoCap)
          [] OTHER -> Table(Endpoint(mainEp), NoCap)]
KernelProgram ==
    [t \in Tasks |->
        CASE t = Healer -> {"recv"}
          [] t = 1 -> {"recv", "reply", "grant", "wait_irq"}
          [] t = 2 -> {"call_message", "yield"}
          [] t = 3 -> {"recv_message", "yield"}
          [] t = Idle -> {"yield"}]
KernelBadge == [t \in Tasks |-> 0]
=============================================================================
