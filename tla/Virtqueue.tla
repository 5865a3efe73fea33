----------------------------- MODULE Virtqueue -----------------------------
(***************************************************************************)
(* One split virtqueue per device, as the single-request drivers use it    *)
(* (virtio_queue_init, blk_req and entropy_component of                    *)
(* kernel/src/main.rs): the driver publishes one chain, notifies, sleeps   *)
(* in wait_irq, acknowledges the device and only then looks at what the    *)
(* device wrote.  It never reads the used ring, so the interrupt is all it *)
(* knows of the completion.  Beside it run the device, the PLIC source of  *)
(* its interrupt and the kernel's trap handler.                            *)
(*                                                                         *)
(* Every ring entry names descriptor 0, which is also what a zeroed ring   *)
(* holds, so the entries themselves are left out.                          *)
(***************************************************************************)
EXTENDS Naturals

CONSTANTS
    Devs,           \* the devices, each with its driver
    IDX_MOD         \* the range of a ring index: 2^16 in the code

ASSUME VirtqueueAssumption == IDX_MOD \in Nat /\ IDX_MOD > 1

VARIABLES
    pc,             \* where each driver is, see Pcs
    count,          \* the driver's own index, avail_idx or idx
    idx,            \* avail.idx, as the device reads it
    taken,          \* how far the device has read the available ring
    busy,           \* the device holds the chain
    notified,       \* the driver wrote QueueNotify for idx
    isr, seen,      \* InterruptStatus, and what the driver read of it
    pending, claimed    \* the PLIC source

queueVars == <<pc, count, idx, taken, busy, notified, isr, seen, pending, claimed>>

Index == 0 .. IDX_MOD - 1

(* "init": before the handshake.  "idle": between requests.  "prepare" to  *)
(* "ack": in a request, at that step.  "done": past the acknowledgement,   *)
(* the answer still to be read.  "sending": in send.  "off": never started *)
(* (the machine has no such device), exited or killed.                     *)
Pcs == {"init", "idle", "prepare", "publish", "notify", "wait", "asleep",
        "woken", "ack", "done", "sending", "off"}

QueueTypeOK ==
    /\ pc \in [Devs -> Pcs]
    /\ count \in [Devs -> Index] /\ idx \in [Devs -> Index] /\ taken \in [Devs -> Index]
    /\ busy \in [Devs -> BOOLEAN] /\ notified \in [Devs -> BOOLEAN]
    /\ isr \in [Devs -> BOOLEAN] /\ seen \in [Devs -> BOOLEAN]
    /\ pending \in [Devs -> BOOLEAN] /\ claimed \in [Devs -> BOOLEAN]

QueueInitState(present) ==
    /\ pc = [d \in Devs |-> IF d \in present THEN "init" ELSE "off"]
    /\ count = [d \in Devs |-> 0]
    /\ idx = [d \in Devs |-> 0]
    /\ taken = [d \in Devs |-> 0]
    /\ busy = [d \in Devs |-> FALSE]
    /\ notified = [d \in Devs |-> FALSE]
    /\ isr = [d \in Devs |-> FALSE]
    /\ seen = [d \in Devs |-> FALSE]
    /\ pending = [d \in Devs |-> FALSE]
    /\ claimed = [d \in Devs |-> FALSE]

(* wrapping_add(1) on a u16.                                              *)
Next16(i) == IF i = IDX_MOD - 1 THEN 0 ELSE i + 1

Goto(d, to) == pc' = [pc EXCEPT ![d] = to]

-----------------------------------------------------------------------------
(* The driver.                                                             *)

(* The status handshake and the set-up of queue 0: the reset drops what an *)
(* earlier driver left in the device.                                      *)
VirtioQueueInit(d) ==
    /\ pc[d] = "init" /\ Goto(d, "idle")
    /\ count' = [count EXCEPT ![d] = 0]
    /\ taken' = [taken EXCEPT ![d] = 0]
    /\ isr' = [isr EXCEPT ![d] = FALSE]
    /\ UNCHANGED <<idx, busy, notified, seen, pending, claimed>>

(* avail.idx moves past the chain; the fence orders the chain before it.   *)
Publish(d) ==
    /\ pc[d] = "publish" /\ Goto(d, "notify")
    /\ idx' = [idx EXCEPT ![d] = Next16(count[d])]
    /\ UNCHANGED <<taken, busy, notified, isr, seen, pending, claimed>>

Notify(d) ==
    /\ pc[d] = "notify" /\ Goto(d, "wait")
    /\ notified' = [notified EXCEPT ![d] = TRUE]
    /\ UNCHANGED <<count, idx, taken, busy, isr, seen, pending, claimed>>

(* Mutant: the driver does not sleep.                                      *)
NoSleep(d) ==
    /\ pc[d] = "wait" /\ Goto(d, "woken")
    /\ UNCHANGED <<count, idx, taken, busy, notified, isr, seen, pending, claimed>>

(* Mutant: wait_irq parks without completing the previous claim.           *)
ParkOnly(d) == d \in Devs /\ UNCHANGED <<claimed, pending>>

(* The PLIC forwards a level that is still asserted when the claim ends.   *)
Complete(d) ==
    /\ claimed' = [claimed EXCEPT ![d] = FALSE]
    /\ pending' = [pending EXCEPT ![d] = @ \/ (claimed[d] /\ isr[d])]

WaitIrq(d) ==
    /\ pc[d] = "wait" /\ Goto(d, "asleep")
    /\ Complete(d)
    /\ UNCHANGED <<count, idx, taken, busy, notified, isr, seen>>

ReadIsr(d) ==
    /\ pc[d] = "woken" /\ Goto(d, "ack")
    /\ seen' = [seen EXCEPT ![d] = isr[d]]
    /\ UNCHANGED <<count, idx, taken, busy, notified, isr, pending, claimed>>

(* Mutant: the driver does not write back what it read.                    *)
NoAck(d) == d \in Devs /\ UNCHANGED isr

WriteAck(d) == isr' = [isr EXCEPT ![d] = @ /\ ~seen[d]]

InterruptAck(d) ==
    /\ pc[d] = "ack" /\ Goto(d, "done")
    /\ WriteAck(d)
    /\ UNCHANGED <<count, idx, taken, busy, notified, seen, pending, claimed>>

-----------------------------------------------------------------------------
(* The device and the trap handler.                                        *)

(* The device may look at the ring before it is notified, and looks after. *)
DeviceTake(d) ==
    /\ ~busy[d] /\ taken[d] # idx[d]
    /\ busy' = [busy EXCEPT ![d] = TRUE]
    /\ taken' = [taken EXCEPT ![d] = Next16(@)]
    /\ notified' = [notified EXCEPT ![d] = FALSE]
    /\ UNCHANGED <<pc, count, idx, isr, seen, pending, claimed>>

(* The queue's part of a completion: the line rises, and the source        *)
(* becomes pending unless it is in service.                                *)
DeviceDone(d) ==
    /\ busy[d]
    /\ busy' = [busy EXCEPT ![d] = FALSE]
    /\ isr' = [isr EXCEPT ![d] = TRUE]
    /\ pending' = [pending EXCEPT ![d] = @ \/ (~isr[d] /\ ~claimed[d])]
    /\ UNCHANGED <<pc, count, idx, taken, notified, seen, claimed>>

(* The trap handler claims the source and wakes the driver if it sleeps.   *)
ExternalInterrupt(d) ==
    /\ pending[d]
    /\ pending' = [pending EXCEPT ![d] = FALSE]
    /\ claimed' = [claimed EXCEPT ![d] = TRUE]
    /\ pc' = [pc EXCEPT ![d] = IF @ = "asleep" THEN "woken" ELSE @]
    /\ UNCHANGED <<count, idx, taken, busy, notified, isr, seen>>
=============================================================================
