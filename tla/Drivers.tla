------------------------------ MODULE Drivers ------------------------------
(***************************************************************************)
(* The two single-request virtio drivers of kernel/src/main.rs and what    *)
(* hangs on them: the block server (blk_component) with its kernel         *)
(* clients, and the entropy source (entropy_component) with the kernel's   *)
(* random pool, its consumer (pqc_consumer) and a user of getrandom        *)
(* (rnguser_task).  Both drivers are preemptible user tasks; their queues, *)
(* devices and interrupts are those of Virtqueue.                          *)
(***************************************************************************)
EXTENDS Virtqueue, Sequences, FiniteSets

CONSTANTS
    Machines,       \* the sets of devices a machine may have
    Clients,        \* the kernel tasks that call the block server: their slots
    Blocks, BadBlock, Contents, IoErrors, Nil,  \* as in BlockStore
    Words           \* what the random device can return: 32 bytes

Ops == {"read", "write"}
Answers == {"ok", "error"}
Requests == [op : Ops, blk : Blocks \cup {BadBlock}, st : {"sent", "taken"} \cup Answers]

(* A key is the seeds and the stream positions that went into it.          *)
Pools == [key : Seq(Words \cup {Nil} \cup Nat), pos : Nat]

ASSUME DriversAssumption ==
    /\ Devs = {"blk", "rng"} /\ Machines \subseteq SUBSET Devs
    /\ Clients \subseteq Nat /\ Nil \notin Clients
    /\ 0 \in Blocks /\ BadBlock \notin Blocks /\ IoErrors \in BOOLEAN
    /\ Nil \notin Requests /\ Nil \notin Pools

VARIABLES
    disk, page, req,    \* as in BlockStore; a request the server received is
                        \* "taken" until the server replies
    serving,        \* the caller the server holds a Reply capability for
    hdr,            \* header and data direction of the request in DMA memory
    status,         \* the status byte; "none" is the sentinel 0xff
    buf, word,      \* the entropy component's DMA buffer, and what it read
    draws,          \* the draws it has sent
    sender,         \* is its send queued
    receiver,       \* how far pqc_consumer is in recv_message
    at,             \* how far pqc_consumer and rnguser_task have come
    inbox,          \* the message pqc_consumer received last
    pool,           \* EntropyPool: Nil, or the key and stream position
    drawn           \* the draws served by the seeded pool, in order

blkVars == <<disk, page, req, serving, hdr, status>>
linkVars == <<sender, receiver>>
poolVars == <<at, inbox, pool, drawn, linkVars>>
rngVars == <<buf, word, draws>>
vars == <<queueVars, blkVars, rngVars, poolVars>>

-----------------------------------------------------------------------------
(* The kernel's clients: fs_read_block and fs_write_block.                 *)

Request(op, n, st) == [op |-> op, blk |-> n, st |-> st]

(* KB_HAS_BLK: without a block device the loader asks for nothing and the  *)
(* writer is not spawned.  A killed server had advanced its index.         *)
HasBlk == pc["blk"] # "off" \/ count["blk"] # 0

(* Two reads may be outstanding at once, a write only alone: that is how   *)
(* the loader and the writer use the server (KbStore!OutgoingIntact).      *)
FsIssue(c, op, n, b) ==
    /\ HasBlk /\ req[c] = Nil
    /\ \A k \in Clients : req[k] # Nil => op = "read" /\ req[k].op = "read"
    /\ page' = IF op = "write" THEN b ELSE page
    /\ req' = [req EXCEPT ![c] = Request(op, n, "sent")]
    /\ UNCHANGED <<queueVars, disk, serving, hdr, status, rngVars, poolVars>>

FsReturn(c) ==
    /\ req[c] # Nil /\ req[c].st \in Answers
    /\ req' = [req EXCEPT ![c] = Nil]
    /\ UNCHANGED <<queueVars, disk, page, serving, hdr, status, rngVars, poolVars>>

-----------------------------------------------------------------------------
(* blk_component: a loop of recv, blk_req and reply.                       *)

Callers == {c \in Clients : req[c] # Nil /\ req[c].st = "sent"}

(* recv takes the caller in the lowest slot.                               *)
BlkRecv(c) ==
    /\ pc["blk"] = "idle" /\ Goto("blk", "prepare")
    /\ c \in Callers /\ \A k \in Callers : c <= k
    /\ serving' = c
    /\ req' = [req EXCEPT ![c].st = "taken"]
    /\ UNCHANGED <<count, idx, taken, busy, notified, isr, seen, pending, claimed,
                   disk, page, hdr, status, rngVars, poolVars>>

(* Mutant: the data descriptor is always one the device writes.            *)
PrepareRead ==
    /\ pc["blk"] = "prepare" /\ Goto("blk", "publish")
    /\ hdr' = [op |-> "read", blk |-> req[serving].blk]
    /\ status' = "none"
    /\ UNCHANGED <<count, idx, taken, busy, notified, isr, seen, pending, claimed,
                   disk, page, req, serving, rngVars, poolVars>>

(* Header, sentinel and descriptors: nothing the device may look at yet.   *)
BlkPrepare ==
    /\ pc["blk"] = "prepare" /\ Goto("blk", "publish")
    /\ hdr' = [op |-> req[serving].op, blk |-> req[serving].blk]
    /\ status' = "none"
    /\ UNCHANGED <<count, idx, taken, busy, notified, isr, seen, pending, claimed,
                   disk, page, req, serving, rngVars, poolVars>>

(* avail_idx + 1 is a checked addition in a debug build: past the last     *)
(* index it panics, and the panic handler is kernel text that a user task  *)
(* cannot fetch, so the driver is killed.  A release build wraps.          *)
BlkPublish ==
    \/ Publish("blk") /\ UNCHANGED <<count, blkVars, rngVars, poolVars>>
    \/ /\ pc["blk"] = "publish" /\ count["blk"] = IDX_MOD - 1
       /\ Goto("blk", "off")
       /\ UNCHANGED <<count, idx, taken, busy, notified, isr, seen, pending, claimed,
                      blkVars, rngVars, poolVars>>

(* Mutant: the server forgets to advance its index.                        *)
SameIndex == UNCHANGED count

AdvanceIndex == count' = [count EXCEPT !["blk"] = Next16(@)]

(* Any status byte but 0 is an error to the caller.                        *)
StatusOf(s) == IF s = "ok" THEN "ok" ELSE "error"

BlkReply ==
    /\ pc["blk"] = "done" /\ Goto("blk", "idle")
    /\ AdvanceIndex
    /\ req' = [req EXCEPT ![serving].st = StatusOf(status)]
    /\ serving' = Nil
    /\ UNCHANGED <<idx, taken, busy, notified, isr, seen, pending, claimed,
                   disk, page, hdr, status, rngVars, poolVars>>

(* The block device (external): a request past its end fails; a failed     *)
(* write may or may not have reached the medium.                           *)
BlkDevice ==
    /\ DeviceDone("blk")
    /\ \/ /\ hdr.blk \in Blocks /\ status' = "ok"
          /\ IF hdr.op = "read"
             THEN page' = disk[hdr.blk] /\ UNCHANGED disk
             ELSE disk' = [disk EXCEPT ![hdr.blk] = page] /\ UNCHANGED page
       \/ /\ IoErrors \/ hdr.blk \notin Blocks
          /\ status' = "error"
          /\ \/ UNCHANGED disk
             \/ hdr.blk \in Blocks /\ hdr.op = "write" /\ disk' = [disk EXCEPT ![hdr.blk] = page]
          /\ UNCHANGED page
    /\ UNCHANGED <<req, serving, hdr, rngVars, poolVars>>

-----------------------------------------------------------------------------
(* entropy_component: two draws, each sent to pqc_consumer.                *)

RngBegin ==
    /\ pc["rng"] = "idle"
    /\ Goto("rng", IF draws < 2 THEN "publish" ELSE "off")
    /\ UNCHANGED <<count, idx, taken, busy, notified, isr, seen, pending, claimed,
                   blkVars, rngVars, poolVars>>

RngPublish ==
    /\ Publish("rng")
    /\ count' = [count EXCEPT !["rng"] = Next16(@)]
    /\ UNCHANGED <<blkVars, rngVars, poolVars>>

RngRead ==
    /\ pc["rng"] = "done" /\ Goto("rng", "sending")
    /\ word' = buf
    /\ UNCHANGED <<count, idx, taken, busy, notified, isr, seen, pending, claimed,
                   blkVars, buf, draws, poolVars>>

(* The random device (external) may return the same bytes again.           *)
RngDevice ==
    /\ DeviceDone("rng")
    /\ \E w \in Words : buf' = w
    /\ UNCHANGED <<blkVars, word, draws, poolVars>>

-----------------------------------------------------------------------------
(* EntropyPool: fill hands out the next stretch of the stream, or zeros    *)
(* when unseeded; reseed re-keys, with the first bytes as they are and     *)
(* later ones mixed with 32 bytes of the current stream.                   *)

(* Mutant: the new bytes replace the key.                                  *)
ReplaceKey(w) == pool' = [key |-> <<w>>, pos |-> 0]

Reseed(w) ==
    pool' = [key |-> IF pool = Nil THEN <<w>> ELSE Append(Append(pool.key, pool.pos), w),
             pos |-> 0]

Fill ==
    /\ drawn' = IF pool = Nil THEN drawn ELSE Append(drawn, pool)
    /\ pool' = IF pool = Nil THEN Nil ELSE [pool EXCEPT !.pos = @ + 1]

(* The rendezvous of entropy_component and pqc_consumer.  The send of a    *)
(* user task is one step.  recv_message of a kernel task decides in one    *)
(* critical section and parks in another: a send that comes between them   *)
(* finds nobody and is queued, and the receiver parks all the same.        *)
Deliver ==
    /\ pc["rng"] = "sending" /\ Goto("rng", "idle") /\ draws' = draws + 1
    /\ inbox' = word
    /\ at' = [at EXCEPT !["pqc"] = @ + 1]
    /\ UNCHANGED <<count, idx, taken, busy, notified, isr, seen, pending, claimed,
                   blkVars, buf, word, pool, drawn>>

RngSend ==
    /\ pc["rng"] = "sending" /\ sender = "none"
    /\ \/ receiver = "parked" /\ Deliver /\ receiver' = "none" /\ UNCHANGED sender
       \/ /\ receiver # "parked" /\ sender' = "queued"
          /\ UNCHANGED <<queueVars, blkVars, rngVars, at, inbox, pool, drawn, receiver>>

(* pqc_consumer: recv, reseed, two draws, recv, reseed, one draw; then it  *)
(* only yields.                                                            *)
PqcRecv ==
    /\ at["pqc"] \in {0, 4} /\ receiver = "none"
    /\ \/ sender = "queued" /\ Deliver /\ sender' = "none" /\ UNCHANGED receiver
       \/ /\ sender = "none" /\ receiver' = "decided"
          /\ UNCHANGED <<queueVars, blkVars, rngVars, at, inbox, pool, drawn, sender>>

PqcPark ==
    /\ receiver = "decided" /\ receiver' = "parked"
    /\ UNCHANGED <<queueVars, blkVars, rngVars, at, inbox, pool, drawn, sender>>

PqcReseed ==
    /\ at["pqc"] \in {1, 5}
    /\ Reseed(inbox)
    /\ at' = [at EXCEPT !["pqc"] = @ + 1]
    /\ UNCHANGED <<queueVars, blkVars, rngVars, inbox, drawn, linkVars>>

PqcDraw ==
    /\ at["pqc"] \in {2, 3, 6}
    /\ Fill
    /\ at' = [at EXCEPT !["pqc"] = @ + 1]
    /\ UNCHANGED <<queueVars, blkVars, rngVars, inbox, linkVars>>

(* getrandom: refused without the capability (the first call of            *)
(* rnguser_task), served twice with it.                                    *)
Getrandom ==
    /\ at["user"] < 3
    /\ IF at["user"] = 0 THEN UNCHANGED <<pool, drawn>> ELSE Fill
    /\ at' = [at EXCEPT !["user"] = @ + 1]
    /\ UNCHANGED <<queueVars, blkVars, rngVars, inbox, linkVars>>

-----------------------------------------------------------------------------
Init ==
    /\ \E present \in Machines : QueueInitState(present)
    /\ disk \in [Blocks -> Contents] /\ page \in Contents
    /\ req = [c \in Clients |-> Nil] /\ serving = Nil
    /\ hdr = [op |-> "read", blk |-> 0] /\ status = "ok"
    /\ buf = Nil /\ word = Nil /\ draws = 0
    /\ at = [t \in {"pqc", "user"} |-> 0]
    /\ inbox = Nil /\ pool = Nil /\ drawn = <<>>
    /\ sender = "none" /\ receiver = "none"

(* The steps of Virtqueue touch nothing else.                              *)
DriverStep(d) == VirtioQueueInit(d) \/ Notify(d) \/ WaitIrq(d) \/ ReadIsr(d) \/ InterruptAck(d)

Queue(d) ==
    /\ DriverStep(d) \/ DeviceTake(d) \/ ExternalInterrupt(d)
    /\ UNCHANGED <<blkVars, rngVars, poolVars>>

Next ==
    \/ \E c \in Clients, op \in Ops, n \in Blocks \cup {BadBlock}, b \in Contents :
           FsIssue(c, op, n, b)
    \/ \E c \in Clients : FsReturn(c) \/ BlkRecv(c)
    \/ BlkPrepare \/ BlkPublish \/ BlkReply \/ BlkDevice
    \/ RngBegin \/ RngPublish \/ RngRead \/ RngSend \/ RngDevice
    \/ PqcRecv \/ PqcPark \/ PqcReseed \/ PqcDraw \/ Getrandom
    \/ \E d \in Devs : Queue(d)

Spec == Init /\ [][Next]_vars

(* The drivers and the consumers are scheduled round-robin, a device asked *)
(* to work finishes, and a pending interrupt is taken.                     *)
Fairness ==
    /\ \A d \in Devs :
          /\ WF_vars(DriverStep(d) /\ UNCHANGED <<blkVars, rngVars, poolVars>>)
          /\ WF_vars(notified[d] /\ DeviceTake(d) /\ UNCHANGED <<blkVars, rngVars, poolVars>>)
          /\ WF_vars(ExternalInterrupt(d) /\ UNCHANGED <<blkVars, rngVars, poolVars>>)
    /\ WF_vars(BlkPrepare \/ BlkPublish \/ BlkReply) /\ WF_vars(BlkDevice)
    /\ WF_vars(RngBegin \/ RngPublish \/ RngRead \/ RngSend) /\ WF_vars(RngDevice)
    /\ WF_vars(PqcRecv \/ PqcPark \/ PqcReseed \/ PqcDraw)

FairSpec == Spec /\ Fairness

-----------------------------------------------------------------------------
(* Properties.                                                             *)

TypeOK ==
    /\ QueueTypeOK
    /\ disk \in [Blocks -> Contents] /\ page \in Contents
    /\ req \in [Clients -> Requests \cup {Nil}]
    /\ serving \in Clients \cup {Nil}
    /\ hdr \in [op : Ops, blk : Blocks \cup {BadBlock}]
    /\ status \in {"none"} \cup Answers
    /\ buf \in Words \cup {Nil} /\ word \in Words \cup {Nil} /\ inbox \in Words \cup {Nil}
    /\ draws \in Nat
    /\ at \in [{"pqc", "user"} -> 0 .. 7]
    /\ sender \in {"none", "queued"} /\ receiver \in {"none", "decided", "parked"}
    /\ receiver # "none" => at["pqc"] \in {0, 4}

(* The wait_irq of a request returns only once the device has finished it: *)
(* an interrupt left over from an earlier request, or taken before the     *)
(* driver slept, never makes a driver read a status byte or a buffer the   *)
(* device has yet to write, though it never looks at the used ring.        *)
CompletionSeen ==
    \A d \in Devs : pc[d] \in {"woken", "ack", "done"} => ~busy[d] /\ taken[d] = idx[d]

(* While the device owns the chain (published and not completed), nothing  *)
(* touches the header or the available index, and only its completion      *)
(* touches the status byte, the data page and the medium.                  *)
Owned(d) == busy[d] \/ taken[d] # idx[d]

ChainStable ==
    [][Owned("blk") =>
          /\ hdr' = hdr /\ idx'["blk"] = idx["blk"]
          /\ UNCHANGED <<status, page, disk>> \/ (busy["blk"] /\ ~Owned("blk")')]_vars

(* The driver, its device and the interrupt path together implement the    *)
(* atomic block server that the file system relies on.  A request is       *)
(* served at the moment the device completes it.                           *)
Served(c) == serving = c /\ pc["blk"] \notin {"prepare", "off"} /\ status # "none"

StoreRequest(c) ==
    IF req[c] = Nil \/ req[c].st # "taken" THEN req[c]
    ELSE Request(req[c].op, req[c].blk, IF Served(c) THEN status ELSE "sent")

Store == INSTANCE BlockStore WITH req <- [c \in Clients |-> StoreRequest(c)]
ImplementsBlockStore == Store!Spec

(* A request the server has received is answered, unless the server's      *)
(* index stands at its last value and the build checks the addition.       *)
RequestAnswered ==
    \A c \in Clients :
        serving = c /\ count["blk"] # IDX_MOD - 1 ~> serving # c

(* On a machine with a random device the pool is seeded and reseeded: both *)
(* draws of the entropy component reach the consumer, which comes to its   *)
(* final draw, unless a send falls into the window of recv_message: then   *)
(* the component is queued and the consumer parked beside it, for ever.    *)
MissedSend == sender = "queued" /\ receiver = "parked"
PoolSeeded == pc["rng"] = "init" ~> at["pqc"] = 7 \/ MissedSend

(* The seeded pool never hands out the same bytes twice, to the kernel or  *)
(* through getrandom, even when the device returns the same bytes for both *)
(* seeds: mixing keeps a stuck source from rewinding the stream.           *)
NoDrawRepeats ==
    \A i, j \in 1 .. Len(drawn) : i # j => drawn[i] # drawn[j]

(***************************************************************************)
(* The inductive invariant.  Between requests the device is quiet and its  *)
(* line is low.  From the publication to the sleep the device has yet to   *)
(* take the chain, holds it, or has finished and asserts its line, which   *)
(* is then pending or claimed; asleep, nothing is left claimed.            *)
(***************************************************************************)
Quiet(d) == ~busy[d] /\ taken[d] = idx[d] /\ ~isr[d] /\ ~pending[d]

Finished(d) == ~busy[d] /\ taken[d] = idx[d] /\ isr[d]

InFlight(d) ==
    \/ ~busy[d] /\ Next16(taken[d]) = idx[d] /\ ~isr[d] /\ ~pending[d]
    \/ busy[d] /\ taken[d] = idx[d] /\ ~isr[d] /\ ~pending[d]
    \/ Finished(d) /\ (pending[d] \/ claimed[d])

QueueInv(d) ==
    /\ pc[d] \in {"init", "idle", "prepare", "publish", "done", "sending", "off"} => Quiet(d)
    /\ pc[d] = "init" => idx[d] = 0
    /\ pc[d] \in {"notify", "wait", "asleep"} => InFlight(d)
    /\ pc[d] = "asleep" => ~claimed[d]
    /\ pc[d] \in {"woken", "ack"} => Finished(d) /\ ~pending[d] /\ claimed[d]
    /\ pc[d] = "ack" => seen[d]
    /\ d = "rng" \/ pc[d] \notin {"notify", "wait", "asleep", "woken", "ack", "done"}
          => count[d] = idx[d]
    /\ d = "blk" /\ pc[d] \in {"notify", "wait", "asleep", "woken", "ack", "done"}
          => idx[d] = Next16(count[d])

(* The block server works on the request of the one caller it holds a      *)
(* Reply capability for, and the status byte tells whether the device has  *)
(* finished with it.                                                       *)
ServerInv ==
    /\ \A c \in Clients : (req[c] # Nil /\ req[c].st = "taken") <=> serving = c
    /\ pc["blk"] # "sending"
    /\ pc["blk"] \in {"init", "idle"} => serving = Nil
    /\ pc["blk"] \notin {"init", "idle", "off"} => serving \in Clients
    /\ pc["blk"] \in {"publish", "notify", "wait", "asleep", "woken", "ack", "done"} =>
          /\ hdr = [op |-> req[serving].op, blk |-> req[serving].blk]
          /\ status = "none" <=> ~isr["blk"] /\ pc["blk"] # "done"

(* Every draw was taken from the stream of the present key, at an earlier  *)
(* position, or under an earlier key, which is shorter.                    *)
Earlier(d) == Len(d.key) < Len(pool.key) \/ (d.key = pool.key /\ d.pos < pool.pos)

PoolInv ==
    /\ pool \in Pools \cup {Nil} /\ drawn \in Seq(Pools)
    /\ pool = Nil => drawn = <<>>
    /\ \A i \in 1 .. Len(drawn) : Earlier(drawn[i])
    /\ NoDrawRepeats

DriversInv == TypeOK /\ (\A d \in Devs : QueueInv(d)) /\ ServerInv
=============================================================================
