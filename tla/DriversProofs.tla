--------------------------- MODULE DriversProofs ---------------------------
(***************************************************************************)
(* For every number of clients, blocks and contents and every index width: *)
(* a driver looks at what its device wrote only after the device finished  *)
(* (CompletionSeen), the chain is stable while the device owns it          *)
(* (ChainStable), and the block server implements the atomic BlockStore    *)
(* that the file system relies on.  All three rest on DriversInv.  The     *)
(* seeded pool never repeats a draw (NoDrawRepeats): that rests on PoolInv.*)
(***************************************************************************)
EXTENDS Drivers, TLAPS

(* A step of the rendezvous delivers or leaves all else alone.             *)
Link == RngSend \/ PqcRecv \/ PqcPark

LEMMA LinkStep ==
    ASSUME TypeOK, Link
    PROVE  /\ \/ Deliver /\ at["pqc"] \in {0, 4}
              \/ UNCHANGED <<queueVars, blkVars, rngVars, at, inbox, pool, drawn>>
           /\ sender' \in {"none", "queued"} /\ receiver' \in {"none", "decided", "parked"}
           /\ receiver' # "none" => at' = at /\ at["pqc"] \in {0, 4}
BY DEF Link, RngSend, PqcRecv, PqcPark, TypeOK

(* The types are kept by every step.                                       *)
LEMMA TypeStep == ASSUME DriversInv, [Next]_vars PROVE TypeOK'
<1> USE VirtqueueAssumption, DriversAssumption DEF TypeOK, QueueTypeOK, Index, Pcs, Goto, Ops, Answers,
        Requests, Request, queueVars, blkVars, rngVars, poolVars, linkVars, Next16
<1> SUFFICES ASSUME TypeOK, ServerInv PROVE TypeOK'
  BY DEF DriversInv
<1>1. CASE UNCHANGED vars
  BY <1>1 DEF vars
<1>2. ASSUME NEW c \in Clients, NEW op \in Ops, NEW n \in Blocks \cup {BadBlock},
             NEW b \in Contents, FsIssue(c, op, n, b)
      PROVE TypeOK'
  BY <1>2 DEF FsIssue
<1>3. ASSUME NEW c \in Clients, FsReturn(c) PROVE TypeOK'
  BY <1>3 DEF FsReturn
<1>4. ASSUME NEW c \in Clients, BlkRecv(c) PROVE TypeOK'
  BY <1>4 DEF BlkRecv, Callers
<1>5. CASE BlkPrepare
  BY <1>5 DEF BlkPrepare, ServerInv
<1>6. CASE BlkPublish
  BY <1>6 DEF BlkPublish, Publish
<1>7. CASE BlkReply
  BY <1>7, SMTT(60) DEF BlkReply, AdvanceIndex, StatusOf, ServerInv
<1>8. CASE BlkDevice
  BY <1>8, SMTT(60) DEF BlkDevice, DeviceDone
<1>9. CASE RngBegin
  BY <1>9 DEF RngBegin
<1>10. CASE RngPublish
  BY <1>10 DEF RngPublish, Publish
<1>11. CASE RngRead
  BY <1>11 DEF RngRead
<1>12. CASE RngDevice
  BY <1>12 DEF RngDevice, DeviceDone
<1>13. CASE Link
  BY <1>13, LinkStep DEF Deliver
<1>14. CASE PqcReseed
  BY <1>14 DEF PqcReseed
<1>15. CASE PqcDraw
  BY <1>15 DEF PqcDraw
<1>16. CASE Getrandom
  BY SMTT(60), <1>16 DEF Getrandom
<1>17. ASSUME NEW d \in Devs, Queue(d) PROVE TypeOK'
  <2>1. CASE VirtioQueueInit(d)
    BY <1>17, <2>1 DEF Queue, VirtioQueueInit
  <2>2. CASE Notify(d)
    BY <1>17, <2>2 DEF Queue, Notify
  <2>3. CASE WaitIrq(d)
    BY <1>17, <2>3 DEF Queue, WaitIrq, Complete
  <2>4. CASE ReadIsr(d)
    BY <1>17, <2>4 DEF Queue, ReadIsr
  <2>5. CASE InterruptAck(d)
    BY <1>17, <2>5 DEF Queue, InterruptAck, WriteAck
  <2>6. CASE DeviceTake(d)
    BY <1>17, <2>6 DEF Queue, DeviceTake
  <2>7. CASE ExternalInterrupt(d)
    BY <1>17, <2>7 DEF Queue, ExternalInterrupt
  <2> QED BY SMTT(60), <1>17, <2>1, <2>2, <2>3, <2>4, <2>5, <2>6, <2>7 DEF Queue, DriverStep
<1> HIDE VirtqueueAssumption, DriversAssumption DEF TypeOK, QueueTypeOK, Index, Pcs, Goto, Ops, Answers,
        Requests, Request, queueVars, blkVars, rngVars, poolVars, linkVars, Next16
<1> QED
  BY <1>1, <1>2, <1>3, <1>4, <1>5, <1>6, <1>7, <1>8, <1>9, <1>10, <1>11, <1>12, <1>13, <1>14,
     <1>15, <1>16, <1>17 DEF Next, Link

(* A device that a step leaves alone keeps its invariant.                  *)
LEMMA QueueFrame ==
  ASSUME NEW d \in Devs, QueueInv(d),
         pc'[d] = pc[d], count'[d] = count[d], idx'[d] = idx[d], taken'[d] = taken[d],
         busy'[d] = busy[d], isr'[d] = isr[d], seen'[d] = seen[d],
         pending'[d] = pending[d], claimed'[d] = claimed[d]
  PROVE  QueueInv(d)'
BY DEF QueueInv, Quiet, Finished, InFlight, Next16

(* Every step keeps the invariant of both queues.                          *)
LEMMA QueueStep == ASSUME DriversInv, [Next]_vars PROVE \A d \in Devs : QueueInv(d)'
<1>1. /\ TypeOK /\ QueueTypeOK /\ ServerInv
      /\ \A d \in Devs : QueueInv(d)
      /\ "blk" \in Devs /\ "rng" \in Devs
  BY DriversAssumption DEF DriversInv, TypeOK
<1> SUFFICES ASSUME NEW e \in Devs PROVE QueueInv(e)'
  OBVIOUS
<1>2. CASE UNCHANGED queueVars
  BY <1>1, <1>2, QueueFrame DEF queueVars
<1> USE VirtqueueAssumption DEF QueueTypeOK, Index, Goto, QueueInv, Quiet, Finished, InFlight, Next16
<1>3. ASSUME NEW c \in Clients, BlkRecv(c) PROVE QueueInv(e)'
  BY SMTT(60), <1>1, <1>3 DEF BlkRecv
<1>4. CASE BlkPrepare
  BY SMTT(60), <1>1, <1>4 DEF BlkPrepare
<1>5. CASE BlkPublish
  BY <1>1, <1>5 DEF BlkPublish, Publish
<1>6. CASE BlkReply
  BY SMTT(60), <1>1, <1>6 DEF BlkReply, AdvanceIndex
<1>7. CASE BlkDevice
  BY SMTT(60), <1>1, <1>7 DEF BlkDevice, DeviceDone
<1>8. CASE RngBegin
  BY SMTT(60), <1>1, <1>8 DEF RngBegin
<1>9. CASE RngPublish
  BY SMTT(60), <1>1, <1>9 DEF RngPublish, Publish
<1>10. CASE RngRead
  BY SMTT(60), <1>1, <1>10 DEF RngRead
<1>11. CASE RngDevice
  BY SMTT(60), <1>1, <1>11 DEF RngDevice, DeviceDone
<1>12. CASE Link
  <2>1. CASE Deliver
    BY <1>1, <2>1 DEF Deliver
  <2> QED
    BY Zenon, <1>1, <1>2, <1>12, <2>1, LinkStep
<1>13. ASSUME NEW d \in Devs, Queue(d) PROVE QueueInv(e)'
  <2>1. CASE VirtioQueueInit(d)
    BY SMTT(60), <1>1, <2>1 DEF VirtioQueueInit
  <2>2. CASE Notify(d)
    BY SMTT(60), <1>1, <2>2 DEF Notify
  <2>3. CASE WaitIrq(d)
    BY SMTT(60), <1>1, <2>3 DEF WaitIrq, Complete
  <2>4. CASE ReadIsr(d)
    BY SMTT(60), <1>1, <2>4 DEF ReadIsr
  <2>5. CASE InterruptAck(d)
    BY SMTT(60), <1>1, <2>5 DEF InterruptAck, WriteAck
  <2>6. CASE DeviceTake(d)
    BY SMTT(60), <1>1, <2>6 DEF DeviceTake
  <2>7. CASE ExternalInterrupt(d)
    BY <1>1, <2>7 DEF ExternalInterrupt
  <2> HIDE DEF QueueInv, Quiet, Finished, InFlight
  <2> QED BY SMTT(60), <1>13, <2>1, <2>2, <2>3, <2>4, <2>5, <2>6, <2>7 DEF Queue, DriverStep
<1> HIDE VirtqueueAssumption DEF QueueTypeOK, Index, Goto, QueueInv, Quiet, Finished, InFlight, Next16
<1>14. CASE UNCHANGED vars
  BY <1>2, <1>14 DEF vars
<1>15. ASSUME NEW c \in Clients, NEW op \in Ops, NEW n \in Blocks \cup {BadBlock},
             NEW b \in Contents, FsIssue(c, op, n, b)
      PROVE QueueInv(e)'
  BY <1>2, <1>15 DEF FsIssue
<1>16. ASSUME NEW c \in Clients, FsReturn(c) PROVE QueueInv(e)'
  BY <1>2, <1>16 DEF FsReturn
<1>17. CASE PqcReseed \/ PqcDraw \/ Getrandom
  BY <1>2, <1>17 DEF PqcReseed, PqcDraw, Getrandom
<1> QED
  BY <1>2, <1>3, <1>4, <1>5, <1>6, <1>7, <1>8, <1>9, <1>10, <1>11, <1>12, <1>13, <1>14, <1>15, <1>16, <1>17 DEF Next, Link

(* Every step keeps the invariant of the block server.                     *)
LEMMA ServerStep == ASSUME DriversInv, [Next]_vars PROVE ServerInv'
<1>1. /\ TypeOK /\ ServerInv
      /\ QueueInv("blk")
      /\ "blk" \in Devs /\ "rng" \in Devs
  BY DriversAssumption DEF DriversInv
<1>2. CASE UNCHANGED <<pc, isr, req, serving, hdr, status>>
  BY <1>1, <1>2 DEF ServerInv
<1>3. ASSUME pc'["blk"] = pc["blk"], isr'["blk"] = isr["blk"], UNCHANGED <<req, serving, hdr, status>>
      PROVE ServerInv'
  BY SMTT(60), <1>1, <1>3 DEF ServerInv
<1> USE DriversAssumption DEF TypeOK, QueueTypeOK, ServerInv, Goto, blkVars, Requests, Request
<1>4. ASSUME NEW c \in Clients, NEW op \in Ops, NEW n \in Blocks \cup {BadBlock},
             NEW b \in Contents, FsIssue(c, op, n, b)
      PROVE ServerInv'
  BY SMTT(60), <1>1, <1>4 DEF FsIssue, queueVars
<1>5. ASSUME NEW c \in Clients, FsReturn(c) PROVE ServerInv'
  <2>1. /\ req[c].st # "taken" /\ req'[c] = Nil
        /\ \A k \in Clients \ {c} : req'[k] = req[k]
        /\ UNCHANGED <<pc, isr, serving, hdr, status>>
    BY SMTT(60), <1>1, <1>5 DEF FsReturn, Answers, queueVars
  <2> HIDE DriversAssumption DEF TypeOK, QueueTypeOK, Goto, blkVars, Requests, Request
  <2>2. serving # c
    BY <1>1, <2>1
  <2>3. \A k \in Clients : (req'[k] # Nil /\ req'[k].st = "taken") <=> serving' = k
    <3> SUFFICES ASSUME NEW k \in Clients
                 PROVE  (req'[k] # Nil /\ req'[k].st = "taken") <=> serving' = k
      OBVIOUS
    <3>1. CASE k = c
      BY <2>1, <2>2, <3>1
    <3>2. CASE k # c
      BY <1>1, <2>1, <3>2
    <3> QED BY <3>1, <3>2
  <2>4. /\ pc'["blk"] # "sending"
        /\ pc'["blk"] \in {"init", "idle"} => serving' = Nil
        /\ pc'["blk"] \notin {"init", "idle", "off"} => serving' \in Clients
    BY <1>1, <2>1
  <2>5. ASSUME pc'["blk"] \in {"publish", "notify", "wait", "asleep", "woken", "ack", "done"}
        PROVE  /\ hdr' = [op |-> req'[serving'].op, blk |-> req'[serving'].blk]
               /\ status' = "none" <=> ~isr'["blk"] /\ pc'["blk"] # "done"
    <3>1. serving \in Clients \ {c}
      BY <1>1, <2>1, <2>2, <2>5
    <3>2. req'[serving'] = req[serving]
      BY <2>1, <3>1
    <3> QED BY <1>1, <2>1, <2>5, <3>2
  <2> QED BY Zenon, <2>3, <2>4, <2>5
<1>6. ASSUME NEW c \in Clients, BlkRecv(c) PROVE ServerInv'
  <2>1. /\ req[c] \in Requests /\ req'[c] = [req[c] EXCEPT !.st = "taken"]
        /\ \A k \in Clients \ {c} : req'[k] = req[k]
        /\ serving' = c /\ pc'["blk"] = "prepare" /\ serving = Nil
    BY <1>1, <1>6 DEF BlkRecv, Callers
  <2>2. req'[c] # Nil /\ req'[c].st = "taken"
    <3>1. Nil \notin Requests
      BY DriversAssumption
    <3>2. req'[c] \in Requests
      BY <2>1
    <3>3. req'[c].st = "taken"
      BY <2>1
    <3> QED BY <3>1, <3>2, <3>3
  <2>3. \A k \in Clients : (req'[k] # Nil /\ req'[k].st = "taken") <=> serving' = k
    BY SMTT(60), <1>1, <2>1, <2>2
  <2> QED BY <1>6, <2>1, <2>3
<1>7. CASE BlkPrepare
  BY SMTT(60), <1>1, <1>7 DEF BlkPrepare, QueueInv, Quiet, Finished, InFlight
<1>8. CASE BlkPublish
  BY <1>1, <1>8 DEF BlkPublish, Publish, QueueInv, Quiet, Finished, InFlight
<1>9. CASE BlkReply
  BY SMTT(60), <1>1, <1>9 DEF BlkReply, AdvanceIndex, StatusOf, Answers, QueueInv, Quiet, Finished, InFlight
<1>10. CASE BlkDevice
  <2>1. pc' = pc /\ isr'["blk"] /\ status' \in Answers /\ UNCHANGED <<req, serving, hdr>>
    BY SMTT(60), <1>1, <1>10 DEF BlkDevice, DeviceDone, Answers
  <2>2. pc["blk"] \notin {"publish", "done"}
    BY SMTT(60), <1>1, <1>10 DEF BlkDevice, DeviceDone, QueueInv, Quiet
  <2> QED BY SMTT(60), <1>1, <2>1, <2>2 DEF Answers
<1>11. ASSUME NEW d \in Devs, Queue(d) PROVE ServerInv'
  <2>1. CASE VirtioQueueInit(d)
    BY SMTT(60), <1>1, <1>11, <2>1 DEF Queue, VirtioQueueInit, QueueInv, Quiet, Finished, InFlight
  <2>2. CASE Notify(d)
    BY SMTT(60), <1>1, <1>11, <2>2 DEF Queue, Notify, QueueInv, Quiet, Finished, InFlight
  <2>3. CASE WaitIrq(d)
    BY SMTT(60), <1>1, <1>11, <2>3 DEF Queue, WaitIrq, Complete, QueueInv, Quiet, Finished, InFlight
  <2>4. CASE ReadIsr(d)
    BY SMTT(60), <1>1, <1>11, <2>4 DEF Queue, ReadIsr, QueueInv, Quiet, Finished, InFlight
  <2>5. CASE InterruptAck(d)
    BY SMTT(60), <1>1, <1>11, <2>5 DEF Queue, InterruptAck, WriteAck, QueueInv, Quiet, Finished, InFlight
  <2>6. CASE DeviceTake(d)
    BY SMTT(60), <1>1, <1>11, <2>6 DEF Queue, DeviceTake, QueueInv, Quiet, Finished, InFlight
  <2>7. CASE ExternalInterrupt(d)
    BY <1>1, <1>11, <2>7 DEF Queue, ExternalInterrupt, QueueInv, Quiet, Finished, InFlight
  <2> HIDE DEF ServerInv, TypeOK
  <2> QED BY SMTT(60), <1>11, <2>1, <2>2, <2>3, <2>4, <2>5, <2>6, <2>7 DEF Queue, DriverStep
<1> HIDE DriversAssumption DEF ServerInv, Requests, Request
<1>12. CASE RngBegin
  BY <1>1, <1>3, <1>12 DEF RngBegin
<1>13. CASE RngPublish
  BY <1>1, <1>3, <1>13 DEF RngPublish, Publish
<1>14. CASE RngRead
  BY <1>1, <1>3, <1>14 DEF RngRead
<1>15. CASE RngDevice
  BY SMTT(60), <1>1, <1>3, <1>15 DEF RngDevice, DeviceDone
<1>16. CASE Link
  <2>1. CASE Deliver
    BY SMTT(60), <1>1, <1>3, <2>1 DEF Deliver
  <2>2. CASE UNCHANGED <<queueVars, blkVars, rngVars, at, inbox, pool, drawn>>
    BY <1>2, <2>2 DEF queueVars
  <2> QED
    BY Zenon, <1>1, <1>16, <2>1, <2>2, LinkStep
<1>17. CASE PqcReseed \/ PqcDraw \/ Getrandom \/ UNCHANGED vars
  BY <1>2, <1>17 DEF PqcReseed, PqcDraw, Getrandom, vars, queueVars
<1> HIDE DEF TypeOK
<1> QED
  BY <1>2, <1>3, <1>4, <1>5, <1>6, <1>7, <1>8, <1>9, <1>10, <1>11, <1>12, <1>13, <1>14, <1>15, <1>16, <1>17 DEF Next, Link

LEMMA InitInv == Init => DriversInv
<1> SUFFICES ASSUME Init PROVE DriversInv
  OBVIOUS
<1>1. PICK present \in Machines : QueueInitState(present)
  BY SMTT(60) DEF Init
<1>2. TypeOK
  BY <1>1, VirtqueueAssumption, DriversAssumption
  DEF Init, QueueInitState, TypeOK, QueueTypeOK, Index, Pcs, Ops, Answers
<1>3. ASSUME NEW d \in Devs PROVE QueueInv(d)
  BY SMTT(60), <1>1, DriversAssumption DEF QueueInitState, QueueInv, Quiet
<1>4. ServerInv
  BY <1>1, DriversAssumption DEF Init, QueueInitState, ServerInv
<1> QED BY <1>2, <1>3, <1>4 DEF DriversInv

LEMMA StepInv == DriversInv /\ [Next]_vars => DriversInv'
BY TypeStep, QueueStep, ServerStep DEF DriversInv

LEMMA Invariance == Spec => []DriversInv
BY InitInv, StepInv, PTL DEF Spec

(* A driver that wakes from wait_irq finds the device's work finished, for *)
(* both drivers and however the device, the interrupts and the drivers     *)
(* interleave (blk_req, entropy_component, wait_irq, wake_irq).            *)
THEOREM CompletionAlwaysSeen == Spec => []CompletionSeen
<1>1. DriversInv => CompletionSeen
  BY SMTT(60) DEF DriversInv, QueueInv, Quiet, Finished, CompletionSeen
<1> QED BY <1>1, Invariance, PTL

-----------------------------------------------------------------------------
(* While the device owns the chain, the server is between publish and its  *)
(* wake-up, on behalf of a caller.                                         *)
LEMMA OwnedInRequest ==
  ASSUME DriversInv, Owned("blk")
  PROVE  /\ pc["blk"] \in {"notify", "wait", "asleep"}
         /\ serving \in Clients /\ req[serving] # Nil
<1>1. QueueInv("blk") /\ TypeOK /\ ServerInv
  BY SMTT(60), DriversAssumption DEF DriversInv
<1>2. pc["blk"] \in {"notify", "wait", "asleep"}
  BY <1>1, DriversAssumption DEF TypeOK, QueueTypeOK, Pcs, QueueInv, Quiet, Finished, Owned
<1> QED BY ZenonT(60), <1>1, <1>2 DEF ServerInv

(* The chain in DMA memory is stable from its publication until the device *)
(* has finished with it (blk_req, fs_write_block).                         *)
THEOREM ChainAlwaysStable == Spec => ChainStable
<1> DEFINE Stable == Owned("blk") =>
          /\ hdr' = hdr /\ idx'["blk"] = idx["blk"]
          /\ UNCHANGED <<status, page, disk>> \/ (busy["blk"] /\ ~Owned("blk")')
<1>1. DriversInv /\ [Next]_vars => [Stable]_vars
  <2> SUFFICES ASSUME DriversInv, Next, Owned("blk"),
                      pc["blk"] \in {"notify", "wait", "asleep"},
                      serving \in Clients, req[serving] # Nil
               PROVE  /\ hdr' = hdr /\ idx'["blk"] = idx["blk"]
                      /\ UNCHANGED <<status, page, disk>> \/ (busy["blk"] /\ ~Owned("blk")')
    BY OwnedInRequest
  <2>1. TypeOK /\ QueueInv("blk") /\ "blk" \in Devs /\ "rng" \in Devs
    BY SMTT(60), DriversAssumption DEF DriversInv
  <2> USE <2>1 DEF queueVars, blkVars, TypeOK, QueueTypeOK, Goto
  <2>2. ASSUME NEW c \in Clients, NEW op \in Ops, NEW n \in Blocks \cup {BadBlock},
               NEW b \in Contents, FsIssue(c, op, n, b)
        PROVE  UNCHANGED <<hdr, idx, status, page, disk>>
    BY <2>2 DEF FsIssue
  <2>3. ASSUME NEW c \in Clients, FsReturn(c) \/ BlkRecv(c)
        PROVE  UNCHANGED <<hdr, idx, status, page, disk>>
    BY <2>3 DEF FsReturn, BlkRecv
  <2>4. CASE BlkPrepare \/ BlkPublish \/ BlkReply
    BY <2>4 DEF BlkPrepare, BlkPublish, Publish, BlkReply
  <2>5. CASE BlkDevice
    <3>1. hdr' = hdr /\ idx' = idx /\ taken' = taken /\ busy["blk"] /\ ~busy'["blk"]
      BY SMTT(60), <2>5 DEF BlkDevice, DeviceDone
    <3>2. taken["blk"] = idx["blk"]
      BY SMTT(60), <3>1 DEF QueueInv, InFlight, Finished
    <3> QED BY SMTT(60), <3>1, <3>2 DEF Owned
  <2>6. CASE RngBegin \/ RngPublish \/ RngRead \/ RngDevice
    BY SMTT(60), <2>6 DEF RngBegin, RngPublish, Publish, RngRead, RngDevice, DeviceDone
  <2>7. CASE PqcReseed \/ PqcDraw \/ Getrandom
    BY SMTT(60), <2>7 DEF PqcReseed, PqcDraw, Getrandom
  <2>9. CASE Link
    <3>1. CASE Deliver
      BY SMTT(60), <3>1 DEF Deliver
    <3> QED
      BY <2>9, <3>1, LinkStep
  <2>8. ASSUME NEW d \in Devs, Queue(d) PROVE UNCHANGED <<hdr, idx, status, page, disk>>
    BY <2>8 DEF Queue, DriverStep, VirtioQueueInit, Notify, WaitIrq, ReadIsr, InterruptAck,
                DeviceTake, ExternalInterrupt
  <2> HIDE <2>1 DEF TypeOK, QueueTypeOK
  <2> QED BY <2>2, <2>3, <2>4, <2>5, <2>6, <2>7, <2>8, <2>9, Zenon DEF Next, Link
<1> QED BY <1>1, Invariance, PTL DEF Spec, ChainStable

-----------------------------------------------------------------------------
(* A step that leaves the mapped requests, the page and the medium alone   *)
(* is a stuttering step of BlockStore.                                     *)
LEMMA StoreStutter ==
  ASSUME \A c \in Clients : StoreRequest(c)' = StoreRequest(c), UNCHANGED <<disk, page>>
  PROVE  UNCHANGED Store!storeVars
BY SMTT(60) DEF Store!storeVars

(* A step that changes neither the requests nor what they are mapped by.   *)
LEMMA SameRequests ==
  ASSUME UNCHANGED <<req, serving, status>>,
         pc'["blk"] \in {"prepare", "off"} <=> pc["blk"] \in {"prepare", "off"}
  PROVE  \A c \in Clients : StoreRequest(c)' = StoreRequest(c)
BY DEF StoreRequest, Served, Request

LEMMA StoreInit == Init => Store!Init
BY DEF Init, Store!Init, StoreRequest

(* Every step is a step of BlockStore or leaves it alone: the clients'     *)
(* steps are its own, the completion by the device is Serve, and what the  *)
(* driver and the interrupt path do is invisible.                          *)
LEMMA StoreStep ==
  ASSUME DriversInv, [Next]_vars PROVE Store!Next \/ UNCHANGED Store!storeVars
<1>1. /\ TypeOK /\ ServerInv /\ QueueInv("blk") /\ "blk" \in Devs /\ "rng" \in Devs
  BY DriversAssumption DEF DriversInv
<1> DEFINE R == [c \in Clients |-> StoreRequest(c)]
<1>2. ASSUME NEW c \in Clients, NEW op \in Ops, NEW n \in Blocks \cup {BadBlock},
             NEW b \in Contents, FsIssue(c, op, n, b)
      PROVE Store!Next
  <2>1. \A k \in Clients : (R[k] = Nil <=> req[k] = Nil) /\ (R[k] # Nil => R[k].op = req[k].op)
    <3> SUFFICES ASSUME NEW k \in Clients
                 PROVE  (R[k] = Nil <=> req[k] = Nil) /\ (R[k] # Nil => R[k].op = req[k].op)
      BY SMTT(60)
    <3>1. CASE req[k] = Nil \/ req[k].st # "taken"
      BY SMTT(60), <3>1 DEF StoreRequest
    <3>2. CASE req[k] # Nil /\ req[k].st = "taken"
      <4>1. req[k] \in Requests /\ status \in {"none"} \cup Answers
        BY SMTT(60), <1>1, <3>2 DEF TypeOK
      <4>2. R[k] = [op |-> req[k].op, blk |-> req[k].blk, st |-> IF Served(k) THEN status ELSE "sent"]
        BY SMTT(60), <3>2 DEF StoreRequest, Request
      <4>3. R[k] \in Requests
        BY SMTT(60), <4>1, <4>2 DEF Requests, Answers, Served
      <4> QED BY <3>2, <4>2, <4>3, DriversAssumption
    <3> QED BY <3>1, <3>2
  <2>2. \A k \in Clients \ {c} : R'[k] = R[k]
    BY SMTT(60), <1>1, <1>2 DEF FsIssue, StoreRequest, Request, Served, queueVars, TypeOK
  <2>3. R'[c] = Store!Request(op, n, "sent")
    BY <1>1, <1>2 DEF FsIssue, StoreRequest, Request, Store!Request, TypeOK
  <2>4. R' = [R EXCEPT ![c] = Store!Request(op, n, "sent")]
    BY <2>2, <2>3, ZenonT(60)
  <2>5. Store!Issue(c, op, n, b)
    BY <1>2, <2>1, <2>4 DEF FsIssue, Store!Issue
  <2> QED BY SMTT(60), <2>5 DEF Store!Next, Ops
<1>3. ASSUME NEW c \in Clients, FsReturn(c) PROVE Store!Next
  <2>1. R[c] = req[c] /\ R'[c] = Nil
    BY SMTT(60), <1>1, <1>3 DEF FsReturn, StoreRequest, Answers, TypeOK
  <2>2. \A k \in Clients \ {c} : R'[k] = R[k]
    BY <1>1, <1>3 DEF FsReturn, StoreRequest, Request, Served, queueVars, TypeOK
  <2>3. R' = [R EXCEPT ![c] = Nil]
    BY <2>1, <2>2, Zenon
  <2>4. Store!Return(c)
    BY <1>3, <2>1, <2>3 DEF FsReturn, Store!Return, Answers
  <2> QED BY SMTT(60), <2>4 DEF Store!Next
<1>4. ASSUME NEW c \in Clients, BlkRecv(c) PROVE UNCHANGED Store!storeVars
  <2>1. /\ req[c] \in Requests /\ req'[c] = [req[c] EXCEPT !.st = "taken"]
        /\ \A k \in Clients \ {c} : req'[k] = req[k]
        /\ serving' = c /\ pc'["blk"] = "prepare" /\ serving = Nil /\ req[c].st = "sent"
    BY <1>1, <1>4, DriversAssumption DEF BlkRecv, Callers, Goto, TypeOK, QueueTypeOK, ServerInv
  <2>2. StoreRequest(c)' = StoreRequest(c)
    BY <2>1, DriversAssumption DEF StoreRequest, Served, Request, Requests
  <2>3. \A k \in Clients \ {c} : StoreRequest(k)' = StoreRequest(k)
    <3> SUFFICES ASSUME NEW k \in Clients \ {c} PROVE StoreRequest(k)' = StoreRequest(k)
      OBVIOUS
    <3>1. ~(req[k] # Nil /\ req[k].st = "taken")
      BY <1>1, <2>1, DriversAssumption DEF ServerInv
    <3> QED BY <2>1, <3>1 DEF StoreRequest
  <2> QED BY <1>4, <2>2, <2>3, StoreStutter DEF BlkRecv
<1>5. CASE BlkPrepare
  <2>1. \A c \in Clients : StoreRequest(c)' = StoreRequest(c)
    BY <1>1, <1>5 DEF BlkPrepare, StoreRequest, Served, Request
  <2> QED BY SMTT(60), <1>5, <2>1, StoreStutter DEF BlkPrepare
<1>6. CASE BlkPublish
  <2>1. pc["blk"] = "publish" /\ status = "none" /\ UNCHANGED blkVars
    BY SMTT(60), <1>1, <1>6 DEF BlkPublish, Publish, ServerInv, QueueInv, Quiet
  <2>2. \A c \in Clients : StoreRequest(c)' = StoreRequest(c)
    BY <2>1 DEF blkVars, StoreRequest, Served, Request
  <2> QED BY SMTT(60), <2>1, <2>2, StoreStutter DEF blkVars
<1>7. CASE BlkReply
  <2>1. /\ pc["blk"] = "done" /\ pc'["blk"] = "idle"
        /\ status \in Answers /\ serving \in Clients /\ serving' = Nil
        /\ req[serving] \in Requests /\ req[serving].st = "taken"
    BY <1>1, <1>7, DriversAssumption
    DEF BlkReply, ServerInv, TypeOK, QueueTypeOK, Goto
  <2>2. /\ req'[serving] = [req[serving] EXCEPT !.st = status]
        /\ \A k \in Clients \ {serving} : req'[k] = req[k]
    BY <1>1, <1>7, <2>1 DEF BlkReply, StatusOf, Answers, TypeOK
  <2>3. StoreRequest(serving)  = [req[serving] EXCEPT !.st = status]
    <3>1. [req[serving] EXCEPT !.st = status]
            = [op |-> req[serving].op, blk |-> req[serving].blk, st |-> status]
      BY <2>1 DEF Requests
    <3>2. req[serving] # Nil
      BY <2>1, DriversAssumption
    <3> QED BY <2>1, <3>1, <3>2 DEF StoreRequest, Served, Request, Answers
  <2>4. \A k \in Clients \ {serving} : StoreRequest(k)' = StoreRequest(k)
    BY <1>1, <2>1, <2>2 DEF StoreRequest, ServerInv
  <2>5. \A k \in Clients : k = serving => StoreRequest(k)' = StoreRequest(k)
    BY <2>1, <2>2, <2>3, DriversAssumption DEF StoreRequest, Requests, Answers
  <2> QED BY <1>7, <2>4, <2>5, StoreStutter DEF BlkReply
<1>8. CASE BlkDevice
  <2>1. /\ pc["blk"] \in {"notify", "wait", "asleep"} /\ ~isr["blk"] /\ pc' = pc
        /\ serving \in Clients /\ UNCHANGED <<req, serving>>
    BY SMTT(60), <1>1, <1>8, OwnedInRequest DEF BlkDevice, DeviceDone, Owned, QueueInv, InFlight, Finished
  <2>2. /\ status = "none" /\ hdr = [op |-> req[serving].op, blk |-> req[serving].blk]
        /\ req[serving] \in Requests /\ req[serving].st = "taken"
    BY <1>1, <2>1 DEF ServerInv, TypeOK
  <2>3. status' \in Answers
    BY SMTT(60), <1>8 DEF BlkDevice, Answers
  <2>4. /\ R[serving] = [op |-> hdr.op, blk |-> hdr.blk, st |-> "sent"]
        /\ R'[serving] = [op |-> hdr.op, blk |-> hdr.blk, st |-> status']
    BY SMTT(60), <2>1, <2>2, <2>3, DriversAssumption DEF StoreRequest, Served, Request, Answers
  <2>5. \A k \in Clients \ {serving} : R'[k] = R[k]
    BY <1>1, <2>1 DEF StoreRequest, ServerInv
  <2>6. R' = [R EXCEPT ![serving].st = status']
    <3>1. R'[serving] = [R[serving] EXCEPT !.st = status']
      BY SMTT(60), <2>4
    <3> QED BY <2>1, <2>5, <3>1, Zenon
  <2>7. R[serving] # Nil
    <3>1. R[serving] \in Requests
      BY SMTT(60), <2>2, <2>4 DEF Requests
    <3> QED BY SMTT(60), <3>1, DriversAssumption
  <2>8. Store!Serve(serving)
    <3>1. R[serving].st = "sent" /\ R[serving].op = hdr.op /\ R[serving].blk = hdr.blk
      BY <2>4
    <3>2. Store!Outstanding(serving)
      BY <2>7, <3>1 DEF Store!Outstanding
    <3>3. \A st : st = status' => Store!Answer(serving, st)
      BY <2>6 DEF Store!Answer
    <3> QED BY <1>8, <3>1, <3>2, <3>3 DEF BlkDevice, Store!Serve
  <2> QED BY SMTT(60), <2>1, <2>8 DEF Store!Next
<1>9. CASE RngBegin \/ RngPublish \/ RngRead \/ RngDevice \/ Deliver
  <2>1. pc'["blk"] = pc["blk"] /\ UNCHANGED blkVars
    BY <1>1, <1>9 DEF RngBegin, RngPublish, Publish, RngRead, RngDevice, DeviceDone, Deliver, Goto,
                      TypeOK, QueueTypeOK
  <2> QED BY SMTT(60), <2>1, SameRequests, StoreStutter DEF blkVars
<1>10. CASE PqcReseed \/ PqcDraw \/ Getrandom \/ UNCHANGED vars
  <2>1. UNCHANGED <<pc, blkVars>>
    BY <1>10 DEF PqcReseed, PqcDraw, Getrandom, vars, queueVars
  <2> QED BY SMTT(60), <2>1, SameRequests, StoreStutter DEF blkVars
<1>11. ASSUME NEW d \in Devs, Queue(d) PROVE UNCHANGED Store!storeVars
  <2>1. UNCHANGED blkVars
    BY SMTT(60), <1>11 DEF Queue
  <2>2. pc'["blk"] \in {"prepare", "off"} <=> pc["blk"] \in {"prepare", "off"}
    BY <1>1, <1>11 DEF Queue, DriverStep, VirtioQueueInit, Notify, WaitIrq, ReadIsr, InterruptAck,
                       DeviceTake, ExternalInterrupt, Goto, TypeOK, QueueTypeOK
  <2> QED BY <2>1, <2>2, SameRequests, StoreStutter DEF blkVars
<1>12. CASE Link
  <2>1. CASE UNCHANGED <<queueVars, blkVars, rngVars, at, inbox, pool, drawn>>
    <3>1. UNCHANGED <<pc, blkVars>>
      BY <2>1 DEF queueVars
    <3> QED BY SMTT(60), <3>1, SameRequests, StoreStutter DEF blkVars
  <2> QED
    BY Zenon, <1>1, <1>9, <1>12, <2>1, LinkStep
<1> QED
  BY <1>2, <1>3, <1>4, <1>5, <1>6, <1>7, <1>8, <1>9, <1>10, <1>11, <1>12 DEF Next, Link

(* The virtio block driver, its device and the interrupt path implement    *)
(* the atomic block server (BlockStore) under fs_read_block and            *)
(* fs_write_block.                                                         *)
THEOREM DriverImplementsStore == Spec => ImplementsBlockStore
<1>1. DriversInv /\ [Next]_vars => [Store!Next]_(Store!storeVars)
  BY StoreStep
<1> QED BY <1>1, StoreInit, Invariance, PTL DEF Spec, ImplementsBlockStore, Store!Spec

(* The pool before its first seed has drawn nothing.                       *)
LEMMA PoolInit == Init => PoolInv
<1> SUFFICES ASSUME Init PROVE PoolInv
  OBVIOUS
<1>1. pool = Nil /\ drawn = <<>>
  BY DEF Init
<1>2. drawn \in Seq(Pools) /\ Len(drawn) = 0
  BY <1>1
<1> QED
  BY <1>1, <1>2 DEF PoolInv, NoDrawRepeats

(* What the state of a seeded pool is made of.                             *)
LEMMA PoolFacts ==
    ASSUME NEW p \in Pools
    PROVE  /\ p.key \in Seq(Words \cup {Nil} \cup Nat) /\ p.pos \in Nat /\ Len(p.key) \in Nat
           /\ [p EXCEPT !.pos = @ + 1] \in Pools
           /\ [p EXCEPT !.pos = @ + 1].key = p.key
           /\ [p EXCEPT !.pos = @ + 1].pos = p.pos + 1
<1>1. p.key \in Seq(Words \cup {Nil} \cup Nat) /\ p.pos \in Nat
  BY DEF Pools
<1> QED
  BY <1>1 DEF Pools

(* fill hands out the present position and moves past it.                  *)
LEMMA FillKeeps == ASSUME PoolInv, Fill PROVE PoolInv'
<1>1. CASE pool = Nil
  <2>1. pool' = pool /\ drawn' = drawn
    BY <1>1 DEF Fill
  <2> QED
    BY <2>1 DEF PoolInv, NoDrawRepeats, Earlier
<1>2. CASE pool # Nil
  <2>1. /\ drawn' = Append(drawn, pool)
        /\ pool' = [pool EXCEPT !.pos = @ + 1]
    BY <1>2 DEF Fill
  <2>2. pool \in Pools /\ drawn \in Seq(Pools)
    BY <1>2 DEF PoolInv
  <2>3. /\ pool' \in Pools
        /\ pool'.key = pool.key /\ pool'.pos = pool.pos + 1 /\ pool.pos \in Nat
    BY Zenon, <2>1, <2>2, PoolFacts
  <2>4. /\ drawn' \in Seq(Pools) /\ Len(drawn') = Len(drawn) + 1 /\ Len(drawn) \in Nat
        /\ drawn'[Len(drawn) + 1] = pool
        /\ \A i \in 1 .. Len(drawn) : drawn'[i] = drawn[i]
    BY <2>1, <2>2
  <2>5. pool' # Nil
    BY <2>3, DriversAssumption
  <2>6. \A i \in 1 .. Len(drawn) : drawn[i] \in Pools /\ Earlier(drawn[i]) /\ drawn[i].pos \in Nat
    <3>1. \A i \in 1 .. Len(drawn) : drawn[i] \in Pools
      BY <2>2
    <3>2. \A i \in 1 .. Len(drawn) : Earlier(drawn[i])
      BY Zenon DEF PoolInv
    <3> QED
      BY Zenon, <3>1, <3>2, PoolFacts
  <2>7. ASSUME NEW i \in 1 .. Len(drawn) PROVE drawn[i] # pool
    <3>1. Len(pool.key) \in Nat
      BY <2>2 DEF Pools
    <3> QED
      BY <2>3, <2>6, <3>1 DEF Earlier
  <2>8. ASSUME NEW i \in 1 .. Len(drawn') PROVE Earlier(drawn[i])'
    <3>0. pool.pos < pool.pos + 1 /\ \A n \in Nat : n < pool.pos => n < pool.pos + 1
      BY <2>3
    <3>1. CASE i = Len(drawn) + 1
      BY Zenon, <2>3, <2>4, <3>0, <3>1 DEF Earlier
    <3>2. CASE i \in 1 .. Len(drawn)
      BY Zenon, <2>3, <2>4, <2>6, <3>0, <3>2 DEF Earlier
    <3>3. i = Len(drawn) + 1 \/ i \in 1 .. Len(drawn)
      BY <2>4
    <3> QED
      BY Zenon, <3>1, <3>2, <3>3
  <2>9. ASSUME NEW i \in 1 .. Len(drawn'), NEW j \in 1 .. Len(drawn'), i # j
        PROVE drawn'[i] # drawn'[j]
    <3>1. CASE i \in 1 .. Len(drawn) /\ j \in 1 .. Len(drawn)
      BY <2>4, <2>9, <3>1 DEF PoolInv, NoDrawRepeats
    <3>2. \A k \in 1 .. Len(drawn') : k = Len(drawn) + 1 \/ k \in 1 .. Len(drawn)
      BY <2>4
    <3>3. CASE i = Len(drawn) + 1 /\ j \in 1 .. Len(drawn)
      BY Zenon, <2>4, <2>7, <3>3
    <3>4. CASE j = Len(drawn) + 1 /\ i \in 1 .. Len(drawn)
      BY Zenon, <2>4, <2>7, <3>4
    <3> QED
      BY Zenon, <2>9, <3>1, <3>2, <3>3, <3>4
  <2> QED
    BY Zenon, <2>3, <2>4, <2>5, <2>8, <2>9 DEF PoolInv, NoDrawRepeats
<1> QED
  BY <1>1, <1>2

(* reseed lengthens the key, so that every earlier draw is an old one.     *)
LEMMA ReseedKeeps ==
    ASSUME PoolInv, NEW w \in Words \cup {Nil}, Reseed(w), drawn' = drawn
    PROVE  PoolInv'
<1> DEFINE K == Words \cup {Nil} \cup Nat
<1>1. CASE pool = Nil
  <2>1. pool' = [key |-> <<w>>, pos |-> 0] /\ drawn' = <<>>
    BY <1>1 DEF Reseed, PoolInv
  <2>2. pool' \in Pools /\ drawn' \in Seq(Pools) /\ Len(drawn') = 0
    BY <2>1 DEF Pools
  <2> QED
    BY <2>1, <2>2 DEF PoolInv, NoDrawRepeats
<1>2. CASE pool # Nil
  <2>1. pool' = [key |-> Append(Append(pool.key, pool.pos), w), pos |-> 0]
    BY <1>2 DEF Reseed
  <2>2. pool.key \in Seq(K) /\ pool.pos \in K /\ w \in K
    BY <1>2 DEF PoolInv, Pools
  <2>3. /\ Append(Append(pool.key, pool.pos), w) \in Seq(K)
        /\ Len(Append(Append(pool.key, pool.pos), w)) = Len(pool.key) + 2
        /\ Len(pool.key) \in Nat
    <3> HIDE DEF K
    <3> QED
      BY <2>2
  <2>4. pool' \in Pools /\ Len(pool'.key) = Len(pool.key) + 2
    BY <2>1, <2>3 DEF Pools
  <2>5. pool' # Nil
    BY <2>4, DriversAssumption
  <2>6. ASSUME NEW i \in 1 .. Len(drawn) PROVE Earlier(drawn[i])'
    <3>1. drawn[i] \in Pools /\ Earlier(drawn[i])
      BY DEF PoolInv
    <3>2. Len(drawn[i].key) \in Nat
      BY <3>1 DEF Pools
    <3> QED
      BY <2>3, <2>4, <3>1, <3>2 DEF Earlier
  <2> QED
    BY <2>4, <2>5, <2>6 DEF PoolInv, NoDrawRepeats
<1> QED
  BY <1>1, <1>2

(* No other step touches the pool.                                         *)
LEMMA PoolStep == ASSUME DriversInv, PoolInv, [Next]_vars PROVE PoolInv'
<1>1. CASE UNCHANGED <<pool, drawn>>
  BY <1>1 DEF PoolInv, NoDrawRepeats, Earlier
<1>2. CASE PqcReseed
  <2>1. inbox \in Words \cup {Nil}
    BY DEF DriversInv, TypeOK
  <2> QED
    BY <1>2, <2>1, ReseedKeeps DEF PqcReseed
<1>3. CASE PqcDraw
  BY <1>3, FillKeeps DEF PqcDraw
<1>4. CASE Getrandom
  BY <1>1, <1>4, FillKeeps DEF Getrandom
<1>5. CASE UNCHANGED poolVars
  BY <1>1, <1>5 DEF poolVars
<1>6. ASSUME NEW c \in Clients, NEW op \in Ops, NEW n \in Blocks \cup {BadBlock},
             NEW b \in Contents, FsIssue(c, op, n, b)
      PROVE PoolInv'
  BY <1>5, <1>6 DEF FsIssue
<1>7. ASSUME NEW c \in Clients, FsReturn(c) \/ BlkRecv(c) PROVE PoolInv'
  BY <1>5, <1>7 DEF FsReturn, BlkRecv
<1>8. CASE BlkPrepare \/ BlkPublish \/ BlkReply \/ BlkDevice
  BY <1>5, <1>8 DEF BlkPrepare, BlkPublish, BlkReply, BlkDevice
<1>9. CASE RngBegin \/ RngPublish \/ RngRead \/ RngDevice
  BY <1>5, <1>9 DEF RngBegin, RngPublish, RngRead, RngDevice
<1>10. CASE Link
  <2>1. TypeOK
    BY DEF DriversInv
  <2>2. UNCHANGED <<pool, drawn>>
    BY <1>10, <2>1, LinkStep DEF Deliver
  <2> QED
    BY <1>1, <2>2
<1>11. ASSUME NEW d \in Devs, Queue(d) PROVE PoolInv'
  BY <1>5, <1>11 DEF Queue
<1>12. CASE UNCHANGED vars
  BY <1>5, <1>12 DEF vars
<1> QED
  BY <1>2, <1>3, <1>4, <1>6, <1>7, <1>8, <1>9, <1>10, <1>11, <1>12 DEF Next, Link

(* The seeded pool never serves the same stretch of a stream twice,        *)
(* whatever bytes the device returns and however the consumer's reseeds    *)
(* and the draws of both users interleave.                                 *)
THEOREM DrawsNeverRepeat == Spec => []NoDrawRepeats
<1>1. DriversInv /\ PoolInv /\ [Next]_vars => PoolInv'
  BY PoolStep
<1>2. PoolInv => NoDrawRepeats
  BY DEF PoolInv
<1> QED
  BY <1>1, <1>2, PoolInit, Invariance, PTL DEF Spec
=============================================================================
