----------------------------- MODULE NetProofs -----------------------------
(***************************************************************************)
(* Theorems about Net for every set of servers, every number of attempts   *)
(* and however many late answers are under way.                            *)
(***************************************************************************)
EXTENDS Net, TLAPS

(* A frame that some host sent in answer to a question it was asked.       *)
Earned(f) == \E q \in served : f \in Answers(q)

(* The driver has a call in hand.                                          *)
Busy == {"finish", "post", "transmit", "wait", "ack", "check", "reply"}

NetType ==
    /\ exchange \in {"discover", "request", "arp", "ping", "dns", "dns_ping", "done", "idle"}
    /\ io \in {"build", "handed", "queued", "awaiting", "blocked", "parse"}
    /\ pc \in {"free", "recv", "exited"} \cup Busy
    /\ seq \in Nat /\ rxAvail \in Nat /\ rxUsed \in Nat /\ txAvail \in Nat /\ txUsed \in Nat

(* The receive queue: one buffer is posted per exchange, the device is     *)
(* never ahead of it, and a frame of this exchange asserted the line,      *)
(* which stays asserted until the driver has been woken by it.             *)
RingInv ==
    /\ rxAvail = IF pc \in {"free", "recv", "finish", "post", "exited"} THEN seq ELSE seq + 1
    /\ rxUsed <= rxAvail
    /\ (pc \in {"transmit", "wait"} /\ rxUsed = seq + 1) => isr = TRUE
    /\ pc \in {"wait", "ack", "check"} => rxLen = 0
    /\ (pc = "reply" /\ rxLen # 0) => rxUsed = seq + 1

(* The call: while the driver works for the client it waits or is about to *)
(* (it may also wait when the driver no longer does), and the frame it     *)
(* then parses is the last one the device had a buffer for.                *)
CallInv ==
    /\ pc \in Busy => io \in {"handed", "awaiting"} /\ (pc = "finish" <=> exchange = "done")
    /\ (io = "parse" /\ rxLen # 0) => rxUsed = seq
    /\ io # "build" => exchange # "idle"

(* The buffers and the wire: what is transmitted is a question, and every  *)
(* answer under way or received was earned.                                *)
WireInv ==
    /\ exchange = "request" => offer \in Servers
    /\ (io \notin {"build", "parse"} /\ exchange # "done") => txBuf \in Questions
    /\ txAvail # 0 => txBuf \in Questions
    /\ served \subseteq Questions
    /\ \A f \in wire : Earned(f)
    /\ rxBuf \in {Nil, Unsolicited} \/ Earned(rxBuf)

NetInv == NetType /\ RingInv /\ CallInv /\ WireInv /\ AdoptedIsLeased /\ FactsEarned

(* What an answer says of the question it answers.                         *)
LEMMA AnswerFacts ==
    ASSUME NEW q \in Questions, NEW f \in Answers(q)
    PROVE  /\ f.kind = "ack" => q = RequestFrame(f.addr)
           /\ f.kind = "arp_reply" => q = ArpFrame
           /\ f.kind = "echo_reply" => q = EchoFrame(f.addr)
           /\ f.kind = "answer" => q = QueryFrame
           /\ f.kind = "offer" => f.addr \in Servers
<1>1. /\ q.kind = "discover" => \E s \in Servers : f = Frame("offer", s)
      /\ q.kind = "request" => f = Frame("ack", q.addr)
      /\ q.kind = "arp" => f = Frame("arp_reply", "gateway")
      /\ q.kind = "echo" => f = Frame("echo_reply", q.addr)
      /\ q.kind = "query" => f = Frame("answer", "host") \/ f = Frame("answer", Nil)
  BY Zenon DEF Answers
<1>2. \/ q.kind = "discover"
      \/ q.kind = "request" /\ q = RequestFrame(q.addr)
      \/ q.kind = "arp" /\ q = ArpFrame
      \/ q.kind = "echo" /\ q = EchoFrame(q.addr)
      \/ q.kind = "query" /\ q = QueryFrame
  BY DEF Questions, DiscoverFrame, RequestFrame, ArpFrame, EchoFrame, QueryFrame, Frame
<1>3. CASE q.kind = "discover"
  BY <1>1, <1>3 DEF Frame
<1>4. CASE q.kind # "discover"
  BY <1>1, <1>2, <1>4 DEF Frame
<1> QED
  BY <1>3, <1>4

(* What the client finds in the receive buffer was earned.                 *)
LEMMA ReceivedFacts ==
    ASSUME NetInv
    PROVE  /\ IsOffer(Received) => Received.addr \in Servers
           /\ IsAck(Received) => RequestFrame(Received.addr) \in served
           /\ IsArpReply(Received) => ArpFrame \in served
           /\ \A h : IsEchoReply(Received, h) => EchoFrame(h) \in served
           /\ IsAnswer(Received) => QueryFrame \in served
<1> USE DEF IsOffer, IsAck, IsArpReply, IsEchoReply, IsAnswer, IsKind
<1>1. Received \in {Nil, Unsolicited} \/ Earned(Received)
  BY DEF NetInv, WireInv, Received
<1>2. CASE Received = Nil
  BY <1>2
<1>3. CASE Received = Unsolicited
  BY <1>3 DEF Unsolicited, Frame
<1>4. CASE Earned(Received)
  <2>1. PICK q \in served : Received \in Answers(q)
    BY <1>4 DEF Earned
  <2>2. q \in Questions
    BY DEF NetInv, WireInv
  <2> QED
    BY <2>1, <2>2, AnswerFacts
<1> QED
  BY <1>1, <1>2, <1>3, <1>4

(* The question of an exchange is one of the client's questions.           *)
LEMMA QuestionFacts ==
    ASSUME NetInv, exchange \notin {"done", "idle"}
    PROVE  /\ Question \in Questions
           /\ exchange = "arp" => Question = ArpFrame
           /\ exchange = "ping" => Question = EchoFrame("gateway")
           /\ exchange = "dns" => Question = QueryFrame
           /\ exchange = "dns_ping" => Question = EchoFrame("host")
<1>1. /\ exchange = "discover" => Question = DiscoverFrame
      /\ exchange = "request" => Question = RequestFrame(offer)
      /\ exchange = "arp" => Question = ArpFrame
      /\ exchange = "ping" => Question = EchoFrame("gateway")
      /\ exchange = "dns" => Question = QueryFrame
      /\ exchange = "dns_ping" => Question = EchoFrame("host")
  BY Zenon DEF Question
<1> QED
  BY <1>1 DEF NetInv, NetType, Busy, WireInv, Questions

LEMMA NetInvInit == Init => NetInv
BY DEF Init, NetInv, NetType, Busy, RingInv, CallInv, WireInv, AdoptedIsLeased, FactsEarned

(* A client step touches neither queue nor wire; what it concludes was     *)
(* earned.                                                                 *)
LEMMA ClientCallInv == ASSUME NetInv, ClientCall PROVE NetInv'
<1> USE DEF ClientCall, CallMessage, Taken
<1>1. NetType'
  BY DEF NetInv, NetType, Busy, driverVars, netVars
<1>2. RingInv'
  BY DEF NetInv, NetType, Busy, RingInv, driverVars
<1>3. CallInv'
  BY DEF NetInv, NetType, Busy, CallInv, driverVars
<1>4. WireInv'
  BY QuestionFacts DEF NetInv, WireInv, Earned, netVars
<1> QED
  BY <1>1, <1>2, <1>3, <1>4 DEF NetInv, AdoptedIsLeased, FactsEarned, netVars

LEMMA ClientParkInv == ASSUME NetInv, ClientPark PROVE NetInv'
<1> USE DEF ClientPark
<1>1. NetType' /\ RingInv' /\ CallInv'
  BY DEF NetInv, NetType, Busy, RingInv, CallInv, driverVars
<1>2. WireInv'
  BY DEF NetInv, WireInv, Earned, driverVars, netVars
<1> QED
  BY <1>1, <1>2 DEF NetInv, AdoptedIsLeased, FactsEarned, netVars

LEMMA ClientParseInv == ASSUME NetInv, ClientParse PROVE NetInv'
<1> DEFINE Parsed == ParseOffer \/ ParseAck \/ ParseArp \/ ParsePing \/ ParseDns \/ ParseDnsPing
                       \/ Told
<1>0. Parsed /\ io = "parse" /\ UNCHANGED <<driverVars, rxAvail, rxUsed, txAvail, txUsed, rxBuf,
                                           txBuf, isr, netVars>>
  BY DEF ClientParse
<1>a. /\ exchange' \in {"request", "arp", "ping", "dns", "dns_ping", "done", "idle"}
      /\ io' = "build"
  BY <1>0 DEF ParseOffer, ParseAck, ParseArp, ParsePing, ParseDns, ParseDnsPing, Told, Finish
<1>b. exchange' = "request" => offer' \in Servers
  BY <1>0, ReceivedFacts
     DEF ParseOffer, ParseAck, ParseArp, ParsePing, ParseDns, ParseDnsPing, Told, Finish
<1>c. netIp' = netIp \/ RequestFrame(netIp') \in served
  BY <1>0, ReceivedFacts
     DEF ParseOffer, ParseAck, ParseArp, ParsePing, ParseDns, ParseDnsPing, Told
<1>d. found' \subseteq served
  <2>0. found \subseteq served
    BY DEF NetInv, FactsEarned
  <2>1. CASE ParseOffer \/ ParseAck \/ Told
    BY <2>0, <2>1 DEF ParseOffer, ParseAck, Told, Finish
  <2>2. CASE ParseArp \/ ParsePing
    BY <2>0, <2>2, ReceivedFacts, QuestionFacts DEF ParseArp, ParsePing, Finish
  <2>3. CASE ParseDns \/ ParseDnsPing
    BY <2>0, <2>3, ReceivedFacts, QuestionFacts DEF ParseDns, ParseDnsPing, Finish
  <2> QED
    BY <1>0, <2>1, <2>2, <2>3
<1> HIDE DEF Parsed
<1>1. NetType'
  BY <1>0, <1>a DEF NetInv, NetType, Busy, driverVars, netVars
<1>2. RingInv'
  BY <1>0 DEF NetInv, RingInv, driverVars
<1>3. CallInv'
  BY <1>0, <1>a DEF NetInv, CallInv, Busy, driverVars
<1>4. WireInv'
  BY <1>0, <1>a, <1>b DEF NetInv, WireInv, Earned, netVars
<1>5. AdoptedIsLeased'
  BY <1>0, <1>c DEF NetInv, AdoptedIsLeased, netVars
<1>6. FactsEarned'
  BY <1>0, <1>d DEF FactsEarned, netVars
<1> QED
  BY <1>1, <1>2, <1>3, <1>4, <1>5, <1>6 DEF NetInv

(* A step of the driver moves its own indices and the interrupt.           *)
LEMMA DriverInv == ASSUME NetInv, Driver PROVE NetInv'
<1> USE DEF clientVars, driverVars, deviceVars, netVars
<1>1. CASE DriverRecv
  BY <1>1 DEF DriverRecv, Taken, NetInv, NetType, Busy, RingInv, CallInv, WireInv, Earned, AdoptedIsLeased,
              FactsEarned
<1>2. CASE DriverPost
  BY <1>2 DEF DriverPost, NetInv, NetType, Busy, RingInv, CallInv, WireInv, Earned, AdoptedIsLeased,
              FactsEarned
<1>3. CASE DriverTransmit
  BY <1>3 DEF DriverTransmit, NetInv, NetType, Busy, RingInv, CallInv, WireInv, Earned,
              AdoptedIsLeased, FactsEarned
<1>4. CASE DriverWoken
  BY <1>4 DEF DriverWoken, NetInv, NetType, Busy, RingInv, CallInv, WireInv, Earned, AdoptedIsLeased,
              FactsEarned
<1>5. CASE DriverAck
  BY <1>5 DEF DriverAck, NetInv, NetType, Busy, RingInv, CallInv, WireInv, Earned, AdoptedIsLeased,
              FactsEarned
<1>6. CASE DriverCheck
  BY <1>6 DEF DriverCheck, NetInv, NetType, Busy, RingInv, CallInv, WireInv, Earned, AdoptedIsLeased,
              FactsEarned
<1>7. CASE DriverReply
  BY <1>7 DEF DriverReply, Reply, NetInv, NetType, Busy, RingInv, CallInv, WireInv, Earned, AdoptedIsLeased,
              FactsEarned
<1>8. CASE DriverFinish
  BY <1>8 DEF DriverFinish, Reply, NetInv, NetType, Busy, RingInv, CallInv, WireInv, Earned,
              AdoptedIsLeased, FactsEarned
<1> QED
  BY <1>1, <1>2, <1>3, <1>4, <1>5, <1>6, <1>7, <1>8 DEF Driver

(* The device takes a question from the transmit queue: a host that        *)
(* answers has been asked.                                                 *)
LEMMA DeviceTransmitInv == ASSUME NetInv, DeviceTransmit PROVE NetInv'
<1>0. txBuf \in Questions
  BY DEF NetInv, NetType, Busy, WireInv, DeviceTransmit
<1>1. NetType'
  BY DEF NetInv, NetType, Busy, DeviceTransmit, clientVars, driverVars
<1>2. RingInv' /\ CallInv'
  BY DEF NetInv, RingInv, CallInv, DeviceTransmit, clientVars, driverVars
<1>3. served \subseteq served' /\ served' \subseteq served \cup {txBuf}
  BY DEF DeviceTransmit
<1>4. ASSUME NEW f \in wire' PROVE Earned(f)'
  <2>1. PICK late \in SUBSET wire, answers \in SUBSET Answers(txBuf) :
           /\ wire' = late \cup answers
           /\ answers # {} => served' = served \cup {txBuf}
    BY DEF DeviceTransmit
  <2>2. CASE f \in answers
    BY <2>1, <2>2 DEF Earned, DeviceTransmit
  <2>3. CASE f \in late
    BY <2>3, <1>3 DEF Earned, NetInv, WireInv
  <2> QED
    BY <1>4, <2>1, <2>2, <2>3
<1>5. WireInv'
  BY <1>0, <1>3, <1>4 DEF NetInv, WireInv, Earned, DeviceTransmit, clientVars, driverVars
<1> QED
  BY <1>1, <1>2, <1>3, <1>5 DEF NetInv, AdoptedIsLeased, FactsEarned, DeviceTransmit, clientVars

(* The device writes a frame into a posted buffer, or drops it.            *)
LEMMA DeviceReceiveInv == ASSUME NetInv, NEW f \in wire \cup {Unsolicited}, DeviceReceive(f) PROVE NetInv'
<1> USE DEF DeviceReceive, clientVars, driverVars
<1>1. NetType'
  BY DEF NetInv, NetType, Busy
<1>2. RingInv'
  BY DEF NetInv, NetType, Busy, RingInv
<1>3. CallInv'
  BY DEF NetInv, NetType, Busy, RingInv, CallInv
<1>4. WireInv'
  BY DEF NetInv, WireInv, Earned
<1> QED
  BY <1>1, <1>2, <1>3, <1>4 DEF NetInv, AdoptedIsLeased, FactsEarned

LEMMA NetInvNext == NetInv /\ [Next]_vars => NetInv'
<1> SUFFICES ASSUME NetInv, [Next]_vars PROVE NetInv'
  OBVIOUS
<1>1. CASE UNCHANGED vars
  BY <1>1 DEF vars, clientVars, driverVars, netVars, NetInv, NetType, Busy, RingInv, CallInv, WireInv,
              Earned, AdoptedIsLeased, FactsEarned
<1> QED
  BY <1>1, ClientCallInv, ClientParkInv, ClientParseInv, DriverInv, DeviceTransmitInv, DeviceReceiveInv
     DEF Next, Client

LEMMA NetInvAlways == Spec => []NetInv
BY NetInvInit, NetInvNext, PTL DEF Spec

(* The frame the client parses cannot change under it: the driver posted   *)
(* one buffer per exchange, and the frame of this exchange used it up.     *)
THEOREM FrameAlwaysStable == Spec => []FrameStable
<1>1. NetInv => FrameStable
  BY DEF NetInv, NetType, Busy, RingInv, CallInv, FrameStable
<1> QED
  BY <1>1, NetInvAlways, PTL

(* The driver never waits for the interrupt of a frame that is already in  *)
(* the ring with the line deasserted, however the device's two queues and  *)
(* the driver's acknowledgement interleave.                                *)
THEOREM ReplyNeverSleptOn == Spec => []NoSleepOnReply
<1>1. NetInv => NoSleepOnReply
  BY DEF NetInv, RingInv, NoSleepOnReply
<1> QED
  BY <1>1, NetInvAlways, PTL

(* net_client adopts only an address whose server was asked for it.        *)
THEOREM AdoptedAlwaysLeased == Spec => []AdoptedIsLeased
<1>1. NetInv => AdoptedIsLeased
  BY DEF NetInv
<1> QED
  BY <1>1, NetInvAlways, PTL

(* net_client reports of the gateway and of the name only what a host that *)
(* was asked has answered, whatever the wire loses, repeats and reorders.  *)
THEOREM FactsAlwaysEarned == Spec => []FactsEarned
<1>1. NetInv => FactsEarned
  BY DEF NetInv
<1> QED
  BY <1>1, NetInvAlways, PTL
=============================================================================
