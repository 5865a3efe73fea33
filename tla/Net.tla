-------------------------------- MODULE Net --------------------------------
(***************************************************************************)
(* The network: net_client, a kernel task that leases an address, resolves *)
(* and pings the gateway and resolves and pings a name; net_component, the *)
(* user-space driver that carries one exchange at a time through two       *)
(* virtqueues; the device; and the hosts beyond it.  Client and driver     *)
(* share one receive and one transmit buffer.                              *)
(*                                                                         *)
(* A frame is its kind and the fields the parsers look at.  The wire loses *)
(* frames, delivers them late, out of order and more than once, and brings *)
(* frames nobody asked for, which answer no question; it forges none.      *)
(* The client's call_message decides in one critical section and parks in  *)
(* another, as in Sched; wait_irq returns when the device asserts its      *)
(* line.                                                                   *)
(***************************************************************************)
EXTENDS Naturals, FiniteSets

CONSTANTS
    Servers,            \* DHCP servers; each offers one address, its own name
    Unleased,           \* NET_IP before a lease
    Attempts,           \* wake-ups the driver waits through per exchange
    MaxLate,            \* bound: earlier answers still under way at a transmission
    Lossy,              \* may the wire lose a question or every answer to it
    Nil

ASSUME NetAssumption ==
    /\ Unleased \notin Servers /\ Nil \notin Servers
    /\ Attempts \in Nat \ {0} /\ MaxLate \in Nat /\ Lossy \in BOOLEAN

Frame(kind, addr) == [kind |-> kind, addr |-> addr]
Unsolicited == Frame("noise", Nil)

(* What the hosts answer: the gateway to ARP and echo, a server to what is *)
(* addressed to it, the resolver with an address or without one.           *)
Answers(f) ==
    CASE f.kind = "discover" -> {Frame("offer", s) : s \in Servers}
      [] f.kind = "request" -> {Frame("ack", f.addr)}
      [] f.kind = "arp" -> {Frame("arp_reply", "gateway")}
      [] f.kind = "echo" -> {Frame("echo_reply", f.addr)}
      [] f.kind = "query" -> {Frame("answer", "host"), Frame("answer", Nil)}

DiscoverFrame == Frame("discover", Nil)
RequestFrame(server) == Frame("request", server)
ArpFrame == Frame("arp", "gateway")
EchoFrame(host) == Frame("echo", host)
QueryFrame == Frame("query", Nil)

Questions ==
    {DiscoverFrame, ArpFrame, QueryFrame}
        \cup {RequestFrame(s) : s \in Servers} \cup {EchoFrame(h) : h \in {"gateway", "host"}}

VARIABLES
    exchange, io,       \* the client's place: which exchange, and where in it
    offer, netIp,       \* the server of the OFFER, and NET_IP
    found,              \* what the client has concluded: a set of facts
    pc, seq, attempts,  \* the driver, its exchange counter, wake-ups so far
    rxLen,              \* the length it replies: 0, or 1 for a frame
    rxAvail, rxUsed,    \* indices of the receive queue
    txAvail, txUsed,    \* and of the transmit queue
    rxBuf, txBuf,       \* the two buffers of the DMA page
    isr,                \* InterruptStatus; the line is asserted while it is set
    wire, served, lost  \* frames under way, questions answered, a loss in this exchange

clientVars == <<exchange, io, offer, netIp, found>>
driverVars == <<pc, seq, attempts, rxLen>>
netVars == <<wire, served, lost>>
vars == <<clientVars, driverVars, rxAvail, rxUsed, txAvail, txUsed, rxBuf, txBuf, isr, netVars>>

Init ==
    /\ exchange = "discover" /\ io = "build" /\ offer = Nil /\ netIp = Unleased /\ found = {}
    /\ pc = "free" /\ seq = 0 /\ attempts = 0 /\ rxLen = 0
    /\ rxAvail = 0 /\ rxUsed = 0 /\ txAvail = 0 /\ txUsed = 0
    /\ rxBuf = Nil /\ txBuf = Nil /\ isr = FALSE
    /\ wire = {} /\ served = {} /\ lost = FALSE

(***************************************************************************)
(* net_client.  Each exchange builds a frame in the transmit buffer, calls *)
(* the driver, and parses what is in the receive buffer.  In call_message  *)
(* it has handed the call to a driver in recv and awaits the reply, or has *)
(* queued it and is blocked: first decided, then parked.                   *)
(***************************************************************************)
Question ==
    CASE exchange = "discover" -> DiscoverFrame
      [] exchange = "request" -> RequestFrame(offer)
      [] exchange = "arp" -> ArpFrame
      [] exchange = "ping" -> EchoFrame("gateway")
      [] exchange = "dns" -> QueryFrame
      [] exchange = "dns_ping" -> EchoFrame("host")

(* What a driver with the call in hand does next.                          *)
Taken == IF exchange = "done" THEN "finish" ELSE "post"

CallMessage ==
    IF pc = "recv" THEN pc' = Taken /\ io' = "handed" ELSE io' = "queued" /\ UNCHANGED pc

(* Only the device reads the transmit buffer, so that the frame is built   *)
(* in the step of the decision.                                            *)
ClientCall ==
    /\ io = "build" /\ exchange # "idle"
    /\ txBuf' = IF exchange = "done" THEN txBuf ELSE Question
    /\ CallMessage
    /\ lost' = FALSE
    /\ UNCHANGED <<exchange, offer, netIp, found, seq, attempts, rxLen, rxAvail, rxUsed,
                   txAvail, txUsed, rxBuf, isr, wire, served>>

ClientPark ==
    /\ io \in {"handed", "queued"}
    /\ io' = IF io = "handed" THEN "awaiting" ELSE "blocked"
    /\ UNCHANGED <<exchange, offer, netIp, found, driverVars, rxAvail, rxUsed, txAvail, txUsed,
                   rxBuf, txBuf, isr, netVars>>

Received == IF rxLen = 0 THEN Nil ELSE rxBuf
IsKind(f, kind) == f # Nil /\ f.kind = kind
IsOffer(f) == IsKind(f, "offer")
AcceptsAnyReply(f) == IsKind(f, "offer") \/ IsKind(f, "ack")
IsAck(f) == IsKind(f, "ack")
IsArpReply(f) == IsKind(f, "arp_reply")
AcceptsAnyIdent(f, host) == IsKind(f, "echo_reply")
IsEchoReply(f, host) == IsKind(f, "echo_reply") /\ f.addr = host
IsAnswer(f) == IsKind(f, "answer") /\ f.addr # Nil

(* The client's conclusion, if any, and the exchange it goes on to.        *)
Finish(next, fact) ==
    /\ exchange' = next /\ io' = "build"
    /\ found' = found \cup fact

ParseOffer ==
    /\ exchange = "discover" /\ UNCHANGED netIp
    /\ \/ IsOffer(Received) /\ offer' = Received.addr /\ Finish("request", {})
       \/ ~IsOffer(Received) /\ UNCHANGED offer /\ Finish("arp", {})
ParseAck ==
    /\ exchange = "request" /\ Finish("arp", {}) /\ offer' = Nil
    /\ netIp' = IF IsAck(Received) THEN Received.addr ELSE netIp
ParseArp ==
    /\ exchange = "arp" /\ UNCHANGED <<offer, netIp>>
    /\ \/ IsArpReply(Received) /\ Finish("ping", {Question})
       \/ ~IsArpReply(Received) /\ Finish("done", {})
ParsePing ==
    /\ exchange = "ping" /\ UNCHANGED <<offer, netIp>>
    /\ Finish("dns", IF IsEchoReply(Received, "gateway") THEN {Question} ELSE {})
ParseDns ==
    /\ exchange = "dns" /\ UNCHANGED <<offer, netIp>>
    /\ \/ IsAnswer(Received) /\ Finish("dns_ping", {Question})
       \/ ~IsAnswer(Received) /\ Finish("done", {})
ParseDnsPing ==
    /\ exchange = "dns_ping" /\ UNCHANGED <<offer, netIp>>
    /\ Finish("done", IF IsEchoReply(Received, "host") THEN {Question} ELSE {})
Told == exchange = "done" /\ Finish("idle", {}) /\ UNCHANGED <<offer, netIp>>

ClientParse ==
    /\ io = "parse"
    /\ ParseOffer \/ ParseAck \/ ParseArp \/ ParsePing \/ ParseDns \/ ParseDnsPing \/ Told
    /\ UNCHANGED <<driverVars, rxAvail, rxUsed, txAvail, txUsed, rxBuf, txBuf, isr, netVars>>

(***************************************************************************)
(* net_component.                                                          *)
(***************************************************************************)
deviceVars == <<rxUsed, txUsed, rxBuf, txBuf>>

(* recv takes a call that is queued, or waits for one.                     *)
DriverRecv ==
    /\ pc = "free"
    /\ IF io = "blocked" THEN pc' = Taken /\ io' = "awaiting" ELSE pc' = "recv" /\ UNCHANGED io
    /\ UNCHANGED <<exchange, offer, netIp, found, seq, attempts, rxLen, rxAvail, txAvail,
                   deviceVars, isr, netVars>>

(* A reply to a caller that has yet to park is lost.                       *)
Reply == io' = IF io = "awaiting" THEN "parse" ELSE io

(* NET_DONE is answered at once, and the driver exits.                     *)
DriverFinish ==
    /\ pc = "finish" /\ pc' = "exited"
    /\ rxLen' = 0 /\ Reply
    /\ UNCHANGED <<exchange, offer, netIp, found, seq, attempts, rxAvail, txAvail,
                   deviceVars, isr, netVars>>

DriverPostOld ==
    /\ pc = "post"
    /\ rxAvail' = seq
    /\ pc' = "transmit"
    /\ UNCHANGED <<clientVars, seq, attempts, rxLen, txAvail, deviceVars, isr, netVars>>
DriverPost ==
    /\ pc = "post"
    /\ rxAvail' = seq + 1
    /\ pc' = "transmit"
    /\ UNCHANGED <<clientVars, seq, attempts, rxLen, txAvail, deviceVars, isr, netVars>>

DriverTransmitDrains ==
    /\ pc = "transmit"
    /\ txAvail' = seq + 1 /\ isr' = FALSE
    /\ pc' = "wait" /\ attempts' = 0 /\ rxLen' = 0
    /\ UNCHANGED <<clientVars, seq, rxAvail, deviceVars, netVars>>
DriverTransmit ==
    /\ pc = "transmit"
    /\ txAvail' = seq + 1
    /\ pc' = "wait" /\ attempts' = 0 /\ rxLen' = 0
    /\ UNCHANGED <<clientVars, seq, rxAvail, deviceVars, isr, netVars>>

DriverWoken ==
    /\ pc = "wait" /\ isr
    /\ pc' = "ack"
    /\ UNCHANGED <<clientVars, seq, attempts, rxLen, rxAvail, txAvail, deviceVars, isr, netVars>>

DriverAck ==
    /\ pc = "ack"
    /\ isr' = FALSE
    /\ pc' = "check"
    /\ UNCHANGED <<clientVars, seq, attempts, rxLen, rxAvail, txAvail, deviceVars, netVars>>

DriverCheckReposts ==
    /\ pc = "check"
    /\ pc' = IF rxUsed = seq + 1 THEN "reply" ELSE "wait"
    /\ rxLen' = IF rxUsed = seq + 1 THEN 1 ELSE 0
    /\ rxAvail' = IF rxUsed = seq + 1 THEN rxAvail + 1 ELSE rxAvail
    /\ UNCHANGED <<clientVars, seq, attempts, txAvail, deviceVars, isr, netVars>>
DriverCheck ==
    /\ pc = "check"
    /\ IF rxUsed = seq + 1
       THEN pc' = "reply" /\ rxLen' = 1 /\ UNCHANGED attempts
       ELSE /\ attempts' = attempts + 1 /\ UNCHANGED rxLen
            /\ pc' = IF attempts + 1 < Attempts THEN "wait" ELSE "reply"
    /\ UNCHANGED <<clientVars, seq, rxAvail, txAvail, deviceVars, isr, netVars>>

DriverReply ==
    /\ pc = "reply"
    /\ seq' = seq + 1 /\ attempts' = 0
    /\ pc' = "free" /\ Reply
    /\ UNCHANGED <<exchange, offer, netIp, found, rxLen, rxAvail, txAvail,
                   deviceVars, isr, netVars>>

(***************************************************************************)
(* The device and the wire.  Some or all of the answers to a question set  *)
(* out, beside at most MaxLate earlier ones, and it counts as served;      *)
(* or it is lost, or all its answers are.  An answer may stay on the wire  *)
(* to be delivered again.                                                  *)
(***************************************************************************)
DeviceTransmit ==
    /\ txUsed < txAvail
    /\ txUsed' = txUsed + 1 /\ isr' = TRUE
    /\ \E late \in SUBSET wire, answers \in SUBSET Answers(txBuf) :
           /\ Cardinality(late) <= MaxLate
           /\ wire' = late \cup answers
           /\ \/ answers # {} /\ served' = served \cup {txBuf} /\ UNCHANGED lost
              \/ answers = {} /\ Lossy /\ lost' = TRUE /\ UNCHANGED served
    /\ UNCHANGED <<clientVars, driverVars, rxAvail, txAvail, rxUsed, rxBuf, txBuf>>

(* A frame for which no buffer is posted is dropped.                       *)
DeviceReceive(f) ==
    /\ wire' \in {wire, wire \ {f}}
    /\ \/ /\ rxUsed < rxAvail
          /\ rxBuf' = f /\ rxUsed' = rxUsed + 1 /\ isr' = TRUE
       \/ /\ rxUsed = rxAvail
          /\ UNCHANGED <<rxBuf, rxUsed, isr>>
    /\ UNCHANGED <<clientVars, driverVars, rxAvail, txAvail, txUsed, txBuf, served, lost>>

Client == ClientCall \/ ClientPark \/ ClientParse
Driver ==
    \/ DriverRecv \/ DriverPost \/ DriverTransmit \/ DriverWoken \/ DriverAck \/ DriverCheck
    \/ DriverReply \/ DriverFinish
Next == Client \/ Driver \/ DeviceTransmit \/ \E f \in wire \cup {Unsolicited} : DeviceReceive(f)

Spec == Init /\ [][Next]_vars

(* Client and driver are tasks that are scheduled again and again, the     *)
(* device works through its queue, and while a buffer is posted an answer  *)
(* that was not lost arrives.  Unsolicited frames promise nothing.         *)
AnswerArrives == rxUsed < rxAvail /\ \E f \in wire : DeviceReceive(f)

Fairness ==
    WF_vars(Client) /\ WF_vars(Driver) /\ WF_vars(DeviceTransmit) /\ WF_vars(AnswerArrives)

FairSpec == Spec /\ Fairness

(***************************************************************************)
(* Properties.                                                             *)
(***************************************************************************)
(* While the client reads a frame out of the receive buffer, and until its *)
(* next call, the device has no buffer to write another frame into: the    *)
(* bytes cannot change under the parser.                                   *)
FrameStable == (io = "parse" /\ rxLen # 0) => rxUsed = rxAvail

(* The driver never sleeps on a reply: when it waits for the interrupt and *)
(* the frame it waits for is in the ring, the line is asserted.            *)
NoSleepOnReply == (pc = "wait" /\ rxUsed = seq + 1) => isr

(* An adopted address was granted: a server was asked for it and committed *)
(* the lease, whatever offers and acknowledgements came late or twice.     *)
AdoptedIsLeased == netIp # Unleased => RequestFrame(netIp) \in served

(* What the client reports about the gateway and the name it learned from  *)
(* a host that was really asked: no late answer of one exchange counts as  *)
(* the answer of another.                                                  *)
FactsEarned == found \subseteq served

(* Every call of the client returns, unless its question or all answers to *)
(* it are lost: the buffer is posted before the question goes out, so no   *)
(* answer can be too early for it, and wake-ups by the transmit queue do   *)
(* not use up the driver's patience.  The one other way to wait for ever   *)
(* is the window of call_message: the driver enters recv, or replies,      *)
(* between the client's decision and its park.                             *)
CallMissed ==
    \/ io = "blocked" /\ pc = "recv"
    \/ io = "awaiting" /\ pc \in {"free", "recv", "exited"}

AnsweredOrLost == io = "build" /\ exchange # "idle" ~> io = "parse" \/ lost \/ CallMissed
=============================================================================
