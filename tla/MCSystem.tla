----------------------------- MODULE MCSystem -----------------------------
(***************************************************************************)
(* System with the boards to boot, and the scheduler's constants taken     *)
(* from what kmain builds on a board with all three virtio devices.        *)
(***************************************************************************)
EXTENDS System

Board(missing, tail, first, last, cells, damage) ==
    [missing |-> missing, tail |-> tail, bus |-> [first |-> first, last |-> last],
     cells |-> cells, damage |-> damage]

Tails ==
    {Append(t, kind) : t \in [1 .. 3 -> {"uart", "virtio", "mute", "plic"}],
                       kind \in {"uart", "virtio", "rtc", "plic"}}

(* The board of the scheduler's constants, and what they are: Handover     *)
(* says that kmain builds these tables on it.                              *)
MCReference == Board("nothing", <<"virtio", "virtio", "virtio", "plic", "uart">>, 1, 4, 2, "none")
MCReferenceIds == [b \in 4 .. 6 |-> CASE b = 4 -> "net" [] b = 5 -> "blk" [] b = 6 -> "rng"]

(* Every tail of four nodes, with some stretch of it on a bus; without a   *)
(* bus, also with one-cell addresses, a required node left out, or damage. *)
MCBoards ==
    {MCReference}
        \cup {Board("nothing", t, bus[1], bus[2], 2, "none") :
                t \in Tails, bus \in {<<1, 4>>, <<2, 3>>}}
        \cup {Board("nothing", t, 0, 0, cells, "none") : t \in Tails, cells \in {1, 2}}
        \cup {Board(missing, t, 0, 0, 2, "none") : missing \in {"memory", "cpus", "rtc"}, t \in Tails}
        \cup {Board("nothing", t, 0, 0, 2, damage) :
                t \in Tails, damage \in {"truncated", "unknown", "unbalanced"}}

Spawned ==
    <<"rtc", "needy", "broker", "lease", "tenant", "opener", "sealer", "nocap", "rogue",
      "healer", "transient", "flaky", "novel", "pqc", "entropy", "rnguser", "deferrer",
      "dclientA", "dclientB", "kb", "blk", "kbw", "net", "netcli", "shell", "idle">>

CapsOf(name) ==
    CASE name = "rtc" -> <<Endpoint(EP0)>>
      [] name = "needy" -> <<Endpoint(GRANT_EP)>>
      [] name = "broker" -> <<Endpoint(GRANT_EP), Endpoint(EP0)>>
      [] name \in {"lease", "tenant"} -> <<Endpoint(LEASE_EP)>>
      [] name \in {"opener", "sealer"} -> <<Session, Endpoint(CHAN_EP)>>
      [] name = "healer" -> <<Endpoint(CRASH_EP), Restart(10), Restart(11)>>
      [] name \in {"transient", "flaky", "novel"} -> <<Endpoint(GATE_EP)>>
      [] name = "pqc" -> <<Endpoint(ENTROPY_EP)>>
      [] name = "entropy" -> <<Endpoint(ENTROPY_EP), Interrupt(6)>>
      [] name = "rnguser" -> <<Randomness>>
      [] name \in {"deferrer", "dclientA", "dclientB"} -> <<Endpoint(DEFER_EP)>>
      [] name = "kb" -> <<Endpoint(BLK_EP), Endpoint(GATE_EP)>>
      [] name = "blk" -> <<Endpoint(BLK_EP), Interrupt(5)>>
      [] name = "kbw" -> <<Endpoint(BLK_EP)>>
      [] name = "net" -> <<Endpoint(NET_EP), Interrupt(4)>>
      [] name = "netcli" -> <<Endpoint(NET_EP)>>
      [] OTHER -> << >>

MCName == [t \in Tasks |-> Spawned[t + 1]]
MCInitCaps ==
    [t \in Tasks |->
        LET held == CapsOf(Spawned[t + 1])
        IN  [s \in Slots |-> IF s + 1 \in DOMAIN held THEN held[s + 1] ELSE NoCap]]
MCCrashBadge == [t \in Tasks |-> CASE t = 10 -> 1 [] t = 11 -> 2 [] OTHER -> 0]

(* The calls each program contains.                                        *)
MCProgram ==
    [t \in Tasks |->
        LET name == Spawned[t + 1]
        IN  IF name = "healer" THEN {"recv"}
            ELSE {Code(name, p[1])[p[2]].op :
                    p \in {q \in {0, 1} \X (1 .. 5) : q[2] \in DOMAIN Code(name, q[1])}} \cap Calls]

MCGroups ==
    { {"rtc", "needy", "broker", "rogue"},
      {"lease", "tenant"},
      {"opener", "sealer", "nocap"},
      {"deferrer", "dclientA", "dclientB"},
      {"healer", "transient", "flaky", "novel", "kb"} }
=============================================================================
