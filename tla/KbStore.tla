------------------------------ MODULE KbStore ------------------------------
(***************************************************************************)
(* The knowledge base of the self-healer: the volume that holds it, the    *)
(* table in memory, the crash path that consults and updates the table,    *)
(* the loader that fills it at boot, and the writer that records novel     *)
(* crashes and persists the counters.  Loader and writer are kernel tasks  *)
(* that reach the disk through one server and one shared DMA page; crashes *)
(* interrupt them anywhere, and power can be lost at any step.  They talk  *)
(* to the server and to the gated patients by call_message, which decides  *)
(* and parks in two critical sections.                                     *)
(*                                                                         *)
(* A block is abstracted to what the code reads from it: a superblock, a   *)
(* directory, the front matter of an entry, or anything else ("free").     *)
(***************************************************************************)
EXTENDS Naturals, FiniteSets, Sequences

CONSTANTS
    Patients,            \* components that may crash, gated on the load
    Cause,               \* the cause token of each one's fault, or NoToken
    Restartable,         \* those whose Restart capability the healer holds
    Tokens, NoToken,
    MAX_RESTARTS, ESCALATE_AT,
    SEEN_MAX,            \* the largest counter the fixed-width field holds
    KB_NUMBERS,          \* the ids the four-digit field tells apart
    MAX_ISSUES, DIRENTS_PER_BLOCK, SPARE_BLOCKS, KB_HEAD_BLOCKS,
    Files,               \* the entries mkfs packs: [id, cause, len] in order
    Devices,             \* the disks a boot may find: see device
    MaxBoots,            \* bound on boots
    Nil, Failed

DIR_BLOCK == 1
DATA_START_BLOCK == 2

ASSUME KbAssumption ==
    /\ Cause \in [Patients -> Tokens \cup {NoToken}] /\ NoToken \notin Tokens
    /\ Restartable \subseteq Patients
    /\ MAX_RESTARTS \in Nat /\ ESCALATE_AT \in Nat \ {0}
    /\ SEEN_MAX \in Nat /\ SEEN_MAX >= ESCALATE_AT
    /\ KB_NUMBERS \in Nat \ {0} /\ MAX_ISSUES \in Nat
    /\ DIRENTS_PER_BLOCK \in Nat \ {0} /\ SPARE_BLOCKS \in Nat
    /\ KB_HEAD_BLOCKS \in Nat \ {0} /\ MaxBoots \in Nat
    /\ Devices \subseteq {"absent", "sound", "failing"} /\ Devices # {}
    /\ Files \in Seq([id : Nat, cause : Tokens \cup {NoToken}, len : Nat \ {0}])
    /\ Len(Files) \in 1 .. DIRENTS_PER_BLOCK
    /\ Nil \notin Nat /\ Nil \notin [op : {"read", "write"}, blk : Nat, st : {"sent", "ok", "error"}]

VARIABLES
    disk,                \* the blocks of the device; all that survives
    device,              \* does this boot find it, and may it report errors
    page, cached,        \* the DMA data page and FS_CACHED_BLOCK
    req,                 \* each client's request to the block server
    call,                \* how far each client is in call_message
    server,              \* what the block server is doing
    ldr, wtr,            \* where the loader and the writer are, and their locals
    table, novel,        \* KB_TABLE and NOVEL_TOKEN
    patient, restarts,   \* what each patient is doing, and its restarts
    boots

ioVars == <<page, cached, req>>
callVars == <<call, server>>
healVars == <<table, novel>>
patientVars == <<patient, restarts>>
vars == <<disk, device, page, cached, req, call, server, ldr, wtr, table, novel, patient, restarts, boots>>
bootVars == <<device, boots>>

Clients == {"loader", "writer"}
Min2(a, b) == IF a < b THEN a ELSE b

(***************************************************************************)
(* The volume.                                                             *)
(***************************************************************************)
NoEntry == [name |-> 0, start |-> 0, len |-> 0]
DirEntry(n, s, l) == [name |-> n, start |-> s, len |-> l]
Superblock(e, t) == [kind |-> "sb", entries |-> e, total |-> t]
Directory(ents) == [kind |-> "dir", ents |-> ents]
Entry(i, c, s, e) == [kind |-> "kb", id |-> i, cause |-> c, seen |-> s, escalated |-> e]
Free == [kind |-> "free"]

(* Where each file of the image starts; the last value is total_blocks.    *)
Start[i \in 0 .. Len(Files)] ==
    IF i = 0 THEN DATA_START_BLOCK ELSE Start[i - 1] + Files[i].len
Blocks == 0 .. (Start[Len(Files)] + SPARE_BLOCKS - 1)

BuildImage ==
    [b \in Blocks |->
        CASE b = 0 -> Superblock(Len(Files), Start[Len(Files)])
          [] b = DIR_BLOCK ->
                Directory([i \in 0 .. (DIRENTS_PER_BLOCK - 1) |->
                    IF i < Len(Files)
                    THEN DirEntry(Files[i + 1].id, Start[i], Files[i + 1].len)
                    ELSE NoEntry])
          [] \E i \in 1 .. Len(Files) : b = Start[i - 1] ->
                LET i == CHOOSE i \in 1 .. Len(Files) : b = Start[i - 1]
                IN  Entry(Files[i].id, Files[i].cause, 0, FALSE)
          [] OTHER -> Free]

(* What decoding a block yields when it is not what the reader expects.    *)
Entries(b) == IF b.kind = "dir" THEN b.ents ELSE [i \in 0 .. (DIRENTS_PER_BLOCK - 1) |-> NoEntry]

(***************************************************************************)
(* Boot: memory as the kernel finds it.  The loader releases the patients  *)
(* at once when there is no disk, and then there is neither a server nor a *)
(* writer.                                                                 *)
(***************************************************************************)
HasBlk == device # "absent"
LdrStart(hasBlk) ==
    [pc |-> IF hasBlk THEN "sb" ELSE "release", entries |-> 0,
     dir |-> Nil, i |-> 0, j |-> 0, head |-> Nil]
WtrIdle(pc) == [pc |-> pc, tok |-> Nil, id |-> 0, sb |-> Nil, dir |-> Nil,
                slot |-> 0, seen |-> 0, escalated |-> FALSE, block |-> Nil]
WtrStart(hasBlk) == WtrIdle(IF hasBlk THEN "take" ELSE "absent")
UngatedPatients == [p \in Patients |-> "up"]
BootPatients == [p \in Patients |-> "start"]

SrvStart(hasBlk) == IF hasBlk THEN "free" ELSE "absent"

Init ==
    /\ disk = BuildImage
    /\ page = Free /\ cached = Nil /\ req = [c \in Clients |-> Nil]
    /\ call = [c \in Clients |-> "none"]
    /\ device \in Devices
    /\ server = SrvStart(HasBlk) /\ ldr = LdrStart(HasBlk) /\ wtr = WtrStart(HasBlk)
    /\ table = <<>> /\ novel = Nil
    /\ patient = BootPatients /\ restarts = [p \in Patients |-> 0]
    /\ boots = 1

PowerLoss ==
    /\ boots < MaxBoots
    /\ boots' = boots + 1
    /\ page' = Free /\ cached' = Nil /\ req' = [c \in Clients |-> Nil]
    /\ call' = [c \in Clients |-> "none"]
    /\ device' \in Devices
    /\ server' = SrvStart(HasBlk') /\ ldr' = LdrStart(HasBlk') /\ wtr' = WtrStart(HasBlk')
    /\ table' = <<>> /\ novel' = Nil
    /\ patient' = BootPatients /\ restarts' = [p \in Patients |-> 0]
    /\ UNCHANGED disk

(***************************************************************************)
(* call_message of a kernel task: the first critical section hands the     *)
(* request to a server that waits in recv, or leaves it to be queued; the  *)
(* second one parks the caller.  A reply goes only to a caller that is     *)
(* parked: one that comes earlier is dropped.                              *)
(***************************************************************************)
CallAt(c, st) == call' = [call EXCEPT ![c] = st]

Park(c) ==
    /\ call[c] \in {"handed", "queued"}
    /\ CallAt(c, IF call[c] = "handed" THEN "awaiting" ELSE "blocked")
    /\ UNCHANGED <<disk, ioVars, server, ldr, wtr, healVars, patientVars, bootVars>>

Reply(c) == IF call[c] = "awaiting" THEN CallAt(c, "returned") ELSE UNCHANGED call

CallBlk(c) ==
    /\ call[c] = "none"
    /\ IF server = "recv"
       THEN server' = c /\ CallAt(c, "handed")
       ELSE CallAt(c, "queued") /\ UNCHANGED server

(***************************************************************************)
(* fs_read_block and fs_write_block: a call to the block server, unless    *)
(* the block asked for is the one the page holds.  The caller reads the    *)
(* page only when it runs again.                                           *)
(***************************************************************************)
Request(op, n) == [op |-> op, blk |-> n, st |-> "sent"]

FsReadIssue(c, n) ==
    /\ req[c] = Nil /\ cached # n
    /\ CallBlk(c)
    /\ req' = [req EXCEPT ![c] = Request("read", n)]
    /\ UNCHANGED <<page, cached>>

Answered(c, n) ==
    IF req[c] = Nil THEN cached = n ELSE req[c].st # "sent" /\ call[c] = "returned"
Result(c) == IF req[c] # Nil /\ req[c].st = "error" THEN Failed ELSE page

FsReadDone(c, n) ==
    /\ Answered(c, n)
    /\ cached' = IF Result(c) = Failed THEN Nil ELSE n
    /\ req' = [req EXCEPT ![c] = Nil]
    /\ CallAt(c, "none")
    /\ UNCHANGED <<page, server>>

FsWriteIssueKeepsCache(c, n, b) ==
    /\ req[c] = Nil
    /\ page' = b
    /\ UNCHANGED cached
    /\ CallBlk(c)
    /\ req' = [req EXCEPT ![c] = Request("write", n)]

(* The outgoing bytes go into the page the reads use, so the page no       *)
(* longer holds a cached read.                                             *)
FsWriteIssue(c, n, b) ==
    /\ req[c] = Nil
    /\ page' = b
    /\ cached' = Nil
    /\ CallBlk(c)
    /\ req' = [req EXCEPT ![c] = Request("write", n)]

FsWriteDone(c) ==
    /\ req[c] # Nil /\ req[c].st # "sent" /\ call[c] = "returned"
    /\ req' = [req EXCEPT ![c] = Nil]
    /\ CallAt(c, "none")
    /\ UNCHANGED <<page, cached, server>>

(* The block server: recv takes the first client queued on its endpoint or *)
(* waits.  The loader has the lower slot; at the gate it has no request.   *)
QueuedCalls == {c \in Clients : call[c] = "blocked" /\ req[c] # Nil}

ServerRecv ==
    /\ server = "free"
    /\ \/ QueuedCalls = {} /\ server' = "recv" /\ UNCHANGED call
       \/ \E c \in QueuedCalls :
            /\ c = "loader" \/ "loader" \notin QueuedCalls
            /\ server' = c /\ CallAt(c, "awaiting")
    /\ UNCHANGED <<disk, ioVars, ldr, wtr, healVars, patientVars, bootVars>>

(* It serves one request at a time, and replies.  A request past the end   *)
(* of the device fails; a failed write may or may not have reached the     *)
(* medium.  One block is written as a whole.                               *)
Serve(c) ==
    /\ server = c /\ req[c] # Nil /\ req[c].st = "sent"
    /\ LET n == req[c].blk IN
       \/ /\ n \in Blocks
          /\ req' = [req EXCEPT ![c].st = "ok"]
          /\ IF req[c].op = "read"
             THEN page' = disk[n] /\ UNCHANGED disk
             ELSE disk' = [disk EXCEPT ![n] = page] /\ UNCHANGED page
       \/ /\ device = "failing" \/ n \notin Blocks
          /\ req' = [req EXCEPT ![c].st = "error"]
          /\ \/ UNCHANGED disk
             \/ n \in Blocks /\ req[c].op = "write" /\ disk' = [disk EXCEPT ![n] = page]
          /\ UNCHANGED page
    /\ server' = "free" /\ Reply(c)
    /\ UNCHANGED <<cached, ldr, wtr, healVars, patientVars, bootVars>>

(***************************************************************************)
(* heal.rs: the table and the novel-cause mailbox.                         *)
(***************************************************************************)
Issue(i, c, s, e, b) ==
    [id |-> i, cause |-> c, seen |-> s, escalated |-> e, start |-> b, dirty |-> FALSE]

Install(t, issue) == IF Len(t) < MAX_ISSUES THEN Append(t, issue) ELSE t

First(S) == IF S = {} THEN 0 ELSE CHOOSE k \in S : \A l \in S : k <= l
MatchIssue(c) == First({k \in DOMAIN table : c # NoToken /\ table[k].cause = c})
WithId(i) == First({k \in DOMAIN table : table[k].id = i})

NoteDiagnosisUnlatched(k) ==
    LET seen == table[k].seen + 1
    IN  [table EXCEPT ![k] = [table[k] EXCEPT !.seen = seen, !.dirty = TRUE,
                                              !.escalated = seen = ESCALATE_AT]]

NoteDiagnosis(k) ==
    LET seen == table[k].seen + 1
    IN  [table EXCEPT ![k] = [table[k] EXCEPT !.seen = seen, !.dirty = TRUE,
                                              !.escalated = table[k].escalated \/ seen >= ESCALATE_AT]]

NoteUnmatched(c) == IF novel = Nil /\ c # NoToken THEN c ELSE novel

MaxKbNumber ==
    LET ids == {0} \cup {table[k].id : k \in DOMAIN table}
    IN  CHOOSE m \in ids : \A n \in ids : n <= m

(***************************************************************************)
(* The crash path: diagnose, count or latch, and notify the healer unless  *)
(* the issue is chronic.  A crash that does not find the healer in recv is *)
(* left down.                                                              *)
(***************************************************************************)
Notify(p, quarantined) ==
    \/ p \in Restartable /\ ~quarantined /\ patient' = [patient EXCEPT ![p] = "healing"]
    \/ patient' = [patient EXCEPT ![p] = "down"]

Crash(p) ==
    /\ patient[p] = "up"
    /\ LET d == MatchIssue(Cause[p]) IN
       \/ /\ d # 0
          /\ table' = NoteDiagnosis(WithId(table[d].id))
          /\ Notify(p, table'[d].escalated)
          /\ UNCHANGED novel
       \/ /\ d = 0
          /\ novel' = NoteUnmatched(Cause[p])
          /\ Notify(p, FALSE)
          /\ UNCHANGED table
    /\ UNCHANGED <<disk, ioVars, callVars, ldr, wtr, restarts, bootVars>>

(* The healer's restart, bounded per boot.                                 *)
Heal(p) ==
    /\ patient[p] = "healing"
    /\ IF restarts[p] < MAX_RESTARTS
       THEN /\ patient' = [patient EXCEPT ![p] = "up"]
            /\ restarts' = [restarts EXCEPT ![p] = @ + 1]
       ELSE /\ patient' = [patient EXCEPT ![p] = "down"]
            /\ UNCHANGED restarts
    /\ UNCHANGED <<disk, ioVars, callVars, ldr, wtr, healVars, bootVars>>

(***************************************************************************)
(* The loader.  Any failed read before the scan ends the load; a failed    *)
(* read of an entry skips it.  Only then are the patients released.        *)
(***************************************************************************)
LoaderEntry == ldr.dir[ldr.i]
LoaderBlock ==
    CASE ldr.pc = "sb" -> 0
      [] ldr.pc = "dir" -> DIR_BLOCK
      [] ldr.pc = "head" -> LoaderEntry.start + ldr.j

LoaderReads ==
    \/ ldr.pc \in {"sb", "dir"}
    \/ ldr.pc = "head" /\ ldr.i < Min2(ldr.entries, DIRENTS_PER_BLOCK)

LoaderIssue ==
    /\ LoaderReads
    /\ FsReadIssue("loader", LoaderBlock)
    /\ UNCHANGED <<disk, ldr, wtr, healVars, patientVars, bootVars>>

LoaderSuperblock ==
    /\ ldr.pc = "sb"
    /\ FsReadDone("loader", LoaderBlock)
    /\ LET b == Result("loader") IN
       ldr' = IF b # Failed /\ b.kind = "sb"
              THEN [ldr EXCEPT !.pc = "dir", !.entries = b.entries]
              ELSE [ldr EXCEPT !.pc = "release"]
    /\ UNCHANGED <<disk, wtr, healVars, patientVars, bootVars>>

LoaderDirectory ==
    /\ ldr.pc = "dir"
    /\ FsReadDone("loader", LoaderBlock)
    /\ LET b == Result("loader") IN
       ldr' = IF b # Failed
              THEN [ldr EXCEPT !.pc = "head", !.dir = Entries(b)]
              ELSE [ldr EXCEPT !.pc = "release"]
    /\ UNCHANGED <<disk, wtr, healVars, patientVars, bootVars>>

(* fs_read_extent_head reads up to KB_HEAD_BLOCKS blocks; the fields sit   *)
(* in the first.  The entry is installed when it parses and has a token.   *)
LoaderHead ==
    /\ ldr.pc = "head" /\ LoaderReads
    /\ FsReadDone("loader", LoaderBlock)
    /\ LET b == Result("loader")
           head == IF ldr.j = 0 THEN b ELSE ldr.head
           last == ldr.j + 1 >= Min2(LoaderEntry.len, KB_HEAD_BLOCKS)
       IN  /\ ldr' = IF b # Failed /\ ~last
                     THEN [ldr EXCEPT !.j = @ + 1, !.head = head]
                     ELSE [ldr EXCEPT !.i = @ + 1, !.j = 0, !.head = Nil]
           /\ table' = IF b # Failed /\ last /\ head.kind = "kb" /\ head.cause # NoToken
                       THEN Install(table, Issue(head.id, head.cause, head.seen,
                                                 head.escalated, LoaderEntry.start))
                       ELSE table
    /\ UNCHANGED <<disk, wtr, novel, patientVars, bootVars>>

LoaderScanned ==
    /\ ldr.pc = "head" /\ ~LoaderReads
    /\ ldr' = [ldr EXCEPT !.pc = "release", !.dir = Nil, !.i = 0]
    /\ UNCHANGED <<disk, ioVars, callVars, wtr, healVars, patientVars, bootVars>>

(* The loader calls the gate endpoint once for each patient and is done.   *)
(* A call is received by a patient that waits there, or queued; a patient  *)
(* receives, replies and goes on.  find_blocked takes the lowest slot, and *)
(* the patients may have been given theirs in any order.                   *)
Gated == {"start", "recv"}
GateCallsShort == Cardinality(Patients) - 1
GateCalls == Cardinality(Patients)
AtGate == ldr.pc = "release"

CallGate ==
    /\ AtGate /\ call["loader"] \in {"none", "returned"}
    /\ Cardinality({p \in Patients : patient[p] \notin Gated}) < GateCalls
    /\ \/ /\ \A p \in Patients : patient[p] # "recv"
          /\ CallAt("loader", "queued") /\ UNCHANGED patient
       \/ \E p \in Patients :
            /\ patient[p] = "recv"
            /\ patient' = [patient EXCEPT ![p] = "reply"] /\ CallAt("loader", "handed")
    /\ UNCHANGED <<disk, ioVars, server, ldr, wtr, healVars, restarts, bootVars>>

GateRecv(p) ==
    /\ patient[p] = "start"
    /\ IF AtGate /\ call["loader"] = "blocked"
       THEN patient' = [patient EXCEPT ![p] = "reply"] /\ CallAt("loader", "awaiting")
       ELSE patient' = [patient EXCEPT ![p] = "recv"] /\ UNCHANGED call
    /\ UNCHANGED <<disk, ioVars, server, ldr, wtr, healVars, restarts, bootVars>>

GateReply(p) ==
    /\ patient[p] = "reply"
    /\ patient' = [patient EXCEPT ![p] = "up"] /\ Reply("loader")
    /\ UNCHANGED <<disk, ioVars, server, ldr, wtr, healVars, restarts, bootVars>>

(***************************************************************************)
(* The writer.  take_novel reads the mailbox and then clears it, with      *)
(* interrupts enabled.                                                     *)
(***************************************************************************)
TakeNovelRead ==
    /\ wtr.pc = "take"
    /\ wtr' = [wtr EXCEPT !.pc = "clear", !.tok = novel]
    /\ UNCHANGED <<disk, ioVars, callVars, ldr, healVars, patientVars, bootVars>>

TakeNovelClear ==
    /\ wtr.pc = "clear"
    /\ novel' = Nil
    /\ wtr' = IF wtr.tok = Nil
              THEN WtrIdle("dirty")
              ELSE [wtr EXCEPT !.pc = "sb", !.id = (MaxKbNumber + 1) % KB_NUMBERS]
    /\ UNCHANGED <<disk, ioVars, callVars, ldr, table, patientVars, bootVars>>

(* fs_append_file.                                                         *)
WriterReadBlock ==
    CASE wtr.pc = "sb" -> 0
      [] wtr.pc = "dir" -> DIR_BLOCK
      [] wtr.pc = "entry" -> table[wtr.slot].start

WriterReadIssue ==
    /\ wtr.pc \in {"sb", "dir", "entry"}
    /\ FsReadIssue("writer", WriterReadBlock)
    /\ UNCHANGED <<disk, ldr, wtr, healVars, patientVars, bootVars>>

AppendSuperblock ==
    /\ wtr.pc = "sb"
    /\ FsReadDone("writer", WriterReadBlock)
    /\ LET b == Result("writer") IN
       wtr' = IF b # Failed /\ b.kind = "sb"
              THEN [wtr EXCEPT !.pc = "dir", !.sb = b]
              ELSE WtrIdle("dirty")
    /\ UNCHANGED <<disk, ldr, healVars, patientVars, bootVars>>

(* append_plan refuses when the one directory block is full.               *)
AppendDirectory ==
    /\ wtr.pc = "dir"
    /\ FsReadDone("writer", WriterReadBlock)
    /\ LET b == Result("writer") IN
       wtr' = IF b # Failed /\ wtr.sb.entries < DIRENTS_PER_BLOCK
              THEN [wtr EXCEPT !.pc = "wdata", !.dir = Entries(b)]
              ELSE WtrIdle("dirty")
    /\ UNCHANGED <<disk, ldr, healVars, patientVars, bootVars>>

(* The new file takes one block at the end of the volume.                  *)
PlanDirectoryOverLast ==
    Directory([wtr.dir EXCEPT ![wtr.sb.entries - 1] = DirEntry(wtr.id, wtr.sb.total, 1)])
PlanDirectory ==
    Directory([wtr.dir EXCEPT ![wtr.sb.entries] = DirEntry(wtr.id, wtr.sb.total, 1)])
PlanSuperblock == Superblock(wtr.sb.entries + 1, wtr.sb.total + 1)

WriterTarget ==
    CASE wtr.pc = "wdata" -> wtr.sb.total
      [] wtr.pc = "wdir" -> DIR_BLOCK
      [] wtr.pc = "wsb" -> 0
      [] wtr.pc = "wentry" -> table[wtr.slot].start
Outgoing ==
    CASE wtr.pc = "wdata" -> Entry(wtr.id, wtr.tok, 0, FALSE)
      [] wtr.pc = "wdir" -> PlanDirectory
      [] wtr.pc = "wsb" -> PlanSuperblock
      [] wtr.pc = "wentry" -> wtr.block

WriterWriteIssue ==
    /\ wtr.pc \in {"wdata", "wdir", "wsb", "wentry"}
    /\ FsWriteIssue("writer", WriterTarget, Outgoing)
    /\ UNCHANGED <<disk, ldr, wtr, healVars, patientVars, bootVars>>

(* Data, then directory, then the superblock, which commits.               *)
SuperblockBeforeDirectory(pc) ==
    CASE pc = "wdata" -> "wsb" [] pc = "wsb" -> "wdir" [] OTHER -> "dirty"
AppendOrder(pc) ==
    CASE pc = "wdata" -> "wdir" [] pc = "wdir" -> "wsb" [] OTHER -> "dirty"

AppendWritten ==
    /\ wtr.pc \in {"wdata", "wdir", "wsb"}
    /\ FsWriteDone("writer")
    /\ LET next == AppendOrder(wtr.pc) IN
       IF req["writer"].st = "ok" /\ next # "dirty"
       THEN wtr' = [wtr EXCEPT !.pc = next] /\ UNCHANGED table
       ELSE /\ wtr' = WtrIdle("dirty")
            /\ table' = IF req["writer"].st = "ok"
                        THEN Install(table, Issue(wtr.id, wtr.tok, 0, FALSE, wtr.sb.total))
                        ELSE table
    /\ UNCHANGED <<disk, ldr, novel, patientVars, bootVars>>

(* dirty_entry clears the flag before anything is written; the counter and *)
(* the flag it returns are read one after the other.                       *)
DirtySlot == First({k \in DOMAIN table : table[k].dirty})

DirtyEntrySkips ==
    /\ wtr.pc = "dirty"
    /\ wtr' = WtrIdle("take")
    /\ table' = [k \in DOMAIN table |-> [table[k] EXCEPT !.dirty = FALSE]]
    /\ UNCHANGED <<disk, ioVars, callVars, ldr, novel, patientVars, bootVars>>

DirtyEntry ==
    /\ wtr.pc = "dirty"
    /\ IF DirtySlot = 0
       THEN wtr' = WtrIdle("take") /\ UNCHANGED table
       ELSE /\ table' = [table EXCEPT ![DirtySlot].dirty = FALSE]
            /\ wtr' = [wtr EXCEPT !.pc = "flag", !.slot = DirtySlot,
                                  !.seen = table[DirtySlot].seen]
    /\ UNCHANGED <<disk, ioVars, callVars, ldr, novel, patientVars, bootVars>>

DirtyFlag ==
    /\ wtr.pc = "flag"
    /\ wtr' = [wtr EXCEPT !.pc = "entry", !.escalated = table[wtr.slot].escalated]
    /\ UNCHANGED <<disk, ioVars, callVars, ldr, healVars, patientVars, bootVars>>

(* The in-place update of the two fixed-width fields.                      *)
SetUncapped(b) == [b EXCEPT !.seen = wtr.seen, !.escalated = wtr.escalated]
SetInBlock(b) == [b EXCEPT !.seen = Min2(wtr.seen, SEEN_MAX), !.escalated = wtr.escalated]

PersistRead ==
    /\ wtr.pc = "entry"
    /\ FsReadDone("writer", WriterReadBlock)
    /\ LET b == Result("writer") IN
       wtr' = IF b # Failed /\ b.kind = "kb"
              THEN [wtr EXCEPT !.pc = "wentry", !.block = SetInBlock(b)]
              ELSE WtrIdle("dirty")
    /\ UNCHANGED <<disk, ldr, healVars, patientVars, bootVars>>

PersistWritten ==
    /\ wtr.pc = "wentry"
    /\ FsWriteDone("writer")
    /\ wtr' = WtrIdle("dirty")
    /\ UNCHANGED <<disk, ldr, healVars, patientVars, bootVars>>

(***************************************************************************)
(* Specification.  Both tasks, the server, the patients and the healer are *)
(* scheduled round-robin, so each keeps running while the power lasts as   *)
(* long as it has a step to take; a caller that is parked has none.        *)
(***************************************************************************)
Loader ==
    \/ LoaderIssue \/ LoaderSuperblock \/ LoaderDirectory \/ LoaderHead
    \/ LoaderScanned \/ CallGate \/ Park("loader")
Writer ==
    \/ TakeNovelRead \/ TakeNovelClear \/ WriterReadIssue \/ AppendSuperblock
    \/ AppendDirectory \/ WriterWriteIssue \/ AppendWritten
    \/ DirtyEntry \/ DirtyFlag \/ PersistRead \/ PersistWritten \/ Park("writer")
Server == ServerRecv \/ \E c \in Clients : Serve(c)
Patient(p) == GateRecv(p) \/ GateReply(p)

Next ==
    \/ Loader \/ Writer \/ Server
    \/ \E p \in Patients : Patient(p) \/ Crash(p) \/ Heal(p)
    \/ PowerLoss

Spec == Init /\ [][Next]_vars

Fairness ==
    /\ WF_vars(Loader) /\ WF_vars(Writer) /\ WF_vars(Server)
    /\ \A p \in Patients : WF_vars(Patient(p)) /\ WF_vars(Heal(p))

FairSpec == Spec /\ Fairness

(***************************************************************************)
(* Properties.                                                             *)
(***************************************************************************)
Committed == 0 .. (disk[0].entries - 1)
DirOf(i) == disk[DIR_BLOCK].ents[i]
RecordOf(i) == disk[DirOf(i).start]

(* Whatever is lost when power fails or a write reports an error, every    *)
(* entry the superblock counts is an entry of the directory whose extent   *)
(* lies inside the volume, overlaps no other and starts with a record of   *)
(* that name (fs_append_file: superblock last) whose counter fits the      *)
(* digits of its field (set_seen_in_block).                                *)
VolumeSound ==
    /\ disk[0].kind = "sb" /\ disk[DIR_BLOCK].kind = "dir"
    /\ \A i \in Committed :
        /\ DirOf(i).start >= DATA_START_BLOCK
        /\ DirOf(i).start + DirOf(i).len <= disk[0].total
        /\ RecordOf(i).kind = "kb" /\ RecordOf(i).id = DirOf(i).name
        /\ RecordOf(i).seen <= SEEN_MAX
        /\ \A j \in Committed : j < i => DirOf(j).start + DirOf(j).len <= DirOf(i).start

(* No step un-commits an entry, moves it, changes what it is about, lets   *)
(* its counter go back or takes back an escalation: the in-place updates   *)
(* and the appends never damage what an earlier boot wrote.                *)
CommittedStays ==
    [][/\ disk'[0].entries >= disk[0].entries
       /\ \A i \in Committed :
            /\ DirOf(i)' = DirOf(i)
            /\ RecordOf(i)'.cause = RecordOf(i).cause
            /\ RecordOf(i)'.seen >= RecordOf(i).seen
            /\ RecordOf(i).escalated => RecordOf(i)'.escalated]_disk

(* While a write is outstanding the DMA page holds exactly the bytes the   *)
(* writer put there: the loader, which shares the page, never reads into   *)
(* it meanwhile (patients are gated on the load).                          *)
OutgoingIntact ==
    (req["writer"] # Nil /\ req["writer"].op = "write") => page = Outgoing

(* When no request is outstanding, the page holds what the disk holds in   *)
(* the block FS_CACHED_BLOCK names: a cached read is never stale.          *)
CacheCoherent ==
    ((\A c \in Clients : req[c] = Nil) /\ cached # Nil) => page = disk[cached]

(* A component that crashes with an issue the disk already knows to be     *)
(* chronic is not handed to the healer, not even in a later boot, unless   *)
(* this boot had no disk or one that may have failed the loader's reads    *)
(* (note_diagnosis, and the counters the writer stores and the loader      *)
(* reads back).                                                            *)
QuarantineSurvivesReboot ==
    [][\A p \in Patients :
        (device = "sound" /\ patient[p] = "up" /\ patient'[p] = "healing")
            => ~\E i \in Committed : RecordOf(i).cause = Cause[p] /\ RecordOf(i).escalated]_vars

(* A client is caught in the window of call_message when the reply came    *)
(* before it was parked, or when the other side began to receive between   *)
(* its decision and its park: nobody is left to wake it.                   *)
BlkStuck(c) ==
    /\ req[c] # Nil
    /\ \/ call[c] = "awaiting" /\ server # c
       \/ call[c] = "blocked" /\ server = "recv"
GateStuck ==
    /\ AtGate
    /\ \/ call["loader"] = "awaiting" /\ \A p \in Patients : patient[p] # "reply"
       \/ call["loader"] = "blocked" /\ \A p \in Patients : patient[p] # "start"
LoaderStuck == BlkStuck("loader") \/ GateStuck

(* The loader releases every patient, with or without a disk and whatever  *)
(* the device reports on the way (kb_loader_task), unless the loader is    *)
(* caught for ever in the window of one of its calls.                      *)
PatientsReleased ==
    \A p \in Patients : []<>(patient[p] \notin Gated) \/ <>[]LoaderStuck

(* A changed counter reaches the disk, however the crashes come and        *)
(* whatever else the writer has to do (dirty_entry), unless power is lost, *)
(* the device fails the read or the write of that entry, or the writer is  *)
(* caught in the window of a call.                                         *)
IsDirty(k) == k \in DOMAIN table /\ table[k].dirty
OnDisk(k) == k \in DOMAIN table /\ disk[table[k].start].seen = Min2(table[k].seen, SEEN_MAX)
PersistFails(k) ==
    wtr.slot = k /\ wtr.pc \in {"entry", "wentry"} /\ req["writer"] # Nil /\ req["writer"].st = "error"
CountsReachDisk ==
    \A k \in 1 .. MAX_ISSUES : \A b \in 1 .. MaxBoots :
        [](IsDirty(k) /\ boots = b
            => <>(boots # b \/ OnDisk(k) \/ PersistFails(k) \/ BlkStuck("writer")))

(* A novel crash whose token is latched, or could be, is recorded as long  *)
(* as there is room for it, the power lasts and the writer is not caught   *)
(* in the window of a call (note_unmatched).                               *)
NovelRecorded ==
    \A p \in Patients : \A b \in 1 .. MaxBoots :
        [](Cause[p] # NoToken /\ patient[p] = "down" /\ boots = b
            => <>(boots # b \/ BlkStuck("writer") \/ \E i \in Committed : RecordOf(i).cause = Cause[p]))
=============================================================================
