----------------------------- MODULE BlockStore ----------------------------
(***************************************************************************)
(* What the kernel's file system relies on when it calls the block server  *)
(* (fs_read_block, fs_write_block): one request is served at a time, as a  *)
(* single step that moves a whole block between the medium and the shared  *)
(* DMA page, and nothing else ever touches either.  KbStore builds on this *)
(* server; Drivers shows that the virtio driver and its device implement   *)
(* it.                                                                     *)
(***************************************************************************)
CONSTANTS
    Clients,        \* the kernel tasks that call the server
    Blocks,         \* the blocks of the device
    BadBlock,       \* a block number past its end
    Contents,       \* what a block can hold
    IoErrors,       \* the device may fail a request
    Nil

VARIABLES
    disk,           \* the medium
    page,           \* the DMA data page, shared by clients and device
    req             \* each client's request

storeVars == <<disk, page, req>>

Request(op, n, st) == [op |-> op, blk |-> n, st |-> st]
Outstanding(c) == req[c] # Nil /\ req[c].st = "sent"

Init ==
    /\ disk \in [Blocks -> Contents] /\ page \in Contents
    /\ req = [c \in Clients |-> Nil]

(* A client that writes first fills the page.  The kernel's callers never  *)
(* let a request meet another client's write (KbStore!OutgoingIntact).     *)
Issue(c, op, n, b) ==
    /\ req[c] = Nil
    /\ \A k \in Clients : req[k] # Nil => op = "read" /\ req[k].op = "read"
    /\ page' = IF op = "write" THEN b ELSE page
    /\ req' = [req EXCEPT ![c] = Request(op, n, "sent")]
    /\ UNCHANGED disk

Answer(c, st) == req' = [req EXCEPT ![c].st = st]

Serve(c) ==
    /\ Outstanding(c)
    /\ LET n == req[c].blk IN
       \/ /\ n \in Blocks /\ Answer(c, "ok")
          /\ IF req[c].op = "read"
             THEN page' = disk[n] /\ UNCHANGED disk
             ELSE disk' = [disk EXCEPT ![n] = page] /\ UNCHANGED page
       \/ /\ IoErrors \/ n \notin Blocks
          /\ Answer(c, "error")
          /\ \/ UNCHANGED disk
             \/ n \in Blocks /\ req[c].op = "write" /\ disk' = [disk EXCEPT ![n] = page]
          /\ UNCHANGED page

(* The client runs again and looks at the status and the page.             *)
Return(c) ==
    /\ req[c] # Nil /\ req[c].st # "sent"
    /\ req' = [req EXCEPT ![c] = Nil]
    /\ UNCHANGED <<disk, page>>

Next ==
    \E c \in Clients :
        \/ \E op \in {"read", "write"}, n \in Blocks \cup {BadBlock}, b \in Contents :
               Issue(c, op, n, b)
        \/ Serve(c) \/ Return(c)

Spec == Init /\ [][Next]_storeVars
=============================================================================
