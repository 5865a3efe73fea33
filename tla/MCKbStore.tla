----------------------------- MODULE MCKbStore -----------------------------
(***************************************************************************)
(* Instances of KbStore.                                                   *)
(***************************************************************************)
EXTENDS KbStore

CONSTANTS flaky, nov, pageFault, illegal

(* The image of the repository: one entry, for page faults, with a number  *)
(* of blocks larger than its head.                                         *)
ImageFiles == <<[id |-> 1, cause |-> pageFault, len |-> 2]>>

(* A patient that keeps faulting on a page and one that executes an        *)
(* illegal instruction.                                                    *)
CauseOf == [p \in Patients |-> IF p = nov THEN illegal ELSE pageFault]
=============================================================================
