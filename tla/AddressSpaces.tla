--------------------------- MODULE AddressSpaces ---------------------------
(***************************************************************************)
(* What the page tables promise: every address space is a partial map from *)
(* pages to page frames and permissions.  A space starts empty, grows one  *)
(* page at a time, and a page that is mapped never changes; no operation   *)
(* on one space shows in another.                                          *)
(***************************************************************************)
CONSTANTS Spaces, Pages, Mappings, Nil

VARIABLE view      \* view[s] is Nil, or what each page of s maps to

Init == view = [s \in Spaces |-> Nil]

Create(s) ==
    /\ view[s] = Nil
    /\ view' = [view EXCEPT ![s] = [v \in Pages |-> Nil]]

Map(s, v) ==
    /\ view[s] # Nil /\ view[s][v] = Nil
    /\ view'[s][v] \in Mappings
    /\ view' = [view EXCEPT ![s] = [view[s] EXCEPT ![v] = view'[s][v]]]

Next == \E s \in Spaces : Create(s) \/ \E v \in Pages : Map(s, v)

Spec == Init /\ [][Next]_view
=============================================================================
