------------------------------ MODULE Memory -------------------------------
(***************************************************************************)
(* Physical frames and Sv39 page tables: the bitmap allocator, map_page's  *)
(* walk through tables that live in the frames it allocates, the master    *)
(* table mem::init builds, the allocator probe of kmain, and the address   *)
(* space of each component.  Addresses are page numbers; everything is     *)
(* identity-mapped.  A step is one level of one map_page; boot runs on one *)
(* hart with interrupts off, in any order of components.                   *)
(***************************************************************************)
EXTENDS Naturals, Sequences, FiniteSets

CONSTANTS
    RADIX,                  \* entries of a table
    RamBase, NumFrames,     \* the frames the allocator manages
    KernelRanges,           \* map_kernel_sections: ranges in mapping order
    UserText,               \* the range of .user_text
    Components, Virtio,     \* user components; those with MMIO and a DMA frame
    Stack, Device,          \* the stack and the device range of each
    Master,
    Garbage,                \* what a frame may hold before it is zeroed
    Nil

Frames == RamBase .. (RamBase + NumFrames - 1)
Spaces == Components \cup {Master}
Pages == 0 .. (RADIX * RADIX * RADIX - 1)
Indices == 0 .. (RADIX - 1)
Flags == {"R", "W", "X", "U", "G", "A", "D"}
Ptes == [ppn : Pages, flags : SUBSET Flags]
Tables == [Indices -> Ptes \cup {Nil}]
Ranges == [from : Nat, to : Nat, flags : SUBSET Flags]

ASSUME MemoryAssumption ==
    /\ RADIX \in Nat \ {0} /\ RamBase \in Nat /\ NumFrames \in Nat \ {0}
    /\ RamBase + NumFrames <= RADIX * RADIX * RADIX
    /\ KernelRanges \in Seq(Ranges) /\ UserText \in Ranges
    /\ Virtio \subseteq Components /\ Master \notin Components
    /\ Stack \in [Components -> Ranges] /\ Device \in [Components -> Ranges]
    /\ Garbage \in Tables
    /\ Nil \notin Ptes /\ Nil \notin Pages /\ Nil \notin Spaces
    /\ Nil \notin [level : 0 .. 2, table : Frames] /\ Nil \notin [Pages -> Ptes \cup {Nil}]

(* The memory map: kernel.ld lays out the kernel, the user text and the    *)
(* stacks one after the other, RAM for the allocator starts where they     *)
(* end, and registers are outside RAM; no page belongs to two ranges of a  *)
(* space.  The kernel's own ranges are not for user mode and W^X.          *)
PageRange(a, b, fl) == [from |-> a, to |-> b, flags |-> fl]
Ram == PageRange(RamBase, RamBase + NumFrames, {"R", "W", "G"})
Covers(r, v) == r.from <= v /\ v < r.to
Apart(r, q) == \A v \in Pages : ~(Covers(r, v) /\ Covers(q, v))
InMemory(r) == r.to <= RADIX * RADIX * RADIX

ASSUME LayoutAssumption ==
    /\ \A k \in DOMAIN KernelRanges :
          /\ InMemory(KernelRanges[k]) /\ Apart(KernelRanges[k], Ram)
          /\ "U" \notin KernelRanges[k].flags /\ ~({"W", "X"} \subseteq KernelRanges[k].flags)
          /\ \A l \in DOMAIN KernelRanges : l # k => Apart(KernelRanges[k], KernelRanges[l])
    /\ \A c \in Components : \A r \in {UserText, Stack[c], Device[c]} :
          /\ InMemory(r) /\ Apart(r, Ram)
          /\ \A k \in DOMAIN KernelRanges : Apart(r, KernelRanges[k])
    /\ \A c \in Components : /\ Apart(UserText, Stack[c]) /\ Apart(UserText, Device[c])
                            /\ Apart(Stack[c], Device[c])

VARIABLES
    bitmap, free,           \* the allocator: allocated frames, free counter
    mem,                    \* the contents of every frame, as a page table
    root, dma,              \* the root table and the DMA frame of each space
    building, todo, walk,   \* the space under construction, the ranges left,
                            \* and the table map_page has reached
    phase, scratch,         \* where kmain is, and the frame of its probe
    panic

allocVars == <<bitmap, free>>
bootVars == <<phase, scratch>>
vars == <<bitmap, free, mem, root, dma, building, todo, walk, phase, scratch, panic>>

ZeroTable == [i \in Indices |-> Nil]
Pte(p, fl) == [ppn |-> p, flags |-> fl]
Vpn(v, level) ==
    CASE level = 2 -> v \div (RADIX * RADIX)
      [] level = 1 -> (v \div RADIX) % RADIX
      [] level = 0 -> v % RADIX

Init ==
    /\ bitmap = [f \in Frames |-> FALSE] /\ free = NumFrames
    /\ mem = [f \in Frames |-> Garbage]
    /\ root = [s \in Spaces |-> Nil] /\ dma = [c \in Components |-> Nil]
    /\ building = Nil /\ todo = <<>> /\ walk = Nil
    /\ phase = "master" /\ scratch = Nil /\ panic = Nil

(***************************************************************************)
(* The allocator: first fit, and every frame it hands out is zeroed.       *)
(***************************************************************************)
FreeFrames == {f \in Frames : ~bitmap[f]}
LowestFree == CHOOSE f \in FreeFrames : \A g \in FreeFrames : f <= g

TakeUnmarked(f) ==
    /\ UNCHANGED bitmap
    /\ free' = free - 1
Take(f) ==
    /\ bitmap' = [bitmap EXCEPT ![f] = TRUE]
    /\ free' = free - 1

KeepContents(f) == mem[f]
Zeroed(f) == ZeroTable

FreeFrame(f) ==
    /\ bitmap' = [bitmap EXCEPT ![f] = FALSE]
    /\ free' = free + 1

Panic(why) ==
    /\ panic' = why
    /\ UNCHANGED <<allocVars, mem, root, dma, building, todo, walk, bootVars>>

(***************************************************************************)
(* Starting a space: a root table and the ranges it will map, in the order *)
(* of mem::init, build_user_space and build_virtio_space.                  *)
(***************************************************************************)
UserRanges(c) ==
    <<PageRange(UserText.from, UserText.to, {"R", "X", "U"}),
      PageRange(Stack[c].from, Stack[c].to, {"R", "W", "U"})>>
DeviceRanges(c) ==
    IF c \in Virtio
    THEN <<PageRange(Device[c].from, Device[c].to, {"R", "W", "U"}),
           PageRange(dma[c], dma[c] + 1, {"R", "W", "U"})>>
    ELSE <<PageRange(Device[c].from, Device[c].to, {"R", "U"})>>
RangesOf(s) ==
    KernelRanges \o
        (IF s = Master
         THEN <<Ram>>
         ELSE UserRanges(s) \o DeviceRanges(s))

Begin(s) ==
    /\ panic = Nil /\ building = Nil /\ root[s] = Nil
    /\ \/ s = Master /\ phase = "master"
       \/ s \in Components /\ phase = "spawn" /\ (s \in Virtio => dma[s] # Nil)
    /\ IF FreeFrames = {} THEN Panic("no_frame")
       ELSE /\ Take(LowestFree)
            /\ mem' = [mem EXCEPT ![LowestFree] = Zeroed(LowestFree)]
            /\ root' = [root EXCEPT ![s] = LowestFree]
            /\ building' = s
            /\ todo' = RangesOf(s)
            /\ UNCHANGED <<dma, walk, bootVars, panic>>

(* The DMA frame of a virtio component, taken before its space is built.   *)
AllocDma(c) ==
    /\ panic = Nil /\ building = Nil /\ phase = "spawn"
    /\ c \in Virtio /\ dma[c] = Nil
    /\ IF FreeFrames = {} THEN Panic("no_frame")
       ELSE /\ Take(LowestFree)
            /\ mem' = [mem EXCEPT ![LowestFree] = Zeroed(LowestFree)]
            /\ dma' = [dma EXCEPT ![c] = LowestFree]
            /\ UNCHANGED <<root, building, todo, walk, bootVars, panic>>

(***************************************************************************)
(* map_range and map_page.                                                 *)
(***************************************************************************)
Va == Head(todo).from
MoreInclusive(r) == r.from <= r.to
MoreShort(r) == r.from + 1 < r.to
More(r) == r.from < r.to

(* A range that is used up, or empty from the start.                       *)
RangeDone ==
    /\ panic = Nil /\ building # Nil /\ todo # <<>> /\ walk = Nil
    /\ ~More(Head(todo))
    /\ todo' = Tail(todo)
    /\ UNCHANGED <<allocVars, mem, root, dma, building, walk, bootVars, panic>>

MapPageStart ==
    /\ panic = Nil /\ building # Nil /\ todo # <<>> /\ walk = Nil
    /\ More(Head(todo))
    /\ walk' = [level |-> 2, table |-> root[building]]
    /\ UNCHANGED <<allocVars, mem, root, dma, building, todo, bootVars, panic>>

(* One level down, through a table that is there or a new one.             *)
MapPageDown ==
    /\ panic = Nil /\ walk # Nil /\ walk.level > 0
    /\ LET i == Vpn(Va, walk.level)
           pte == mem[walk.table][i]
       IN  \/ /\ pte # Nil
              /\ walk' = [level |-> walk.level - 1, table |-> pte.ppn]
              /\ UNCHANGED <<allocVars, mem, root, dma, building, todo, bootVars, panic>>
           \/ /\ pte = Nil /\ FreeFrames # {}
              /\ Take(LowestFree)
              /\ mem' = [mem EXCEPT ![LowestFree] = Zeroed(LowestFree),
                                    ![walk.table] = [@ EXCEPT ![i] = Pte(LowestFree, {})]]
              /\ walk' = [level |-> walk.level - 1, table |-> LowestFree]
              /\ UNCHANGED <<root, dma, building, todo, bootVars, panic>>
           \/ pte = Nil /\ FreeFrames = {} /\ Panic("no_frame")

LeafFlags(fl) == fl \cup {"A"} \cup (IF "W" \in fl THEN {"D"} ELSE {})

MapPageLeaf ==
    /\ panic = Nil /\ walk # Nil /\ walk.level = 0
    /\ LET i == Vpn(Va, 0) IN
       IF mem[walk.table][i] # Nil THEN Panic("remap")
       ELSE /\ mem' = [mem EXCEPT ![walk.table] =
                            [@ EXCEPT ![i] = Pte(Va, LeafFlags(Head(todo).flags))]]
            /\ todo' = <<[Head(todo) EXCEPT !.from = @ + 1]>> \o Tail(todo)
            /\ walk' = Nil
            /\ UNCHANGED <<allocVars, root, dma, building, bootVars, panic>>

(* The space is complete; the master table is put to use before the probe. *)
Built ==
    /\ panic = Nil /\ building # Nil /\ todo = <<>>
    /\ building' = Nil
    /\ phase' = IF building = Master THEN "probe" ELSE phase
    /\ UNCHANGED <<allocVars, mem, root, dma, todo, walk, scratch, panic>>

(***************************************************************************)
(* frame_roundtrip: a frame is taken, written, freed and taken again.      *)
(***************************************************************************)
Probe ==
    /\ panic = Nil /\ building = Nil /\ phase \in {"probe", "reprobe"}
    /\ IF FreeFrames = {} THEN Panic("no_frame")
       ELSE IF phase = "reprobe" /\ LowestFree # scratch THEN Panic("not_recycled")
       ELSE IF Zeroed(LowestFree) # ZeroTable THEN Panic("not_zeroed")
       ELSE /\ Take(LowestFree)
            /\ mem' = [mem EXCEPT ![LowestFree] =
                            IF phase = "probe" THEN Garbage ELSE ZeroTable]
            /\ scratch' = LowestFree
            /\ phase' = IF phase = "probe" THEN "probed" ELSE "reprobed"
            /\ UNCHANGED <<root, dma, building, todo, walk, panic>>

ProbeFree ==
    /\ panic = Nil /\ phase \in {"probed", "reprobed"}
    /\ IF ~bitmap[scratch] THEN Panic("double_free")
       ELSE /\ FreeFrame(scratch)
            /\ phase' = IF phase = "probed" THEN "reprobe" ELSE "spawn"
            /\ scratch' = IF phase = "probed" THEN scratch ELSE Nil
            /\ UNCHANGED <<mem, root, dma, building, todo, walk, panic>>

Next ==
    \/ \E s \in Spaces : Begin(s)
    \/ \E c \in Components : AllocDma(c)
    \/ RangeDone \/ MapPageStart \/ MapPageDown \/ MapPageLeaf \/ Built
    \/ Probe \/ ProbeFree

Spec == Init /\ [][Next]_vars

(***************************************************************************)
(* Properties.  Walk is the translation the hardware performs; Mapped is   *)
(* what the ranges of a space say it should be.                            *)
(***************************************************************************)
Step(t, i) == IF t = Nil THEN Nil ELSE mem[t][i]
Walk(r, v) ==
    LET p2 == Step(r, Vpn(v, 2))
        p1 == IF p2 = Nil THEN Nil ELSE Step(p2.ppn, Vpn(v, 1))
    IN  IF p1 = Nil THEN Nil ELSE Step(p1.ppn, Vpn(v, 0))
View == [s \in Spaces |-> IF root[s] = Nil THEN Nil ELSE [v \in Pages |-> Walk(root[s], v)]]

Mappings == {m \in Ptes : "A" \in m.flags}
Abs == INSTANCE AddressSpaces WITH view <- View

(* The free counter is exactly the number of frames the bitmap has free:   *)
(* alloc and free keep the two in step.                                    *)
FreeExact == free = Cardinality(FreeFrames)

(* The page tables implement the abstract address spaces: one map_page     *)
(* adds one page to one space, and allocating or linking a table changes   *)
(* no translation anywhere.                                                *)
ImplementsAddressSpaces == Abs!Spec

Within(c, v) ==
    \/ Covers(UserText, v) \/ Covers(Stack[c], v) \/ Covers(Device[c], v)
    \/ v = dma[c]

(* A component reaches, in user mode, its own stack, its own device and    *)
(* DMA frame and the shared code, and nothing else; nothing is writable    *)
(* and executable in any space (build_user_space, build_virtio_space).     *)
Isolated ==
    \A s \in Spaces : root[s] # Nil =>
        \A v \in Pages : LET m == Walk(root[s], v) IN m # Nil =>
            /\ m.ppn = v
            /\ ~({"W", "X"} \subseteq m.flags)
            /\ "U" \in m.flags => s # Master /\ Within(s, v)

(* A finished space translates every page of the ranges it was built from: *)
(* no level of map_page overwrites what an earlier call put there, and     *)
(* map_range stops neither short nor past its end.                         *)
Complete ==
    \A s \in Spaces : (root[s] # Nil /\ building # s) =>
        \A k \in DOMAIN RangesOf(s) : \A v \in Pages :
            Covers(RangesOf(s)[k], v) => Walk(root[s], v) # Nil

(* The assertions of map_page, free and frame_roundtrip never fire: a boot *)
(* can only run out of frames.                                             *)
NoAssertionFails == panic \in {Nil, "no_frame"}

=============================================================================
