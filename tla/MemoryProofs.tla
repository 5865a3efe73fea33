--------------------------- MODULE MemoryProofs ----------------------------
(***************************************************************************)
(* Theorems about Memory, for every size of tables and memory, every       *)
(* layout and every set of components.                                     *)
(***************************************************************************)
EXTENDS Memory, FiniteSetTheorems, WellFoundedInduction, TLAPS

LEMMA FramesFinite == IsFiniteSet(Frames) /\ Cardinality(Frames) = NumFrames
<1>1. RamBase \in Int /\ RamBase + NumFrames - 1 \in Int
  BY MemoryAssumption
<1>2. IsFiniteSet(Frames)
  BY <1>1, FS_Interval DEF Frames
<1>3. Cardinality(Frames) = IF RamBase > RamBase + NumFrames - 1 THEN 0
                            ELSE (RamBase + NumFrames - 1) - RamBase + 1
  BY <1>1, FS_Interval DEF Frames
<1> QED
  BY <1>2, <1>3, MemoryAssumption

LEMMA FreeFramesFinite == IsFiniteSet(FreeFrames) /\ Cardinality(FreeFrames) \in Nat
BY FramesFinite, FS_Subset, FS_CardinalityType DEF FreeFrames

(* Frames are numbers, so the first-fit scan of alloc finds a least free   *)
(* one whenever there is a free one.                                       *)
LEMMA LowestFreeIn ==
    ASSUME FreeFrames # {}
    PROVE  LowestFree \in FreeFrames /\ \A g \in FreeFrames : LowestFree <= g
<1> DEFINE R == OpToRel(<, Nat)
<1>0. FreeFrames \subseteq Nat
  BY MemoryAssumption DEF FreeFrames, Frames
<1>1. PICK f \in FreeFrames : \A g \in FreeFrames : ~(<<g, f>> \in R)
  <2>1. IsWellFoundedOn(R, Nat)
    BY Zenon, NatLessThanWellFounded
  <2> HIDE DEF R
  <2> QED
    BY ZenonT(60), <1>0, <2>1, WFMin
<1>2. \A g \in FreeFrames : f <= g
  <2> TAKE g \in FreeFrames
  <2>1. ~(g < f)
    BY ZenonT(60), <1>0, <1>1 DEF OpToRel
  <2> QED
    BY <1>0, <2>1
<1> QED
  BY <1>2 DEF LowestFree

(***************************************************************************)
(* The free counter.  It is inductive together with the type of the bitmap *)
(* and with where the probe's frame comes from.                            *)
(***************************************************************************)
CountInv ==
    /\ bitmap \in [Frames -> BOOLEAN]
    /\ free = Cardinality(FreeFrames)
    /\ phase \in {"probed", "reprobed"} => scratch \in Frames

(* Taking the lowest free frame keeps the counter exact (alloc).           *)
LEMMA TakeCounts ==
    ASSUME CountInv, FreeFrames # {}, Take(LowestFree)
    PROVE  bitmap' \in [Frames -> BOOLEAN] /\ free' = Cardinality(FreeFrames')
<1> DEFINE f == LowestFree
<1>1. f \in FreeFrames
  BY LowestFreeIn
<1>2. bitmap' = [bitmap EXCEPT ![f] = TRUE] /\ free' = free - 1
  BY DEF Take
<1> HIDE DEF f
<1>3. FreeFrames' = FreeFrames \ {f}
  BY <1>1, <1>2 DEF FreeFrames, CountInv
<1>4. Cardinality(FreeFrames \ {f}) = Cardinality(FreeFrames) - 1
  BY <1>1, FreeFramesFinite, FS_RemoveElement
<1> QED
  BY ZenonT(60), <1>1, <1>2, <1>3, <1>4 DEF CountInv

(* Freeing an allocated frame keeps the counter exact (free).              *)
LEMMA FreeCounts ==
    ASSUME CountInv, NEW f \in Frames, bitmap[f], FreeFrame(f)
    PROVE  bitmap' \in [Frames -> BOOLEAN] /\ free' = Cardinality(FreeFrames')
<1>1. bitmap' = [bitmap EXCEPT ![f] = FALSE] /\ free' = free + 1
  BY DEF FreeFrame
<1>2. FreeFrames' = FreeFrames \cup {f} /\ f \notin FreeFrames
  BY <1>1 DEF FreeFrames, CountInv
<1>3. Cardinality(FreeFrames \cup {f}) = Cardinality(FreeFrames) + 1
  BY <1>2, FreeFramesFinite, FS_AddElement
<1> QED
  BY <1>1, <1>2, <1>3 DEF CountInv

(* free_frames reports exactly the frames alloc can still hand out, in     *)
(* every state of every boot.                                              *)
THEOREM CounterExact == Spec => []FreeExact
<1>1. Init => CountInv
  <2> SUFFICES ASSUME Init PROVE CountInv
    OBVIOUS
  <2>1. FreeFrames = Frames
    BY DEF Init, FreeFrames
  <2> QED
    BY <2>1, FramesFinite DEF Init, CountInv
<1>2. CountInv /\ [Next]_vars => CountInv'
  <2> SUFFICES ASSUME CountInv, [Next]_vars PROVE CountInv'
    OBVIOUS
  <2> USE DEF CountInv
  <2>0. CASE UNCHANGED <<allocVars, bootVars>>
    BY <2>0 DEF allocVars, bootVars, FreeFrames
  <2>1. ASSUME NEW why, Panic(why) PROVE CountInv'
    BY <2>1, <2>0 DEF Panic
  <2>2. ASSUME FreeFrames # {}, Take(LowestFree), UNCHANGED bootVars PROVE CountInv'
    BY <2>2, TakeCounts DEF bootVars
  <2>3. ASSUME NEW s \in Spaces, Begin(s) PROVE CountInv'
    BY <2>3, <2>1, <2>2 DEF Begin
  <2>4. ASSUME NEW c \in Components, AllocDma(c) PROVE CountInv'
    BY <2>4, <2>1, <2>2 DEF AllocDma
  <2>5. CASE RangeDone
    BY <2>5, <2>0 DEF RangeDone
  <2>6. CASE MapPageStart
    BY <2>6, <2>0 DEF MapPageStart
  <2>7. CASE MapPageDown
    BY <2>7, <2>0, <2>1, <2>2 DEF MapPageDown
  <2>8. CASE MapPageLeaf
    BY <2>8, <2>0, <2>1 DEF MapPageLeaf
  <2>9. CASE Built
    BY <2>9 DEF Built, allocVars, FreeFrames
  <2>10. CASE Probe
    <3>1. CASE FreeFrames = {} \/ (phase = "reprobe" /\ LowestFree # scratch)
               \/ Zeroed(LowestFree) # ZeroTable
      BY <2>10, <3>1, <2>1 DEF Probe
    <3>2. CASE ~(FreeFrames = {} \/ (phase = "reprobe" /\ LowestFree # scratch)
               \/ Zeroed(LowestFree) # ZeroTable)
      <4>1. Take(LowestFree) /\ scratch' = LowestFree /\ LowestFree \in Frames
        BY <2>10, <3>2, LowestFreeIn DEF Probe, FreeFrames
      <4> QED
        BY <4>1, <3>2, TakeCounts
    <3> QED
      BY <3>1, <3>2
  <2>11. CASE ProbeFree
    <3>1. CASE ~bitmap[scratch]
      BY <2>11, <3>1, <2>1 DEF ProbeFree
    <3>2. CASE bitmap[scratch]
      <4>1. FreeFrame(scratch) /\ scratch \in Frames /\ phase' \in {"reprobe", "spawn"}
        BY <2>11, <3>2 DEF ProbeFree
      <4> QED
        BY <4>1, <3>2, FreeCounts
    <3> QED
      BY <3>1, <3>2
  <2>12. CASE UNCHANGED vars
    BY <2>12, <2>0 DEF vars, allocVars, bootVars
  <2> QED
    BY <2>3, <2>4, <2>5, <2>6, <2>7, <2>8, <2>9, <2>10, <2>11, <2>12 DEF Next
<1>3. CountInv => FreeExact
  BY DEF CountInv, FreeExact
<1> QED
  BY <1>1, <1>2, <1>3, PTL DEF Spec

-----------------------------------------------------------------------------
(* Virtual page numbers: the three indices of a page are in range and      *)
(* determine the page (vpn).                                               *)
LEMMA Mult ==
    ASSUME NEW n \in Nat, NEW a \in Nat, NEW b \in Nat
    PROVE  n * a \in Nat /\ n * (a + b) = n * a + n * b
OBVIOUS

LEMMA MultMono ==
    ASSUME NEW n \in Nat, NEW a \in Nat, NEW b \in Nat, a < b
    PROVE  n * a + n <= n * b
<1>1. PICK d \in Nat : b = (a + 1) + d
  <2>1. b - (a + 1) \in Nat /\ b = (a + 1) + (b - (a + 1))
    OBVIOUS
  <2> QED
    BY <2>1
<1>2. n * b = n * (a + 1) + n * d /\ n * (a + 1) = n * a + n * 1 /\ n * d \in Nat /\ n * a \in Nat
  BY <1>1, Mult
<1>3. n * 1 = n
  OBVIOUS
<1> QED
  BY <1>2, <1>3

LEMMA Division ==
    ASSUME NEW v \in Nat, NEW n \in Nat \ {0}
    PROVE  v \div n \in Nat /\ v % n \in 0 .. (n - 1) /\ v = n * (v \div n) + (v % n)
OBVIOUS

(* A quotient with a remainder in range is the quotient.                   *)
LEMMA Quotient ==
    ASSUME NEW n \in Nat \ {0}, NEW a \in Nat, NEW b \in Nat, NEW r \in 0 .. (n - 1), NEW q \in 0 .. (n - 1),
           n * a + r = n * b + q
    PROVE  a = b /\ r = q
<1>0. n * a \in Nat /\ n * b \in Nat
  BY Mult
<1>1. ~(a < b)
  <2> SUFFICES ASSUME a < b PROVE FALSE
    OBVIOUS
  <2>1. n * a + n <= n * b
    BY MultMono
  <2> QED
    BY <1>0, <2>1
<1>2. ~(b < a)
  <2> SUFFICES ASSUME b < a PROVE FALSE
    OBVIOUS
  <2>1. n * b + n <= n * a
    BY MultMono
  <2> QED
    BY <1>0, <2>1
<1>3. a = b
  BY <1>1, <1>2
<1> QED
  BY <1>0, <1>3

LEMMA VpnDef ==
    ASSUME NEW v
    PROVE  /\ Vpn(v, 2) = v \div (RADIX * RADIX)
           /\ Vpn(v, 1) = (v \div RADIX) % RADIX
           /\ Vpn(v, 0) = v % RADIX
<1>1. 2 # 1 /\ 2 # 0 /\ 1 # 0
  OBVIOUS
<1> QED
  BY Zenon, <1>1 DEF Vpn

(* Twice divided by the radix is once divided by its square.               *)
LEMMA VpnSum ==
    ASSUME NEW v \in Nat
    PROVE  LET a == (v \div RADIX) \div RADIX IN
           /\ a = v \div (RADIX * RADIX) /\ a \in Nat
           /\ v = RADIX * (RADIX * a + ((v \div RADIX) % RADIX)) + (v % RADIX)
<1> DEFINE n == RADIX
           u == v \div n
           a == u \div n
           i == u % n
           j == v % n
<1>0. n \in Nat \ {0}
  BY MemoryAssumption
<1> HIDE DEF n
<1>1. u \in Nat /\ j \in 0 .. (n - 1) /\ v = n * u + j
  BY Zenon, <1>0, Division
<1> HIDE DEF u, j
<1>2. a \in Nat /\ i \in 0 .. (n - 1) /\ u = n * a + i
  BY Zenon, <1>0, <1>1, Division
<1> HIDE DEF a, i
<1>3. n * n \in Nat \ {0} /\ n * a \in Nat /\ n * i \in Nat
  BY <1>0, <1>2, Mult
<1>4. v = (n * n) * a + (n * i + j)
  <2>1. n * (n * a + i) = n * (n * a) + n * i
    BY <1>0, <1>2, <1>3, Mult
  <2>2. n * (n * a) = (n * n) * a
    BY <1>0, <1>2
  <2>3. v = (n * (n * a) + n * i) + j /\ n * (n * a) \in Nat
    BY <1>0, <1>1, <1>2, <1>3, <2>1
  <2> QED
    BY <1>1, <1>3, <2>2, <2>3
<1>5. n * i + j \in 0 .. (n * n - 1)
  <2>1. n * i + n <= n * n
    BY <1>0, <1>2, MultMono
  <2> QED
    BY <1>0, <1>1, <1>3, <2>1
<1>6. /\ v \div (n * n) \in Nat /\ v % (n * n) \in 0 .. (n * n - 1)
      /\ v = (n * n) * (v \div (n * n)) + (v % (n * n))
  BY Zenon, <1>3, Division
<1>7. a = v \div (n * n)
  <2> DEFINE m == n * n
             b == v \div m
             q == v % m
             r == n * i + j
  <2>1. m \in Nat \ {0} /\ b \in Nat /\ q \in 0 .. (m - 1) /\ r \in 0 .. (m - 1) /\ m * a + r = m * b + q
    BY <1>3, <1>4, <1>5, <1>6
  <2> HIDE DEF m, b, q, r
  <2>2. a = b
    BY <1>2, <2>1, Quotient
  <2> QED
    BY <2>2 DEF m, b
<1> QED
  BY <1>1, <1>2, <1>7 DEF n, u, a, i, j

LEMMA VpnIn == ASSUME NEW v \in Pages PROVE Vpn(v, 2) \in Indices /\ Vpn(v, 1) \in Indices /\ Vpn(v, 0) \in Indices
<1> DEFINE n == RADIX
<1>0. n \in Nat \ {0} /\ v \in Nat /\ v < n * n * n
  BY MemoryAssumption DEF Pages
<1> HIDE DEF n
<1>1. v % n \in 0 .. (n - 1) /\ v \div n \in Nat
  BY Zenon, <1>0, Division
<1>2. (v \div n) % n \in 0 .. (n - 1)
  BY <1>0, <1>1, Division
<1>3. v \div (n * n) \in 0 .. (n - 1)
  <2> DEFINE m == n * n
             q == v \div m
  <2>1. m \in Nat \ {0} /\ v < m * n
    BY <1>0, Mult
  <2> HIDE DEF m
  <2>2. q \in Nat /\ v % m \in Nat /\ v = m * q + (v % m) /\ m * q \in Nat
    <3>1. q \in Nat /\ v % m \in 0 .. (m - 1) /\ v = m * q + (v % m)
      BY Zenon, <1>0, <2>1, Division
    <3> HIDE DEF q
    <3> QED
      BY <2>1, <3>1, Mult
  <2> HIDE DEF q
  <2>3. ~(n < q)
    <3> SUFFICES ASSUME n < q PROVE FALSE
      OBVIOUS
    <3>1. m * n + m <= m * q /\ m * n \in Nat
      BY <1>0, <2>1, <2>2, MultMono, Mult
    <3> QED
      BY <1>0, <2>1, <2>2, <3>1
  <2>4. q # n
    BY <1>0, <2>1, <2>2
  <2>5. q \in 0 .. (n - 1)
    BY <1>0, <2>2, <2>3, <2>4
  <2> QED
    BY <2>5 DEF q, m
<1> QED
  BY <1>1, <1>2, <1>3, VpnDef DEF Indices, n

LEMMA VpnUnique ==
    ASSUME NEW v \in Pages, NEW w \in Pages,
           Vpn(v, 2) = Vpn(w, 2), Vpn(v, 1) = Vpn(w, 1), Vpn(v, 0) = Vpn(w, 0)
    PROVE  v = w
<1>1. v \in Nat /\ w \in Nat
  BY MemoryAssumption DEF Pages
<1>2. /\ (v \div RADIX) \div RADIX = (w \div RADIX) \div RADIX
      /\ (v \div RADIX) % RADIX = (w \div RADIX) % RADIX /\ v % RADIX = w % RADIX
  BY <1>1, VpnDef, VpnSum
<1> QED
  BY Zenon, <1>1, <1>2, VpnSum

-----------------------------------------------------------------------------
(* The invariant.  A frame that holds a table has one place in one tree:   *)
(* the root of a space, the table below its entry i, or the table below    *)
(* entry j of that one.  All other frames are nobody's.                    *)
Place(s, l, i, j) == [space |-> s, level |-> l, hi |-> i, lo |-> j]
Nobody == Place(Nil, 3, 0, 0)
Top(s) == Place(s, 2, 0, 0)
Mid(s, i) == Place(s, 1, i, 0)
Low(s, i, j) == Place(s, 0, i, j)

(* In memory m with roots r, every link leads to the frame of the place    *)
(* below; own says which frame has which place.                            *)
RootsAt(r, own) == \A s \in Spaces : r[s] # Nil => r[s] \in Frames /\ own[r[s]] = Top(s)
MidsAt(m, own) ==
    \A f \in Frames, s \in Spaces, i \in Indices : own[f] = Top(s) /\ m[f][i] # Nil
        => m[f][i].ppn \in Frames /\ own[m[f][i].ppn] = Mid(s, i)
LowsAt(m, own) ==
    \A f \in Frames, s \in Spaces, i, j \in Indices : own[f] = Mid(s, i) /\ m[f][j] # Nil
        => m[f][j].ppn \in Frames /\ own[m[f][j].ppn] = Low(s, i, j)
Tree(m, r, own) == RootsAt(r, own) /\ MidsAt(m, own) /\ LowsAt(m, own)

(* Only allocated frames have a place, and neither a DMA frame nor the     *)
(* frame of the probe has one.                                             *)
Unlinked(own) ==
    /\ \A f \in Frames : own[f] # Nobody => bitmap[f]
    /\ \A c \in Components : dma[c] # Nil => bitmap[dma[c]] /\ own[dma[c]] = Nobody
    /\ phase \in {"probed", "reprobed"} => own[scratch] = Nobody
TreeInv == \E own : Tree(mem, root, own) /\ Unlinked(own)

MemType ==
    /\ bitmap \in [Frames -> BOOLEAN] /\ mem \in [Frames -> Tables]
    /\ root \in [Spaces -> Frames \cup {Nil}] /\ dma \in [Components -> Frames \cup {Nil}]
    /\ building \in Spaces \cup {Nil} /\ todo \in Seq(Ranges)
    /\ walk \in [level : 0 .. 2, table : Frames] \cup {Nil}
    /\ phase \in {"master", "probe", "probed", "reprobe", "reprobed", "spawn"}
    /\ scratch \in Frames \cup {Nil}

(* kmain's phases, and why frame_roundtrip gets its frame back.            *)
ProbeInv ==
    /\ phase \in {"probed", "reprobed"} => scratch \in Frames /\ bitmap[scratch]
    /\ phase = "reprobe" => scratch \in FreeFrames
    /\ phase \in {"probed", "reprobe"} => \A g \in FreeFrames : scratch <= g
    /\ phase # "spawn" => \A c \in Components : dma[c] = Nil
    /\ building # Nil => phase = (IF building = Master THEN "master" ELSE "spawn")

(* The ranges left: parts of those of the space, and still apart.          *)
Part(r, q) == \E k \in DOMAIN q : q[k].from <= r.from /\ r.to = q[k].to /\ r.flags = q[k].flags
BuildInv ==
    /\ building = Nil => todo = <<>> /\ walk = Nil
    /\ building # Nil => root[building] # Nil
    /\ \A k \in DOMAIN todo : Part(todo[k], RangesOf(building))
    /\ \A k, l \in DOMAIN todo : k # l => Apart(todo[k], todo[l])
    /\ \A c \in Virtio : root[c] # Nil => dma[c] # Nil

(* map_page has come down the path of its address.                         *)
Entry2(m, r, v) == m[r][Vpn(v, 2)]
Entry1(m, r, v) == m[Entry2(m, r, v).ppn][Vpn(v, 1)]
Entry0(m, r, v) == m[Entry1(m, r, v).ppn][Vpn(v, 0)]
WalkInv ==
    walk # Nil =>
        /\ building # Nil /\ todo # <<>> /\ More(Head(todo))
        /\ walk.level = 2 => walk.table = root[building]
        /\ walk.level < 2 => Entry2(mem, root[building], Va) # Nil
        /\ walk.level = 1 => walk.table = Entry2(mem, root[building], Va).ppn
        /\ walk.level = 0 => /\ Entry1(mem, root[building], Va) # Nil
                             /\ walk.table = Entry1(mem, root[building], Va).ppn

(* A space translates exactly the pages of its ranges that are not left to *)
(* do, each to itself and with the flags of its range.                     *)
Wanted(s, v) == \E k \in DOMAIN RangesOf(s) : Covers(RangesOf(s)[k], v)
Left(s, v) == building = s /\ \E k \in DOMAIN todo : Covers(todo[k], v)
Meant(s, v, pte) ==
    \E k \in DOMAIN RangesOf(s) :
        Covers(RangesOf(s)[k], v) /\ pte = Pte(v, LeafFlags(RangesOf(s)[k].flags))
WalkIn(m, r, v) ==
    IF Entry2(m, r, v) = Nil \/ Entry1(m, r, v) = Nil THEN Nil ELSE Entry0(m, r, v)
PageOk(s, v) ==
    /\ WalkIn(mem, root[s], v) # Nil => Meant(s, v, WalkIn(mem, root[s], v)) /\ ~Left(s, v)
    /\ Wanted(s, v) /\ ~Left(s, v) => WalkIn(mem, root[s], v) # Nil
SpaceInv == \A s \in Spaces : root[s] # Nil => \A v \in Pages : PageOk(s, v)

MemInv == MemType /\ TreeInv /\ ProbeInv /\ BuildInv /\ WalkInv /\ SpaceInv /\ NoAssertionFails

-----------------------------------------------------------------------------
(* Constants, places and ranges.                                           *)
LEMMA FrameFacts ==
    /\ Frames \subseteq Pages /\ Frames \subseteq Nat /\ Pages \subseteq Nat /\ Nil \notin Frames
    /\ \A f \in Frames : RamBase <= f /\ f < RamBase + NumFrames
    /\ ZeroTable \in Tables /\ \A i \in Indices : ZeroTable[i] = Nil
<1> DEFINE top == RADIX * RADIX * RADIX
<1>1. RamBase \in Nat /\ NumFrames \in Nat /\ top \in Nat /\ RamBase + NumFrames <= top
  BY MemoryAssumption
<1> HIDE DEF top
<1>2. Frames = RamBase .. (RamBase + NumFrames - 1) /\ Pages = 0 .. (top - 1)
  BY DEF Frames, Pages, top
<1>3. Frames \subseteq Pages /\ Frames \subseteq Nat /\ Pages \subseteq Nat
  BY <1>1, <1>2
<1>4. \A f \in Frames : RamBase <= f /\ f < RamBase + NumFrames
  BY <1>1, <1>2
<1>5. ZeroTable \in Tables /\ \A i \in Indices : ZeroTable[i] = Nil
  BY DEF ZeroTable, Tables
<1> QED
  BY Zenon, <1>3, <1>4, <1>5, MemoryAssumption

LEMMA PteFacts ==
    ASSUME NEW v \in Pages, NEW fl \in SUBSET Flags
    PROVE  /\ Pte(v, fl) \in Ptes /\ Pte(v, fl) # Nil
           /\ Pte(v, fl).ppn = v /\ Pte(v, fl).flags = fl
<1>1. Pte(v, fl) \in Ptes /\ Pte(v, fl).ppn = v /\ Pte(v, fl).flags = fl
  BY DEF Pte, Ptes
<1> QED
  BY <1>1, MemoryAssumption

LEMMA PlaceFacts ==
    /\ \A s, t : Top(s) = Top(t) => s = t
    /\ \A s, t, i, j : Mid(s, i) = Mid(t, j) => s = t /\ i = j
    /\ \A s, t, i, j, k, l : Low(s, i, k) = Low(t, j, l) => s = t /\ i = j /\ k = l
    /\ \A s, t, i : Top(s) # Mid(t, i)
    /\ \A s, t, i, j : Top(s) # Low(t, i, j)
    /\ \A s, t, i, j, k : Mid(s, i) # Low(t, j, k)
    /\ \A s : Top(s) # Nobody
    /\ \A s, i : Mid(s, i) # Nobody
    /\ \A s, i, j : Low(s, i, j) # Nobody
BY DEF Top, Mid, Low, Nobody, Place

LEMMA TopOne == \A s, t : Top(s) = Top(t) => s = t
BY PlaceFacts
LEMMA MidOne == \A s, t, i, j : Mid(s, i) = Mid(t, j) => s = t /\ i = j
BY PlaceFacts
LEMMA LowOne == \A s, t, i, j, k, l : Low(s, i, k) = Low(t, j, l) => s = t /\ i = j /\ k = l
BY PlaceFacts
LEMMA TopNotMid == \A s, t, i : Top(s) # Mid(t, i)
BY PlaceFacts
LEMMA TopNotLow == \A s, t, i, j : Top(s) # Low(t, i, j)
BY PlaceFacts
LEMMA MidNotLow == \A s, t, i, j, k : Mid(s, i) # Low(t, j, k)
BY PlaceFacts
LEMMA TopNobody == \A s : Top(s) # Nobody
BY PlaceFacts
LEMMA MidNobody == \A s, i : Mid(s, i) # Nobody
BY PlaceFacts
LEMMA LowNobody == \A s, i, j : Low(s, i, j) # Nobody
BY PlaceFacts
LEMMA PlaceNobody ==
    (\A s : Top(s) # Nobody) /\ (\A s, i : Mid(s, i) # Nobody) /\ (\A s, i, j : Low(s, i, j) # Nobody)
BY PlaceFacts

LEMMA LeafFlagFacts ==
    ASSUME NEW fl \in SUBSET Flags
    PROVE  /\ LeafFlags(fl) \in SUBSET Flags /\ "A" \in LeafFlags(fl)
           /\ "U" \in LeafFlags(fl) => "U" \in fl
           /\ {"W", "X"} \subseteq LeafFlags(fl) => {"W", "X"} \subseteq fl
BY DEF LeafFlags, Flags

LEMMA RangeFacts ==
    ASSUME NEW a \in Nat, NEW b \in Nat, NEW fl \in SUBSET Flags
    PROVE  /\ PageRange(a, b, fl) \in Ranges
           /\ PageRange(a, b, fl).from = a /\ PageRange(a, b, fl).to = b /\ PageRange(a, b, fl).flags = fl
BY DEF PageRange, Ranges

(* What is required of one range of space s.                               *)
Fit(r, s) ==
    /\ r \in Ranges /\ InMemory(r) /\ ~({"W", "X"} \subseteq r.flags)
    /\ "U" \in r.flags => s # Master /\ \A v \in Pages : Covers(r, v) => Within(s, v)
Fresh(r) == \A k \in DOMAIN KernelRanges : Apart(r, KernelRanges[k]) /\ Apart(KernelRanges[k], r)
Own(s) == IF s = Master THEN <<Ram>> ELSE UserRanges(s) \o DeviceRanges(s)
Disjoint(q) == \A k, l \in DOMAIN q : k # l => Apart(q[k], q[l])
HasDma(s) == s \in Virtio => dma[s] \in Frames

LEMMA ApartSym == \A r, q : Apart(r, q) => Apart(q, r)
BY DEF Apart

(* Changing the flags of a range moves no page.                            *)
LEMMA SamePages ==
    ASSUME NEW r \in Ranges, NEW fl \in SUBSET Flags
    PROVE  /\ PageRange(r.from, r.to, fl) \in Ranges /\ PageRange(r.from, r.to, fl).flags = fl
           /\ \A v : Covers(PageRange(r.from, r.to, fl), v) <=> Covers(r, v)
           /\ InMemory(PageRange(r.from, r.to, fl)) <=> InMemory(r)
<1>1. r.from \in Nat /\ r.to \in Nat
  BY DEF Ranges
<1> QED
  BY <1>1, RangeFacts DEF Covers, InMemory

LEMMA RamFit == Ram \in Ranges /\ Fit(Ram, Master) /\ Fresh(Ram) /\ \A v \in Pages : Covers(Ram, v) <=> v \in Frames
<1>1. RamBase \in Nat /\ RamBase + NumFrames \in Nat /\ RamBase + NumFrames <= RADIX * RADIX * RADIX
  BY MemoryAssumption
<1>2. {"R", "W", "G"} \in SUBSET Flags
  BY DEF Flags
<1>3. /\ Ram \in Ranges /\ Ram.from = RamBase /\ Ram.to = RamBase + NumFrames
      /\ Ram.flags = {"R", "W", "G"}
  BY <1>1, <1>2, RangeFacts DEF Ram
<1>4. Fit(Ram, Master)
  BY <1>1, <1>3 DEF Fit, InMemory
<1>5. Fresh(Ram)
  BY LayoutAssumption, ApartSym DEF Fresh
<1>6. \A v \in Pages : Covers(Ram, v) <=> v \in Frames
  BY <1>1, <1>3, MemoryAssumption, FrameFacts DEF Covers, Frames
<1> QED
  BY <1>3, <1>4, <1>5, <1>6

(* The range of a DMA frame is one frame of RAM.                           *)
LEMMA DmaFit ==
    ASSUME NEW f \in Frames
    PROVE  LET r == PageRange(f, f + 1, {"R", "W", "U"}) IN
           /\ r \in Ranges /\ InMemory(r) /\ r.flags = {"R", "W", "U"}
           /\ \A v \in Pages : Covers(r, v) <=> v = f
<1> DEFINE r == PageRange(f, f + 1, {"R", "W", "U"})
<1>0. {"R", "W", "U"} \in SUBSET Flags /\ f \in Nat /\ f + 1 \in Nat
  BY FrameFacts DEF Flags
<1>1. r \in Ranges /\ r.from = f /\ r.to = f + 1 /\ r.flags = {"R", "W", "U"}
  BY <1>0, RangeFacts
<1> HIDE DEF r
<1>2. f < RADIX * RADIX * RADIX
  <2> DEFINE top == RADIX * RADIX * RADIX
  <2>1. top \in Nat /\ RamBase + NumFrames <= top /\ RamBase \in Nat /\ NumFrames \in Nat
    BY MemoryAssumption
  <2> HIDE DEF top
  <2>2. f < top
    BY <1>0, <2>1, FrameFacts
  <2> QED
    BY <2>2 DEF top
<1>3. InMemory(r)
  <2> DEFINE top == RADIX * RADIX * RADIX
  <2>1. top \in Nat /\ f < top
    BY <1>2, MemoryAssumption
  <2> HIDE DEF top
  <2>2. f + 1 <= top
    BY <1>0, <2>1
  <2> QED
    BY <2>2, <1>1 DEF top, InMemory
<1>4. \A v \in Pages : Covers(r, v) <=> v = f
  BY <1>0, <1>1, FrameFacts DEF Covers
<1> QED
  BY <1>1, <1>3, <1>4 DEF r

LEMMA PartFit ==
    ASSUME NEW c \in Components, NEW q \in {UserText, Stack[c], Device[c]},
           NEW fl \in SUBSET Flags, ~({"W", "X"} \subseteq fl)
    PROVE  /\ Fit(PageRange(q.from, q.to, fl), c) /\ Fresh(PageRange(q.from, q.to, fl))
           /\ \A v \in Pages : Covers(PageRange(q.from, q.to, fl), v) <=> Covers(q, v)
           /\ \A v \in Pages : Covers(q, v) => v \notin Frames
<1> DEFINE r == PageRange(q.from, q.to, fl)
<1>0. q \in Ranges /\ c # Master
  BY MemoryAssumption
<1>1. r \in Ranges /\ r.flags = fl /\ (InMemory(r) <=> InMemory(q)) /\ \A v : Covers(r, v) <=> Covers(q, v)
  BY <1>0, SamePages
<1> HIDE DEF r
<1>2. InMemory(q) /\ Apart(q, Ram) /\ \A k \in DOMAIN KernelRanges : Apart(q, KernelRanges[k])
  BY LayoutAssumption
<1>3. Fresh(r)
  BY <1>1, <1>2 DEF Fresh, Apart
<1>4. \A v \in Pages : Covers(q, v) => v \notin Frames
  BY <1>2, RamFit DEF Apart
<1>5. \A v \in Pages : Covers(q, v) => Within(c, v)
  BY DEF Within
<1> QED
  BY <1>0, <1>1, <1>2, <1>3, <1>4, <1>5 DEF Fit, r

(* The ranges of a space beyond the kernel's.                              *)
LEMMA OwnFit ==
    ASSUME NEW s \in Spaces, HasDma(s)
    PROVE  /\ Own(s) \in Seq(Ranges) /\ Disjoint(Own(s))
           /\ \A k \in DOMAIN Own(s) : Fit(Own(s)[k], s) /\ Fresh(Own(s)[k])
<1>1. CASE s = Master
  <2>1. Own(s) = <<Ram>>
    BY <1>1 DEF Own
  <2> QED
    BY <1>1, <2>1, RamFit DEF Disjoint
<1>2. CASE s # Master
  <2> DEFINE A == PageRange(UserText.from, UserText.to, {"R", "X", "U"})
             B == PageRange(Stack[s].from, Stack[s].to, {"R", "W", "U"})
             C == PageRange(Device[s].from, Device[s].to, {"R", "W", "U"})
             D == PageRange(Device[s].from, Device[s].to, {"R", "U"})
             E == PageRange(dma[s], dma[s] + 1, {"R", "W", "U"})
  <2>0. s \in Components
    BY <1>2 DEF Spaces
  <2>1. Own(s) = <<A, B>> \o (IF s \in Virtio THEN <<C, E>> ELSE <<D>>)
    BY <1>2 DEF Own, UserRanges, DeviceRanges
  <2>2. /\ {"R", "X", "U"} \in SUBSET Flags /\ ~({"W", "X"} \subseteq {"R", "X", "U"})
        /\ {"R", "W", "U"} \in SUBSET Flags /\ ~({"W", "X"} \subseteq {"R", "W", "U"})
        /\ {"R", "U"} \in SUBSET Flags /\ ~({"W", "X"} \subseteq {"R", "U"})
    BY DEF Flags
  <2>3. Fit(A, s) /\ Fresh(A) /\ \A v \in Pages : (Covers(A, v) <=> Covers(UserText, v)) /\ (Covers(A, v) => v \notin Frames)
    BY <2>0, <2>2, PartFit
  <2>4. Fit(B, s) /\ Fresh(B) /\ \A v \in Pages : (Covers(B, v) <=> Covers(Stack[s], v)) /\ (Covers(B, v) => v \notin Frames)
    BY <2>0, <2>2, PartFit
  <2>5. Fit(C, s) /\ Fresh(C) /\ \A v \in Pages : (Covers(C, v) <=> Covers(Device[s], v)) /\ (Covers(C, v) => v \notin Frames)
    BY <2>0, <2>2, PartFit
  <2>6. Fit(D, s) /\ Fresh(D) /\ \A v \in Pages : (Covers(D, v) <=> Covers(Device[s], v)) /\ (Covers(D, v) => v \notin Frames)
    BY Zenon, <2>0, <2>2, PartFit
  <2>7. s \in Virtio => Fit(E, s) /\ Fresh(E) /\ \A v \in Pages : Covers(E, v) <=> v = dma[s]
    <3> SUFFICES ASSUME s \in Virtio PROVE Fit(E, s) /\ Fresh(E) /\ \A v \in Pages : Covers(E, v) <=> v = dma[s]
      OBVIOUS
    <3>1. dma[s] \in Frames
      BY DEF HasDma
    <3>2. E \in Ranges /\ InMemory(E) /\ E.flags = {"R", "W", "U"} /\ \A v \in Pages : Covers(E, v) <=> v = dma[s]
      BY <3>1, DmaFit
    <3> HIDE DEF E
    <3>3. Fit(E, s)
      BY <1>2, <3>2 DEF Fit, Within
    <3>4. Fresh(E)
      BY <3>1, <3>2, RamFit DEF Fresh, Apart
    <3> QED
      BY <3>2, <3>3, <3>4
  <2>8. Apart(UserText, Stack[s]) /\ Apart(UserText, Device[s]) /\ Apart(Stack[s], Device[s])
    BY <2>0, LayoutAssumption
  <2>9. dma[s] \in Frames \/ s \notin Virtio
    BY DEF HasDma
  <2> HIDE DEF A, B, C, D, E
  <2>10. Apart(A, B) /\ Apart(A, C) /\ Apart(B, C) /\ Apart(A, D) /\ Apart(B, D)
    BY <2>3, <2>4, <2>5, <2>6, <2>8 DEF Apart
  <2>11. s \in Virtio => Apart(A, E) /\ Apart(B, E) /\ Apart(C, E)
    BY <2>3, <2>4, <2>5, <2>7, <2>9 DEF Apart
  <2>12. CASE s \in Virtio
    <3>1. A \in Ranges /\ B \in Ranges /\ C \in Ranges /\ E \in Ranges
      BY <2>3, <2>4, <2>5, <2>7, <2>12 DEF Fit
    <3> DEFINE z == Own(s)
    <3>2. z = <<A, B>> \o <<C, E>>
      BY <2>1, <2>12
    <3> HIDE DEF z
    <3>3. z \in Seq(Ranges) /\ DOMAIN z = 1 .. 4 /\ z[1] = A /\ z[2] = B /\ z[3] = C /\ z[4] = E
      BY <3>1, <3>2
    <3>4. Disjoint(z)
      BY <3>3, <2>10, <2>11, <2>12, ApartSym DEF Disjoint
    <3>5. \A k \in DOMAIN z : Fit(z[k], s) /\ Fresh(z[k])
      BY <3>3, <2>3, <2>4, <2>5, <2>7, <2>12
    <3> QED
      BY <3>3, <3>4, <3>5 DEF z
  <2>13. CASE s \notin Virtio
    <3>1. A \in Ranges /\ B \in Ranges /\ D \in Ranges
      BY <2>3, <2>4, <2>6 DEF Fit
    <3> DEFINE z == Own(s)
    <3>2. z = <<A, B>> \o <<D>>
      BY <2>1, <2>13
    <3> HIDE DEF z
    <3>3. z \in Seq(Ranges) /\ DOMAIN z = 1 .. 3 /\ z[1] = A /\ z[2] = B /\ z[3] = D
      BY <3>1, <3>2
    <3>4. Disjoint(z)
      BY <3>3, <2>10, ApartSym DEF Disjoint
    <3>5. \A k \in DOMAIN z : Fit(z[k], s) /\ Fresh(z[k])
      BY <3>3, <2>3, <2>4, <2>6
    <3> QED
      BY <3>3, <3>4, <3>5 DEF z
  <2> QED
    BY <2>12, <2>13
<1> QED
  BY <1>1, <1>2

(* All the ranges of a space: they fit, and no page is in two of them.     *)
LEMMA RangesFit ==
    ASSUME NEW s \in Spaces, HasDma(s)
    PROVE  /\ RangesOf(s) \in Seq(Ranges) /\ Disjoint(RangesOf(s))
           /\ \A k \in DOMAIN RangesOf(s) : Fit(RangesOf(s)[k], s)
<1> DEFINE A == KernelRanges
           B == Own(s)
<1>1. RangesOf(s) = A \o B
  BY DEF RangesOf, Own
<1>2. /\ A \in Seq(Ranges) /\ B \in Seq(Ranges) /\ Disjoint(B)
      /\ \A k \in DOMAIN B : Fit(B[k], s) /\ Fresh(B[k])
  BY OwnFit, MemoryAssumption
<1>3. /\ Disjoint(A) /\ \A k \in DOMAIN A : Fit(A[k], s)
  <2>1. \A k \in DOMAIN A : A[k] \in Ranges
    BY <1>2
  <2> QED
    BY <2>1, LayoutAssumption DEF Disjoint, Fit
<1>4. \A k \in DOMAIN A, l \in DOMAIN B : Apart(A[k], B[l]) /\ Apart(B[l], A[k])
  BY <1>2 DEF Fresh
<1> HIDE DEF A, B
<1>5. /\ A \o B \in Seq(Ranges)
      /\ \A k \in DOMAIN (A \o B) : \/ k \in DOMAIN A /\ (A \o B)[k] = A[k]
                                    \/ k - Len(A) \in DOMAIN B /\ (A \o B)[k] = B[k - Len(A)] /\ k \notin DOMAIN A
  BY <1>2
<1>6. Disjoint(A \o B)
  <2> SUFFICES ASSUME NEW k \in DOMAIN (A \o B), NEW l \in DOMAIN (A \o B), k # l
               PROVE  Apart((A \o B)[k], (A \o B)[l])
    BY DEF Disjoint
  <2>1. k \in Nat /\ l \in Nat /\ Len(A) \in Nat
    BY <1>2
  <2>2. k - Len(A) # l - Len(A)
    BY <2>1
  <2> QED
    BY ZenonT(60), <1>2, <1>3, <1>4, <1>5, <2>2 DEF Disjoint
<1>7. \A k \in DOMAIN (A \o B) : Fit((A \o B)[k], s)
  BY ZenonT(60), <1>2, <1>3, <1>5
<1> QED
  BY <1>1, <1>5, <1>6, <1>7

-----------------------------------------------------------------------------
(* What a write to a frame does to the translations.                       *)
SameBut(m, e, S) == \A g \in Frames : g \notin S => e[g] = m[g]
Empty(t) == \A i \in Indices : t[i] = Nil
Gives(own, o, f, p) == o[f] = p /\ \A g \in Frames : g # f => o[g] = own[g]
SameWalk(m, e, r, v) == WalkIn(e, r, v) = WalkIn(m, r, v)

(* The hardware's path through the tables of a space stays in its tree.    *)
Path(m, own, x, s, v) ==
    /\ x \in Frames /\ own[x] = Top(s)
    /\ Entry2(m, x, v) # Nil => Entry2(m, x, v).ppn \in Frames /\ own[Entry2(m, x, v).ppn] = Mid(s, Vpn(v, 2))
    /\ Entry2(m, x, v) # Nil /\ Entry1(m, x, v) # Nil =>
         Entry1(m, x, v).ppn \in Frames /\ own[Entry1(m, x, v).ppn] = Low(s, Vpn(v, 2), Vpn(v, 1))
LEMMA PathFacts ==
    ASSUME NEW m, NEW r, NEW own, Tree(m, r, own), NEW s \in Spaces, r[s] # Nil, NEW v \in Pages
    PROVE  Path(m, own, r[s], s, v)
<1>1. r[s] \in Frames /\ own[r[s]] = Top(s)
  BY DEF Tree, RootsAt
<1>2. Vpn(v, 2) \in Indices /\ Vpn(v, 1) \in Indices
  BY VpnIn
<1>3. Entry2(m, r[s], v) # Nil => /\ Entry2(m, r[s], v).ppn \in Frames
                                  /\ own[Entry2(m, r[s], v).ppn] = Mid(s, Vpn(v, 2))
  BY Zenon, <1>1, <1>2 DEF Tree, MidsAt, Entry2
<1>4. ASSUME Entry2(m, r[s], v) # Nil, Entry1(m, r[s], v) # Nil
      PROVE  /\ Entry1(m, r[s], v).ppn \in Frames
             /\ own[Entry1(m, r[s], v).ppn] = Low(s, Vpn(v, 2), Vpn(v, 1))
  BY Zenon, <1>2, <1>3, <1>4 DEF Tree, LowsAt, Entry1
<1> QED
  BY Zenon, <1>1, <1>3, <1>4 DEF Path

(* A translation depends on the entries of its path only.                  *)
LEMMA SamePath ==
    ASSUME NEW m, NEW e, NEW x, NEW v,
           e[x][Vpn(v, 2)] = m[x][Vpn(v, 2)],
           Entry2(m, x, v) # Nil => e[Entry2(m, x, v).ppn][Vpn(v, 1)] = m[Entry2(m, x, v).ppn][Vpn(v, 1)],
           Entry2(m, x, v) # Nil /\ Entry1(m, x, v) # Nil =>
               e[Entry1(m, x, v).ppn][Vpn(v, 0)] = m[Entry1(m, x, v).ppn][Vpn(v, 0)]
    PROVE  SameWalk(m, e, x, v)
<1>1. Entry2(e, x, v) = Entry2(m, x, v)
  BY DEF Entry2
<1>2. CASE Entry2(m, x, v) = Nil
  BY <1>1, <1>2 DEF SameWalk, WalkIn
<1>3. CASE Entry2(m, x, v) # Nil
  <2>1. Entry1(e, x, v) = Entry1(m, x, v)
    BY Zenon, <1>1, <1>3 DEF Entry1
  <2>2. Entry1(m, x, v) # Nil => Entry0(e, x, v) = Entry0(m, x, v)
    BY Zenon, <1>3, <2>1 DEF Entry0
  <2> QED
    BY Zenon, <1>1, <2>1, <2>2 DEF SameWalk, WalkIn
<1> QED
  BY <1>2, <1>3

(* Writing frames that are in no tree changes no translation.              *)
LEMMA WriteFree ==
    ASSUME NEW m, NEW e, NEW r, NEW own, Tree(m, r, own),
           NEW f \in Frames, own[f] = Nobody, SameBut(m, e, {f})
    PROVE  /\ Tree(e, r, own)
           /\ \A s \in Spaces : r[s] # Nil => \A v \in Pages : SameWalk(m, e, r[s], v)
<1>1. \A g \in Frames : own[g] # Nobody => e[g] = m[g]
  BY DEF SameBut
<1>2. Tree(e, r, own)
  <2>1. MidsAt(e, own)
    <3> SUFFICES ASSUME NEW g \in Frames, NEW s \in Spaces, NEW i \in Indices, own[g] = Top(s), e[g][i] # Nil
                 PROVE  e[g][i].ppn \in Frames /\ own[e[g][i].ppn] = Mid(s, i)
      BY DEF MidsAt
    <3>1. e[g] = m[g]
      BY Zenon, <1>1, PlaceNobody
    <3> QED
      BY Zenon, <3>1 DEF Tree, MidsAt
  <2>2. LowsAt(e, own)
    <3> SUFFICES ASSUME NEW g \in Frames, NEW s \in Spaces, NEW i \in Indices, NEW j \in Indices,
                        own[g] = Mid(s, i), e[g][j] # Nil
                 PROVE  e[g][j].ppn \in Frames /\ own[e[g][j].ppn] = Low(s, i, j)
      BY DEF LowsAt
    <3>1. e[g] = m[g]
      BY Zenon, <1>1, PlaceNobody
    <3> QED
      BY <3>1 DEF Tree, LowsAt
  <2> QED
    BY <2>1, <2>2 DEF Tree
<1>3. ASSUME NEW s \in Spaces, r[s] # Nil, NEW v \in Pages PROVE SameWalk(m, e, r[s], v)
  <2> DEFINE x == r[s]
             y == Entry2(m, x, v).ppn
             z == Entry1(m, x, v).ppn
  <2>0. /\ x \in Frames /\ own[x] = Top(s)
        /\ Entry2(m, x, v) # Nil => y \in Frames /\ own[y] = Mid(s, Vpn(v, 2))
        /\ Entry2(m, x, v) # Nil /\ Entry1(m, x, v) # Nil => z \in Frames /\ own[z] = Low(s, Vpn(v, 2), Vpn(v, 1))
    <3>1. Path(m, own, r[s], s, v)
      BY <1>3, PathFacts
    <3> QED
      BY Zenon, <3>1 DEF Path
  <2> HIDE DEF x, y, z
  <2>1. e[x] = m[x]
    BY Zenon, <1>1, <2>0, PlaceNobody
  <2>2. Entry2(m, x, v) # Nil => e[y] = m[y]
    BY Zenon, <1>1, <2>0, PlaceNobody
  <2>3. Entry2(m, x, v) # Nil /\ Entry1(m, x, v) # Nil => e[z] = m[z]
    BY Zenon, <1>1, <2>0, PlaceNobody
  <2> QED
    BY Zenon, <2>1, <2>2, <2>3, SamePath DEF x, y, z
<1> QED
  BY Zenon, <1>2, <1>3

(* e is m but for frame f and entry i of table g.                          *)
Differ(m, e, f, g, i) ==
    \A h \in Frames, j \in Indices : h # f /\ ~(h = g /\ j = i) => e[h][j] = m[h][j]

(* The path of page v in space s does not use entry i of table g.          *)
Misses(own, g, i, s, v) ==
    /\ own[g] = Top(s) => Vpn(v, 2) # i
    /\ own[g] = Mid(s, Vpn(v, 2)) => Vpn(v, 1) # i
    /\ own[g] = Low(s, Vpn(v, 2), Vpn(v, 1)) => Vpn(v, 0) # i
LEMMA OffPath ==
    ASSUME NEW m, NEW e, NEW r, NEW own, Tree(m, r, own),
           NEW f, f \in Frames => own[f] = Nobody, NEW g, NEW i, Differ(m, e, f, g, i),
           NEW s \in Spaces, r[s] # Nil, NEW v \in Pages, Misses(own, g, i, s, v)
    PROVE  SameWalk(m, e, r[s], v)
<1> DEFINE x == r[s]
           y == Entry2(m, x, v).ppn
           z == Entry1(m, x, v).ppn
<1>0. /\ x \in Frames /\ own[x] = Top(s)
      /\ Entry2(m, x, v) # Nil => y \in Frames /\ own[y] = Mid(s, Vpn(v, 2))
      /\ Entry2(m, x, v) # Nil /\ Entry1(m, x, v) # Nil => z \in Frames /\ own[z] = Low(s, Vpn(v, 2), Vpn(v, 1))
  <2>1. Path(m, own, r[s], s, v)
    BY PathFacts
  <2> QED
    BY Zenon, <2>1 DEF Path
<1>1. Vpn(v, 2) \in Indices /\ Vpn(v, 1) \in Indices /\ Vpn(v, 0) \in Indices
  BY VpnIn
<1> HIDE DEF x, y, z
<1>2. e[x][Vpn(v, 2)] = m[x][Vpn(v, 2)]
  BY Zenon, <1>0, <1>1, TopNobody DEF Differ, Misses
<1>3. Entry2(m, x, v) # Nil => e[y][Vpn(v, 1)] = m[y][Vpn(v, 1)]
  BY Zenon, <1>0, <1>1, MidNobody DEF Differ, Misses
<1>4. Entry2(m, x, v) # Nil /\ Entry1(m, x, v) # Nil => e[z][Vpn(v, 0)] = m[z][Vpn(v, 0)]
  <2> SUFFICES ASSUME Entry2(m, x, v) # Nil, Entry1(m, x, v) # Nil PROVE e[z][Vpn(v, 0)] = m[z][Vpn(v, 0)]
    BY Zenon
  <2>1. z \in Frames /\ own[z] = Low(s, Vpn(v, 2), Vpn(v, 1)) /\ own[z] # Nobody
    BY Zenon, <1>0, LowNobody
  <2>2. z # f /\ ~(z = g /\ Vpn(v, 0) = i)
    BY Zenon, <2>1 DEF Misses
  <2> QED
    BY Zenon, <1>1, <2>1, <2>2 DEF Differ
<1> QED
  BY Zenon, <1>2, <1>3, <1>4, SamePath DEF x, y, z

(* An empty frame joins the tree below entry i of table g.                 *)
Joins(e, own, f, g, i, p) ==
    /\ \A s \in Spaces : own[g] = Top(s) => e[g][i].ppn = f /\ p = Mid(s, i)
    /\ \A s \in Spaces, k \in Indices : own[g] = Mid(s, k) => e[g][i].ppn = f /\ p = Low(s, k, i)

LEMMA Grow ==
    ASSUME NEW m, NEW e, NEW r, NEW own, Tree(m, r, own), NEW o, NEW p, NEW g, NEW i,
           NEW f \in Frames, own[f] = Nobody, Gives(own, o, f, p), Empty(e[f]),
           Differ(m, e, f, g, i), Joins(e, own, f, g, i, p)
    PROVE  MidsAt(e, o) /\ LowsAt(e, o)
<1>1. MidsAt(e, o)
  <2> SUFFICES ASSUME NEW h \in Frames, NEW s \in Spaces, NEW j \in Indices, o[h] = Top(s), e[h][j] # Nil
               PROVE  e[h][j].ppn \in Frames /\ o[e[h][j].ppn] = Mid(s, j)
    BY Zenon DEF MidsAt
  <2>1. h # f /\ own[h] = Top(s)
    BY Zenon DEF Gives, Empty
  <2>2. CASE h = g /\ j = i
    BY Zenon, <2>1, <2>2 DEF Joins, Gives
  <2>3. CASE ~(h = g /\ j = i)
    <3>1. e[h][j] = m[h][j]
      BY Zenon, <2>1, <2>3 DEF Differ
    <3>2. m[h][j].ppn \in Frames /\ own[m[h][j].ppn] = Mid(s, j)
      BY Zenon, <2>1, <3>1 DEF Tree, MidsAt
    <3> QED
      BY Zenon, <3>1, <3>2, PlaceNobody DEF Gives
  <2> QED
    BY Zenon, <2>2, <2>3
<1>2. LowsAt(e, o)
  <2> SUFFICES ASSUME NEW h \in Frames, NEW s \in Spaces, NEW k \in Indices, NEW j \in Indices,
                      o[h] = Mid(s, k), e[h][j] # Nil
               PROVE  e[h][j].ppn \in Frames /\ o[e[h][j].ppn] = Low(s, k, j)
    BY Zenon DEF LowsAt
  <2>1. h # f /\ own[h] = Mid(s, k)
    BY Zenon DEF Gives, Empty
  <2>2. CASE h = g /\ j = i
    BY Zenon, <2>1, <2>2 DEF Joins, Gives
  <2>3. CASE ~(h = g /\ j = i)
    <3>1. e[h][j] = m[h][j]
      BY Zenon, <2>1, <2>3 DEF Differ
    <3>2. m[h][j].ppn \in Frames /\ own[m[h][j].ppn] = Low(s, k, j)
      BY Zenon, <2>1, <3>1 DEF Tree, LowsAt
    <3> QED
      <4>1. m[h][j].ppn # f
        BY Zenon, <3>2, LowNobody
      <4> QED
        BY Zenon, <3>1, <3>2, <4>1 DEF Gives
  <2> QED
    BY Zenon, <2>2, <2>3
<1> QED
  BY Zenon, <1>1, <1>2

(* A new space: its root is an empty table, so it translates nothing.      *)
RootAdded(r, q, s, f) == r[s] = Nil /\ q[s] = f /\ \A t \in Spaces : t # s => q[t] = r[t]
NewSpace(m, e, q, s) ==
    /\ \A t \in Spaces : t # s /\ q[t] # Nil => \A v \in Pages : SameWalk(m, e, q[t], v)
    /\ \A v \in Pages : WalkIn(e, q[s], v) = Nil
LEMMA AddRoot ==
    ASSUME NEW m, NEW e, NEW r, NEW q, NEW own, NEW o, Tree(m, r, own), NEW s \in Spaces,
           NEW f \in Frames, own[f] = Nobody, SameBut(m, e, {f}), Empty(e[f]), Gives(own, o, f, Top(s)),
           RootAdded(r, q, s, f)
    PROVE  Tree(e, q, o) /\ NewSpace(m, e, q, s)
<1> USE DEF RootAdded
<1>1. RootsAt(q, o)
  <2> SUFFICES ASSUME NEW t \in Spaces, q[t] # Nil PROVE q[t] \in Frames /\ o[q[t]] = Top(t)
    BY DEF RootsAt
  <2>1. CASE t = s
    BY <2>1 DEF Gives
  <2>2. CASE t # s
    <3>1. q[t] = r[t] /\ r[t] \in Frames /\ own[r[t]] = Top(t)
      BY Zenon, <2>2 DEF Tree, RootsAt
    <3> QED
      BY Zenon, <3>1, PlaceNobody DEF Gives
  <2> QED
    BY Zenon, <2>1, <2>2
<1>2. MidsAt(e, o) /\ LowsAt(e, o)
  <2>1. Differ(m, e, f, f, 0)
    BY DEF Differ, SameBut
  <2>2. Joins(e, own, f, f, 0, Top(s))
    BY Zenon, PlaceNobody DEF Joins
  <2> QED
    BY Zenon, <2>1, <2>2, Grow
<1>3. \A t \in Spaces : t # s /\ q[t] # Nil => \A v \in Pages : SameWalk(m, e, q[t], v)
  BY Zenon, WriteFree
<1>4. \A v \in Pages : WalkIn(e, q[s], v) = Nil
  <2> TAKE v \in Pages
  <2>1. Entry2(e, q[s], v) = Nil
    BY VpnIn DEF Entry2, Empty
  <2> QED
    BY Zenon, <2>1 DEF WalkIn
<1> QED
  BY Zenon, <1>1, <1>2, <1>3, <1>4 DEF Tree, NewSpace

(* A missing table is linked below the root of space b, on the path of w.  *)
LEMMA Link2 ==
    ASSUME NEW m, NEW e, NEW r, NEW own, NEW o, Tree(m, r, own), NEW b \in Spaces, r[b] # Nil,
           NEW w \in Pages, Entry2(m, r[b], w) = Nil,
           NEW f \in Frames, own[f] = Nobody, Empty(e[f]), Gives(own, o, f, Mid(b, Vpn(w, 2))),
           Differ(m, e, f, r[b], Vpn(w, 2)), e[r[b]][Vpn(w, 2)].ppn = f
    PROVE  /\ Tree(e, r, o)
           /\ \A s \in Spaces : r[s] # Nil => \A v \in Pages : SameWalk(m, e, r[s], v)
<1> DEFINE g == r[b]
           i == Vpn(w, 2)
<1>0. g \in Frames /\ own[g] = Top(b)
  BY Zenon DEF Tree, RootsAt
<1>1. RootsAt(r, o)
  BY Zenon, PlaceNobody DEF Gives, Tree, RootsAt
<1>2. MidsAt(e, o) /\ LowsAt(e, o)
  <2>1. Joins(e, own, f, g, i, Mid(b, i))
    BY Zenon, <1>0, TopOne, TopNotMid DEF Joins
  <2> QED
    BY Zenon, <2>1, Grow
<1>3. ASSUME NEW s \in Spaces, r[s] # Nil, NEW v \in Pages PROVE SameWalk(m, e, r[s], v)
  <2>1. CASE s = b /\ Vpn(v, 2) = i
    <3>1. Entry2(m, r[s], v) = Nil
      BY Zenon, <2>1 DEF Entry2
    <3>2. Entry1(e, r[s], v) = Nil
      BY Zenon, <2>1, VpnIn DEF Entry1, Entry2, Empty
    <3> QED
      BY Zenon, <3>1, <3>2 DEF SameWalk, WalkIn
  <2>2. CASE ~(s = b /\ Vpn(v, 2) = i)
    <3>1. own[g] = Top(s) => Vpn(v, 2) # i
      BY Zenon, <1>0, <2>2, TopOne
    <3>2. Misses(own, g, i, s, v)
      BY Zenon, <1>0, <3>1, TopNotMid, TopNotLow DEF Misses
    <3> HIDE DEF g, i
    <3>3. Differ(m, e, f, g, i) /\ (f \in Frames => own[f] = Nobody)
      BY Zenon DEF g, i
    <3> QED
      BY Zenon, <1>3, <3>2, <3>3, OffPath
  <2> QED
    BY Zenon, <2>1, <2>2
<1> QED
  BY Zenon, <1>1, <1>2, <1>3 DEF Tree

(* The same one level down.                                                *)
LEMMA Link1 ==
    ASSUME NEW m, NEW e, NEW r, NEW own, NEW o, Tree(m, r, own), NEW b \in Spaces, r[b] # Nil,
           NEW w \in Pages, Entry2(m, r[b], w) # Nil, Entry1(m, r[b], w) = Nil,
           NEW f \in Frames, own[f] = Nobody, Empty(e[f]), Gives(own, o, f, Low(b, Vpn(w, 2), Vpn(w, 1))),
           NEW g, g = Entry2(m, r[b], w).ppn, Differ(m, e, f, g, Vpn(w, 1)), e[g][Vpn(w, 1)].ppn = f
    PROVE  /\ Tree(e, r, o)
           /\ \A s \in Spaces : r[s] # Nil => \A v \in Pages : SameWalk(m, e, r[s], v)
<1> DEFINE i == Vpn(w, 1)
<1>0. /\ g \in Frames /\ own[g] = Mid(b, Vpn(w, 2)) /\ \A s : own[g] # Top(s)
      /\ r[b] \in Frames /\ own[r[b]] = Top(b)
      /\ \A s, k : own[g] = Mid(s, k) => s = b /\ k = Vpn(w, 2)
  <2>1. Path(m, own, r[b], b, w)
    BY PathFacts
  <2>2. g \in Frames /\ own[g] = Mid(b, Vpn(w, 2)) /\ r[b] \in Frames /\ own[r[b]] = Top(b)
    BY Zenon, <2>1 DEF Path
  <2>3. \A s : own[g] # Top(s)
    BY Zenon, <2>2, TopNotMid
  <2>4. ASSUME NEW s, NEW k, own[g] = Mid(s, k) PROVE s = b /\ k = Vpn(w, 2)
    <3>1. Mid(s, k) = Mid(b, Vpn(w, 2))
      BY Zenon, <2>2, <2>4
    <3> QED
      BY <3>1, MidOne
  <2> QED
    BY Zenon, <2>2, <2>3, <2>4
<1>1. RootsAt(r, o)
  BY Zenon, PlaceNobody DEF Gives, Tree, RootsAt
<1>2. MidsAt(e, o) /\ LowsAt(e, o)
  <2>1. Joins(e, own, f, g, i, Low(b, Vpn(w, 2), i))
    BY Zenon, <1>0 DEF Joins
  <2> QED
    BY Zenon, <2>1, Grow
<1>3. ASSUME NEW s \in Spaces, r[s] # Nil, NEW v \in Pages PROVE SameWalk(m, e, r[s], v)
  <2>1. CASE s = b /\ Vpn(v, 2) = Vpn(w, 2) /\ Vpn(v, 1) = i
    <3>0. r[b] \in Frames /\ own[r[b]] = Top(b) /\ Vpn(w, 2) \in Indices /\ Vpn(v, 1) \in Indices /\ Vpn(v, 0) \in Indices
      BY Zenon, <1>0, VpnIn
    <3>1. Entry2(m, r[s], v) = Entry2(m, r[b], w) /\ Entry1(m, r[s], v) = Nil
      BY Zenon, <2>1 DEF Entry2, Entry1
    <3>2. Entry2(e, r[s], v) = Entry2(m, r[b], w)
      <4>1. r[b] # f /\ r[b] # g
        BY Zenon, <1>0, <3>0, TopNotMid, TopNobody
      <4> QED
        BY Zenon, <2>1, <3>0, <4>1 DEF Entry2, Differ
    <3>3. Entry1(e, r[s], v).ppn = f
      BY Zenon, <2>1, <3>2 DEF Entry1
    <3>4. Entry0(e, r[s], v) = Nil
      BY Zenon, <3>0, <3>3 DEF Entry0, Empty
    <3> QED
      BY Zenon, <3>1, <3>4 DEF SameWalk, WalkIn
  <2>2. CASE ~(s = b /\ Vpn(v, 2) = Vpn(w, 2) /\ Vpn(v, 1) = i)
    <3>1. own[g] = Mid(s, Vpn(v, 2)) => Vpn(v, 1) # i
      BY Zenon, <1>0, <2>2
    <3>2. Misses(own, g, i, s, v)
      BY Zenon, <1>0, <3>1, TopNotMid, MidNotLow DEF Misses
    <3> HIDE DEF i
    <3>3. Differ(m, e, f, g, i) /\ (f \in Frames => own[f] = Nobody)
      BY Zenon DEF i
    <3> QED
      BY Zenon, <1>3, <3>2, <3>3, OffPath
  <2> QED
    BY Zenon, <2>1, <2>2
<1> QED
  BY Zenon, <1>1, <1>2, <1>3 DEF Tree

(* The leaf of page w is written: the translation of w in space b, and no  *)
(* other, is now what was written.                                         *)
LeafAt(m, r, b, w, g) ==
    r[b] # Nil /\ Entry2(m, r[b], w) # Nil /\ Entry1(m, r[b], w) # Nil /\ g = Entry1(m, r[b], w).ppn
OnePage(m, e, r, b, w, g) ==
    /\ \A s \in Spaces : r[s] # Nil => \A v \in Pages : s # b \/ v # w => SameWalk(m, e, r[s], v)
    /\ WalkIn(m, r[b], w) = m[g][Vpn(w, 0)] /\ WalkIn(e, r[b], w) = e[g][Vpn(w, 0)]
LEMMA LeafWrite ==
    ASSUME NEW m, NEW e, NEW r, NEW own, Tree(m, r, own), NEW b \in Spaces, NEW w \in Pages,
           NEW g, LeafAt(m, r, b, w, g), Differ(m, e, Nil, g, Vpn(w, 0))
    PROVE  Tree(e, r, own) /\ OnePage(m, e, r, b, w, g)
<1> USE DEF LeafAt
<1> DEFINE i == Vpn(w, 0)
           y == Entry2(m, r[b], w).ppn
<1>0. /\ g \in Frames /\ own[g] = Low(b, Vpn(w, 2), Vpn(w, 1))
      /\ r[b] \in Frames /\ own[r[b]] = Top(b) /\ y \in Frames /\ own[y] = Mid(b, Vpn(w, 2))
  <2>1. Path(m, own, r[b], b, w)
    BY PathFacts
  <2> QED
    BY Zenon, <2>1 DEF Path
<1>1. Nil \notin Frames
  BY FrameFacts
<1>2. \A h \in Frames, j \in Indices : h # g => e[h][j] = m[h][j]
  BY Zenon, <1>1 DEF Differ
<1>3. \A s, k : own[g] # Top(s) /\ own[g] # Mid(s, k)
  BY Zenon, <1>0, TopNotLow, MidNotLow
<1>4. MidsAt(e, own)
  <2> SUFFICES ASSUME NEW h \in Frames, NEW s \in Spaces, NEW j \in Indices, own[h] = Top(s), e[h][j] # Nil
               PROVE  e[h][j].ppn \in Frames /\ own[e[h][j].ppn] = Mid(s, j)
    BY Zenon DEF MidsAt
  <2>1. e[h][j] = m[h][j]
    BY Zenon, <1>2, <1>3
  <2> QED
    BY Zenon, <2>1 DEF Tree, MidsAt
<1>5. LowsAt(e, own)
  <2> SUFFICES ASSUME NEW h \in Frames, NEW s \in Spaces, NEW k \in Indices, NEW j \in Indices,
                      own[h] = Mid(s, k), e[h][j] # Nil
               PROVE  e[h][j].ppn \in Frames /\ own[e[h][j].ppn] = Low(s, k, j)
    BY Zenon DEF LowsAt
  <2>1. h # g
    BY Zenon, <1>3
  <2>2. e[h][j] = m[h][j]
    BY Zenon, <1>2, <2>1
  <2>3. LowsAt(m, own)
    BY DEF Tree
  <2>4. m[h][j] # Nil
    BY Zenon, <2>2
  <2>5. m[h][j].ppn \in Frames /\ own[m[h][j].ppn] = Low(s, k, j)
    BY <2>3, <2>4 DEF LowsAt
  <2> QED
    BY Zenon, <2>2, <2>5
<1>6. ASSUME NEW s \in Spaces, r[s] # Nil, NEW v \in Pages, s # b \/ v # w PROVE SameWalk(m, e, r[s], v)
  <2>1. ~(s = b /\ Vpn(v, 2) = Vpn(w, 2) /\ Vpn(v, 1) = Vpn(w, 1) /\ Vpn(v, 0) = i)
    BY Zenon, <1>6, VpnUnique
  <2>2. own[g] = Low(s, Vpn(v, 2), Vpn(v, 1)) => Vpn(v, 0) # i
    <3> SUFFICES ASSUME own[g] = Low(s, Vpn(v, 2), Vpn(v, 1)) PROVE Vpn(v, 0) # i
      BY Zenon
    <3>1. Low(s, Vpn(v, 2), Vpn(v, 1)) = Low(b, Vpn(w, 2), Vpn(w, 1))
      BY Zenon, <1>0
    <3>2. s = b /\ Vpn(v, 2) = Vpn(w, 2) /\ Vpn(v, 1) = Vpn(w, 1)
      BY <3>1, LowOne
    <3> QED
      BY Zenon, <2>1, <3>2
  <2>3. Misses(own, g, i, s, v) /\ (Nil \in Frames => own[Nil] = Nobody)
    BY Zenon, <1>1, <1>3, <2>2 DEF Misses
  <2> HIDE DEF i
  <2>4. Differ(m, e, Nil, g, i)
    BY Zenon DEF i
  <2> QED
    BY Zenon, <1>6, <2>3, <2>4, OffPath
<1>7. /\ WalkIn(m, r[b], w) = m[g][i] /\ WalkIn(e, r[b], w) = e[g][i]
  <2>0. Vpn(w, 2) \in Indices /\ Vpn(w, 1) \in Indices
    BY VpnIn
  <2>1. r[b] # g /\ y # g
    BY Zenon, <1>0, <1>3
  <2>2. Entry2(e, r[b], w) = Entry2(m, r[b], w)
    BY Zenon, <1>0, <1>2, <2>0, <2>1 DEF Entry2
  <2>3. Entry1(e, r[b], w) = Entry1(m, r[b], w)
    BY Zenon, <1>0, <1>2, <2>0, <2>1, <2>2 DEF Entry1
  <2>4. Entry0(e, r[b], w) = e[g][i] /\ Entry0(m, r[b], w) = m[g][i]
    BY Zenon, <2>3 DEF Entry0
  <2> QED
    BY Zenon, <2>2, <2>3, <2>4 DEF WalkIn
<1> QED
  BY Zenon, <1>4, <1>5, <1>6, <1>7 DEF Tree, OnePage

-----------------------------------------------------------------------------
(* Each step keeps the invariant.                                          *)
LEMMA RangesKept == ASSUME UNCHANGED dma PROVE \A s : RangesOf(s)' = RangesOf(s)
BY DEF RangesOf, UserRanges, DeviceRanges

LEMMA RangesKeptB == ASSUME UNCHANGED <<dma, building>> PROVE RangesOf(building)' = RangesOf(building)
BY DEF RangesOf, UserRanges, DeviceRanges

LEMMA PageKept ==
    ASSUME NEW s, NEW v, PageOk(s, v), WalkIn(mem', root'[s], v) = WalkIn(mem, root[s], v),
           RangesOf(s)' = RangesOf(s), Left(s, v)' <=> Left(s, v)
    PROVE  PageOk(s, v)'
<1>1. Wanted(s, v)' <=> Wanted(s, v)
  BY Zenon DEF Wanted
<1>2. \A pte : Meant(s, v, pte)' <=> Meant(s, v, pte)
  BY Zenon DEF Meant
<1> DEFINE x == WalkIn(mem, root[s], v)
<1>3. Meant(s, v, WalkIn(mem, root[s], v))' <=> Meant(s, v, x)
  BY Zenon DEF Meant
<1>4. WalkIn(mem, root[s], v)' = x
  OBVIOUS
<1> HIDE DEF x
<1> QED
  BY Zenon, <1>1, <1>3, <1>4 DEF PageOk, x

LEMMA SpacesKept ==
    ASSUME SpaceInv, UNCHANGED <<root, dma>>, \A s, v : Left(s, v)' <=> Left(s, v),
           \A s \in Spaces : root[s] # Nil => \A v \in Pages : SameWalk(mem, mem', root[s], v)
    PROVE  SpaceInv'
<1> SUFFICES ASSUME NEW s \in Spaces, root'[s] # Nil, NEW v \in Pages PROVE PageOk(s, v)'
  BY DEF SpaceInv
<1>1. WalkIn(mem', root'[s], v) = WalkIn(mem, root[s], v) /\ PageOk(s, v)
  BY Zenon DEF SameWalk, SpaceInv
<1> QED
  BY <1>1, RangesKept, PageKept

LEMMA Idle ==
    ASSUME MemInv, UNCHANGED <<bitmap, mem, root, dma, building, todo, walk, phase, scratch>>,
           panic' \in {Nil, "no_frame"}
    PROVE  MemInv'
<1>1. MemType' /\ NoAssertionFails'
  BY DEF MemInv, MemType, NoAssertionFails
<1>2. TreeInv'
  BY DEF MemInv, TreeInv, Unlinked
<1>3. ProbeInv'
  BY DEF MemInv, ProbeInv, FreeFrames
<1>4. BuildInv'
  BY RangesKeptB DEF MemInv, BuildInv
<1>5. WalkInv'
  BY Zenon DEF MemInv, WalkInv, Va
<1>6. SpaceInv'
  BY SpacesKept DEF MemInv, Left, SameWalk
<1> QED
  BY <1>1, <1>2, <1>3, <1>4, <1>5, <1>6 DEF MemInv

LEMMA DmaThere == MemType /\ BuildInv => \A s \in Spaces : root[s] # Nil => HasDma(s)
BY Zenon, MemoryAssumption DEF MemType, BuildInv, HasDma

LEMMA SeqFacts ==
    ASSUME NEW q \in Seq(Ranges), q # <<>>
    PROVE  /\ 1 \in DOMAIN q /\ Head(q) = q[1] /\ Head(q) \in Ranges /\ Tail(q) \in Seq(Ranges)
           /\ \A k \in DOMAIN Tail(q) : k + 1 \in DOMAIN q /\ k + 1 # 1 /\ Tail(q)[k] = q[k + 1]
           /\ \A k \in DOMAIN q : k # 1 => k - 1 \in DOMAIN Tail(q) /\ Tail(q)[k - 1] = q[k]
           /\ \A k, l \in DOMAIN Tail(q) : k # l => k + 1 # l + 1
<1>1. Len(q) \in Nat /\ Len(q) > 0 /\ DOMAIN q = 1 .. Len(q)
  OBVIOUS
<1>2. 1 \in DOMAIN q /\ Head(q) = q[1] /\ Head(q) \in Ranges /\ Tail(q) \in Seq(Ranges)
  BY <1>1
<1>3. DOMAIN Tail(q) = 1 .. (Len(q) - 1) /\ \A k \in 1 .. (Len(q) - 1) : Tail(q)[k] = q[k + 1]
  BY <1>1
<1>4. \A k \in DOMAIN q : k # 1 => k - 1 \in DOMAIN Tail(q) /\ Tail(q)[k - 1] = q[(k - 1) + 1] /\ (k - 1) + 1 = k
  BY <1>1, <1>3
<1> QED
  BY <1>1, <1>2, <1>3, <1>4

(* The page map_page is called for: in the space's ranges, and left to do. *)
LEMMA VaFacts ==
    ASSUME MemType, BuildInv, building # Nil, todo # <<>>, More(Head(todo))
    PROVE  /\ building \in Spaces /\ HasDma(building) /\ Va \in Pages
           /\ Head(todo) \in Ranges /\ Covers(Head(todo), Va)
           /\ \E k \in DOMAIN RangesOf(building) :
                 /\ Covers(RangesOf(building)[k], Va) /\ Head(todo).flags = RangesOf(building)[k].flags
<1> DEFINE b == building
           h == Head(todo)
<1>1. b \in Spaces /\ HasDma(b)
  BY Zenon, DmaThere DEF MemType, BuildInv
<1>2. h \in Ranges /\ h = todo[1] /\ 1 \in DOMAIN todo
  BY Zenon, SeqFacts DEF MemType
<1>3. h.from \in Nat /\ h.to \in Nat /\ Va = h.from /\ h.from < h.to
  BY <1>2 DEF Ranges, Va, More
<1>4. PICK k \in DOMAIN RangesOf(b) : RangesOf(b)[k].from <= h.from /\ h.to = RangesOf(b)[k].to /\ h.flags = RangesOf(b)[k].flags
  BY Zenon, <1>2 DEF BuildInv, Part
<1>5. RangesOf(b)[k] \in Ranges /\ InMemory(RangesOf(b)[k])
  BY Zenon, <1>1, RangesFit DEF Fit
<1> HIDE DEF h
<1>6. Covers(h, Va) /\ Covers(RangesOf(b)[k], Va)
  BY <1>3, <1>4 DEF Covers
<1>7. Va \in Pages
  <2> DEFINE top == RADIX * RADIX * RADIX
  <2>1. top \in Nat /\ h.to <= top
    BY <1>4, <1>5, MemoryAssumption DEF InMemory
  <2> HIDE DEF top
  <2>2. Va \in 0 .. (top - 1)
    BY <1>3, <2>1
  <2> QED
    BY <2>2 DEF top, Pages
<1> QED
  BY <1>1, <1>2, <1>4, <1>6, <1>7 DEF h

LEMMA RangeDoneKeeps == ASSUME MemInv, RangeDone PROVE MemInv'
<1> DEFINE h == Head(todo)
<1>0. /\ building # Nil /\ todo # <<>> /\ walk = Nil /\ ~More(h) /\ todo' = Tail(todo)
      /\ UNCHANGED <<bitmap, mem, root, dma, building, walk, phase, scratch, panic>>
  BY DEF RangeDone, allocVars, bootVars
<1>1. todo \in Seq(Ranges)
  BY DEF MemInv, MemType
<1> DEFINE tl == Tail(todo)
<1>2. /\ 1 \in DOMAIN todo /\ h = todo[1] /\ h \in Ranges /\ tl \in Seq(Ranges)
      /\ \A k \in DOMAIN tl : k + 1 \in DOMAIN todo /\ k + 1 # 1 /\ tl[k] = todo[k + 1]
      /\ \A k \in DOMAIN todo : k # 1 => k - 1 \in DOMAIN tl /\ tl[k - 1] = todo[k]
      /\ \A k, l \in DOMAIN tl : k # l => k + 1 # l + 1
  BY <1>0, <1>1, SeqFacts
<1>3. \A v \in Pages : ~Covers(h, v)
  BY <1>0, <1>2, FrameFacts DEF More, Covers, Ranges
<1> HIDE DEF h, tl
<1>4. MemType' /\ NoAssertionFails'
  BY <1>0, <1>2 DEF MemInv, MemType, NoAssertionFails, tl
<1>5. TreeInv'
  BY Zenon, <1>0 DEF MemInv, TreeInv, Unlinked
<1>6. ProbeInv'
  BY <1>0 DEF MemInv, ProbeInv, FreeFrames
<1>7. BuildInv'
  <2>1. \A k \in DOMAIN todo : Part(todo[k], RangesOf(building))
    BY DEF MemInv, BuildInv
  <2>2. \A k \in DOMAIN tl : Part(tl[k], RangesOf(building))
    BY Zenon, <1>2, <2>1
  <2>3. \A k, l \in DOMAIN tl : k # l => Apart(tl[k], tl[l])
    BY <1>2 DEF MemInv, BuildInv
  <2>4. \A k \in DOMAIN todo' : Part(todo[k], RangesOf(building))'
    BY Zenon, <1>0, <2>2, RangesKeptB DEF tl
  <2> QED
    BY <1>0, <2>3, <2>4 DEF MemInv, BuildInv, tl
<1>8. WalkInv'
  BY <1>0 DEF WalkInv
<1>9. SpaceInv'
  <2>1. \A v \in Pages : (\E k \in DOMAIN tl : Covers(tl[k], v)) <=> (\E k \in DOMAIN todo : Covers(todo[k], v))
    BY Zenon, <1>2, <1>3
  <2> SUFFICES ASSUME NEW s \in Spaces, root'[s] # Nil, NEW v \in Pages PROVE PageOk(s, v)'
    BY DEF SpaceInv
  <2>2. Left(s, v)' <=> Left(s, v)
    BY Zenon, <1>0, <2>1 DEF Left, tl
  <2>3. PageOk(s, v) /\ WalkIn(mem', root'[s], v) = WalkIn(mem, root[s], v)
    BY SMTT(20), <1>0 DEF MemInv, SpaceInv
  <2> QED
    BY <1>0, <2>2, <2>3, PageKept, RangesKept
<1> QED
  BY <1>4, <1>5, <1>6, <1>7, <1>8, <1>9 DEF MemInv

LEMMA MapPageStartKeeps == ASSUME MemInv, MapPageStart PROVE MemInv'
<1>0. /\ building # Nil /\ todo # <<>> /\ More(Head(todo))
      /\ walk' = [level |-> 2, table |-> root[building]]
      /\ UNCHANGED <<bitmap, mem, root, dma, building, todo, phase, scratch, panic>>
  BY DEF MapPageStart, allocVars, bootVars
<1>1. building \in Spaces /\ root[building] \in Frames
  BY Zenon, <1>0 DEF MemInv, MemType, BuildInv
<1>2. /\ walk' \in [level : 0 .. 2, table : Frames] /\ walk'.level = 2 /\ walk'.table = root[building]
  BY <1>0, <1>1
<1>3. MemType' /\ NoAssertionFails'
  BY Zenon, <1>0, <1>2 DEF MemInv, MemType, NoAssertionFails
<1>4. TreeInv'
  BY Zenon, <1>0 DEF MemInv, TreeInv, Unlinked
<1>5. ProbeInv'
  BY Zenon, <1>0 DEF MemInv, ProbeInv, FreeFrames
<1>6. BuildInv'
  BY Zenon, <1>0, RangesKeptB DEF MemInv, BuildInv
<1>7. WalkInv'
  BY <1>0, <1>2 DEF WalkInv
<1>8. SpaceInv'
  BY Zenon, <1>0, SpacesKept DEF MemInv, Left, SameWalk
<1> QED
  BY <1>3, <1>4, <1>5, <1>6, <1>7, <1>8 DEF MemInv

LEMMA BuiltKeeps == ASSUME MemInv, Built PROVE MemInv'
<1>0. /\ building # Nil /\ todo = <<>> /\ building' = Nil
      /\ phase' = (IF building = Master THEN "probe" ELSE phase)
      /\ UNCHANGED <<bitmap, mem, root, dma, todo, walk, scratch, panic>>
  BY DEF Built, allocVars
<1>1. phase = (IF building = Master THEN "master" ELSE "spawn")
  BY <1>0 DEF MemInv, ProbeInv
<1>2. MemType' /\ NoAssertionFails'
  BY <1>0 DEF MemInv, MemType, NoAssertionFails
<1>3. TreeInv'
  BY <1>0, <1>1 DEF MemInv, TreeInv, Unlinked
<1>4. ProbeInv'
  BY <1>0, <1>1 DEF MemInv, ProbeInv, FreeFrames
<1>5. walk = Nil
  BY <1>0 DEF MemInv, WalkInv
<1>6. BuildInv'
  BY <1>0, <1>5 DEF MemInv, BuildInv
<1>7. WalkInv'
  BY <1>0, <1>5 DEF WalkInv
<1>8. SpaceInv'
  <2>1. \A s, v : ~Left(s, v) /\ ~Left(s, v)'
    BY <1>0 DEF Left
  <2> QED
    BY <1>0, <2>1, SpacesKept DEF MemInv, SameWalk
<1> QED
  BY <1>2, <1>3, <1>4, <1>6, <1>7, <1>8 DEF MemInv

(* map_page is at the table of its level, on the path of its page.         *)
LEMMA WalkFacts ==
    ASSUME MemInv, walk # Nil
    PROVE  /\ building # Nil /\ building \in Spaces /\ root[building] # Nil /\ Va \in Pages
           /\ todo # <<>> /\ More(Head(todo))
           /\ walk.level \in 0 .. 2 /\ walk.table \in Frames
           /\ walk.level = 2 => walk.table = root[building]
           /\ walk.level < 2 => Entry2(mem, root[building], Va) # Nil
           /\ walk.level = 1 => walk.table = Entry2(mem, root[building], Va).ppn
           /\ walk.level = 0 => /\ Entry1(mem, root[building], Va) # Nil
                                /\ walk.table = Entry1(mem, root[building], Va).ppn
<1>1. walk.level \in 0 .. 2 /\ walk.table \in Frames
  BY DEF MemInv, MemType
<1>2. building # Nil /\ todo # <<>> /\ More(Head(todo))
  BY Zenon DEF MemInv, WalkInv
<1>3. building \in Spaces /\ root[building] # Nil /\ Va \in Pages
  BY Zenon, <1>2, VaFacts DEF MemInv, BuildInv
<1> QED
  BY Zenon, <1>1, <1>2, <1>3 DEF MemInv, WalkInv

LEMMA WalkLevel ==
    ASSUME MemInv, walk # Nil, walk.level > 0
    PROVE  walk.level \in {1, 2} /\ walk.level - 1 \in 0 .. 2
<1>1. walk.level \in 0 .. 2
  BY Zenon, WalkFacts
<1> QED
  BY <1>1

(* One level down through a table that is there.                           *)
LEMMA DescendKeeps ==
    ASSUME MemInv, walk # Nil, walk.level > 0, mem[walk.table][Vpn(Va, walk.level)] # Nil,
           walk' = [level |-> walk.level - 1, table |-> mem[walk.table][Vpn(Va, walk.level)].ppn],
           UNCHANGED <<bitmap, mem, root, dma, building, todo, phase, scratch, panic>>
    PROVE  MemInv'
<1> DEFINE b == building
           pte == mem[walk.table][Vpn(Va, walk.level)]
<1>1. PICK own : Tree(mem, root, own)
  BY Zenon DEF MemInv, TreeInv
<1>0. walk.level \in {1, 2} /\ walk.level - 1 \in 0 .. 2
  BY WalkLevel
<1>2. /\ walk.level = 2 => pte = Entry2(mem, root[b], Va)
      /\ walk.level = 1 => pte = Entry1(mem, root[b], Va) /\ Entry2(mem, root[b], Va) # Nil
      /\ b \in Spaces /\ root[b] # Nil /\ Va \in Pages
  <2>1. walk.level = 1 => walk.level < 2
    OBVIOUS
  <2> QED
    BY Zenon, <2>1, WalkFacts DEF Entry2, Entry1
<1>3. pte.ppn \in Frames
  <2>1. Path(mem, own, root[b], b, Va)
    BY Zenon, <1>1, <1>2, PathFacts
  <2> QED
    BY Zenon, <1>0, <1>2, <2>1 DEF Path
<1> HIDE DEF pte
<1>4. /\ walk' \in [level : 0 .. 2, table : Frames] /\ walk'.level = walk.level - 1 /\ walk'.table = pte.ppn
  <2>1. walk' = [level |-> walk.level - 1, table |-> pte.ppn]
    BY DEF pte
  <2> QED
    BY SMTT(20), <1>0, <1>3, <2>1
<1>5. MemType' /\ NoAssertionFails'
  BY Zenon, <1>4 DEF MemInv, MemType, NoAssertionFails
<1>6. TreeInv'
  BY Zenon DEF MemInv, TreeInv, Unlinked
<1>7. ProbeInv'
  BY Zenon DEF MemInv, ProbeInv, FreeFrames
<1>8. BuildInv'
  BY Zenon, WalkFacts, RangesKeptB DEF MemInv, BuildInv
<1>9. WalkInv'
  <2>1. Va' = Va
    BY Zenon DEF Va
  <2>2. pte # Nil
    BY Zenon DEF pte
  <2>3. Entry2(mem, root[b], Va) # Nil /\ (walk.level = 1 => Entry1(mem, root[b], Va) # Nil)
    BY Zenon, <1>0, <1>2, <2>2
  <2>4. building # Nil /\ todo # <<>> /\ More(Head(todo))
    BY Zenon, WalkFacts
  <2>5. CASE walk.level = 2
    <3>1. walk'.level = 1 /\ 1 # 2 /\ 1 # 0
      BY <1>4, <2>5
    <3> QED
      BY Zenon, <1>2, <1>4, <2>1, <2>3, <2>4, <2>5, <3>1 DEF WalkInv
  <2>6. CASE walk.level = 1
    <3>1. walk'.level = 0 /\ 0 # 2 /\ 0 # 1
      BY <1>4, <2>6
    <3> QED
      BY Zenon, <1>2, <1>4, <2>1, <2>3, <2>4, <2>6, <3>1 DEF WalkInv
  <2> QED
    BY Zenon, <1>0, <2>5, <2>6
<1>10. SpaceInv'
  BY Zenon, SpacesKept DEF MemInv, Left, SameWalk
<1> QED
  BY Zenon, <1>5, <1>6, <1>7, <1>8, <1>9, <1>10 DEF MemInv

(* alloc hands out a frame that was free, so one with no place.            *)
LEMMA TakeFacts ==
    ASSUME MemType, FreeFrames # {}, Take(LowestFree)
    PROVE  /\ LowestFree \in Frames /\ ~bitmap[LowestFree]
           /\ bitmap' \in [Frames -> BOOLEAN] /\ bitmap'[LowestFree]
           /\ \A g \in Frames : g # LowestFree => bitmap'[g] = bitmap[g]
           /\ FreeFrames' = FreeFrames \ {LowestFree}
           /\ \A own : Unlinked(own) => own[LowestFree] = Nobody
<1> DEFINE f == LowestFree
<1>1. f \in Frames /\ ~bitmap[f]
  BY LowestFreeIn DEF FreeFrames
<1>2. bitmap' = [bitmap EXCEPT ![f] = TRUE] /\ bitmap \in [Frames -> BOOLEAN]
  BY DEF Take, MemType
<1> HIDE DEF f
<1>3. bitmap' \in [Frames -> BOOLEAN] /\ bitmap'[f] /\ \A g \in Frames : g # f => bitmap'[g] = bitmap[g]
  BY <1>1, <1>2
<1>4. FreeFrames' = FreeFrames \ {f}
  BY <1>1, <1>2 DEF FreeFrames
<1>5. \A own : Unlinked(own) => own[f] = Nobody
  BY <1>1 DEF Unlinked
<1> QED
  BY <1>1, <1>3, <1>4, <1>5 DEF f

(* The writes of one level of map_page, frame by frame.                    *)
LEMMA LinkWrites ==
    ASSUME NEW m \in [Frames -> Tables], NEW f \in Frames, NEW g \in Frames, f # g, NEW i \in Indices,
           NEW e, e = [m EXCEPT ![f] = ZeroTable, ![g] = [@ EXCEPT ![i] = Pte(f, {})]]
    PROVE  /\ e \in [Frames -> Tables] /\ Empty(e[f]) /\ e[g][i] = Pte(f, {}) /\ Differ(m, e, f, g, i)
<1> DEFINE t == [m[g] EXCEPT ![i] = Pte(f, {})]
<1>1. m[g] \in [Indices -> Ptes \cup {Nil}] /\ Pte(f, {}) \in Ptes
  BY FrameFacts, PteFacts DEF Tables
<1>2. t \in Tables /\ t[i] = Pte(f, {}) /\ \A j \in Indices : j # i => t[j] = m[g][j]
  BY <1>1 DEF Tables
<1>3. e = [m EXCEPT ![f] = ZeroTable, ![g] = t]
  BY Zenon
<1> HIDE DEF t
<1>4. e \in [Frames -> Tables] /\ e[f] = ZeroTable /\ e[g] = t /\ \A h \in Frames : h # f /\ h # g => e[h] = m[h]
  BY Zenon, <1>2, <1>3, FrameFacts
<1>5. Empty(e[f])
  BY <1>4, FrameFacts DEF Empty
<1> QED
  BY Zenon, <1>2, <1>4, <1>5 DEF Differ

(* A missing table is allocated and linked.                                *)
LEMMA LinkKeeps ==
    ASSUME MemInv, walk # Nil, walk.level > 0, mem[walk.table][Vpn(Va, walk.level)] = Nil,
           FreeFrames # {}, Take(LowestFree),
           mem' = [mem EXCEPT ![LowestFree] = Zeroed(LowestFree),
                              ![walk.table] = [@ EXCEPT ![Vpn(Va, walk.level)] = Pte(LowestFree, {})]],
           walk' = [level |-> walk.level - 1, table |-> LowestFree],
           UNCHANGED <<root, dma, building, todo, phase, scratch, panic>>
    PROVE  /\ MemInv' /\ \A s \in Spaces : root[s] # Nil => \A v \in Pages : SameWalk(mem, mem', root[s], v)
<1> DEFINE b == building
           f == LowestFree
           g == walk.table
           i == Vpn(Va, walk.level)
<1>0. walk.level \in {1, 2} /\ b \in Spaces /\ root[b] # Nil /\ Va \in Pages /\ g \in Frames /\ building # Nil
  BY Zenon, WalkFacts, WalkLevel
<1>1. PICK own : Tree(mem, root, own) /\ Unlinked(own)
  BY DEF MemInv, TreeInv
<1>2. /\ f \in Frames /\ ~bitmap[f] /\ bitmap' \in [Frames -> BOOLEAN] /\ bitmap'[f]
      /\ \A h \in Frames : h # f => bitmap'[h] = bitmap[h]
      /\ FreeFrames' = FreeFrames \ {f} /\ own[f] = Nobody
  BY Zenon, <1>1, TakeFacts DEF MemInv
<1>3. i \in Indices
  BY Zenon, <1>0, VpnIn
<1>4. /\ walk.level = 2 => g = root[b] /\ own[g] = Top(b)
      /\ walk.level = 1 => /\ Entry2(mem, root[b], Va) # Nil /\ g = Entry2(mem, root[b], Va).ppn
                           /\ own[g] = Mid(b, Vpn(Va, 2))
      /\ root[b] \in Frames /\ own[root[b]] = Top(b)
  <2>1. Path(mem, own, root[b], b, Va)
    BY Zenon, <1>0, <1>1, PathFacts
  <2>2. walk.level = 1 => walk.level < 2
    OBVIOUS
  <2>3. /\ walk.level = 2 => g = root[b]
        /\ walk.level = 1 => Entry2(mem, root[b], Va) # Nil /\ g = Entry2(mem, root[b], Va).ppn
    BY Zenon, <2>2, WalkFacts
  <2> QED
    BY Zenon, <2>1, <2>3 DEF Path
<1>5. f # g
  <2>1. CASE walk.level = 2
    BY Zenon, <2>1, <1>2, <1>4, TopNobody
  <2>2. CASE walk.level = 1
    BY ZenonT(30), <2>2, <1>2, <1>4, MidNobody
  <2> QED
    BY Zenon, <1>0, <2>1, <2>2
<1>6. /\ mem' \in [Frames -> Tables] /\ Empty(mem'[f]) /\ mem'[g][i] = Pte(f, {}) /\ Differ(mem, mem', f, g, i)
  <2>1. mem \in [Frames -> Tables]
    BY Zenon DEF MemInv, MemType
  <2>2. mem' = [mem EXCEPT ![f] = ZeroTable, ![g] = [@ EXCEPT ![i] = Pte(f, {})]]
    BY DEF Zeroed
  <2> HIDE DEF f, g, i
  <2> QED
    BY Zenon, <1>0, <1>2, <1>3, <1>5, <2>1, <2>2, LinkWrites
<1>7. Pte(f, {}).ppn = f /\ Pte(f, {}) # Nil
  BY Zenon, <1>2, FrameFacts, PteFacts
<1> DEFINE p == IF walk.level = 2 THEN Mid(b, Vpn(Va, 2)) ELSE Low(b, Vpn(Va, 2), Vpn(Va, 1))
<1>8. PICK o : Gives(own, o, f, p)
  <2> DEFINE o == [h \in Frames |-> IF h = f THEN p ELSE own[h]]
  <2>1. Gives(own, o, f, p)
    BY Zenon, <1>2 DEF Gives
  <2> QED
    BY Zenon, <2>1
<1>9. /\ Tree(mem', root, o)
      /\ \A s \in Spaces : root[s] # Nil => \A v \in Pages : SameWalk(mem, mem', root[s], v)
  <2>1. CASE walk.level = 2
    <3>1. p = Mid(b, Vpn(Va, 2)) /\ i = Vpn(Va, 2) /\ Entry2(mem, root[b], Va) = Nil
      BY Zenon, <2>1, <1>4 DEF Entry2
    <3>2. /\ Gives(own, o, f, Mid(b, Vpn(Va, 2))) /\ Differ(mem, mem', f, root[b], Vpn(Va, 2))
          /\ mem'[root[b]][Vpn(Va, 2)].ppn = f
      BY Zenon, <2>1, <3>1, <1>4, <1>6, <1>7, <1>8
    <3> HIDE DEF b, f, g, i, p
    <3> QED
      BY Zenon, <3>1, <3>2, <1>0, <1>1, <1>2, <1>6, Link2
  <2>2. CASE walk.level = 1
    <3>1. p = Low(b, Vpn(Va, 2), Vpn(Va, 1)) /\ i = Vpn(Va, 1) /\ Entry1(mem, root[b], Va) = Nil
      <4>1. 1 # 2
        OBVIOUS
      <4> QED
        BY Zenon, <2>2, <1>4, <4>1 DEF Entry1
    <3>2. /\ Gives(own, o, f, Low(b, Vpn(Va, 2), Vpn(Va, 1))) /\ Differ(mem, mem', f, g, Vpn(Va, 1))
          /\ mem'[g][Vpn(Va, 1)].ppn = f
      BY Zenon, <2>2, <3>1, <1>6, <1>7, <1>8
    <3>3. Entry2(mem, root[b], Va) # Nil /\ g = Entry2(mem, root[b], Va).ppn
      BY Zenon, <2>2, <1>4
    <3> HIDE DEF b, f, g, i, p
    <3> QED
      BY ZenonT(60), <3>1, <3>2, <3>3, <1>0, <1>1, <1>2, <1>6, Link1
  <2> QED
    BY Zenon, <1>0, <2>1, <2>2
<1>10. walk' \in [level : 0 .. 2, table : Frames] /\ walk'.level = walk.level - 1 /\ walk'.table = f
  <2>1. walk.level - 1 \in 0 .. 2
    BY Zenon, WalkLevel
  <2> QED
    BY <1>2, <2>1
<1>11. MemType' /\ NoAssertionFails'
  BY Zenon, <1>2, <1>6, <1>10 DEF MemInv, MemType, NoAssertionFails
<1>12. phase \in {"master", "spawn"}
  BY Zenon, <1>0 DEF MemInv, ProbeInv
<1>13. TreeInv'
  <2>1. Unlinked(o)'
    <3>1. \A h \in Frames : o[h] # Nobody => bitmap'[h]
      BY Zenon, <1>1, <1>2, <1>8 DEF Gives, Unlinked
    <3>2. ASSUME NEW c \in Components, dma[c] # Nil PROVE bitmap'[dma[c]] /\ o[dma[c]] = Nobody
      <4>1. dma[c] \in Frames /\ bitmap[dma[c]] /\ own[dma[c]] = Nobody
        BY Zenon, <1>1, <3>2 DEF Unlinked, MemInv, MemType
      <4> QED
        BY Zenon, <4>1, <1>2, <1>8 DEF Gives
    <3> QED
      BY <3>1, <3>2, <1>12 DEF Unlinked
  <2> QED
    BY Zenon, <1>9, <2>1 DEF TreeInv
<1>14. ProbeInv'
  BY Zenon, <1>2, <1>12 DEF MemInv, ProbeInv
<1>15. BuildInv'
  BY Zenon, <1>0, RangesKeptB DEF MemInv, BuildInv
<1>16. WalkInv'
  <2>0. Va' = Va
    BY DEF Va
  <2>1. CASE walk.level = 2
    <3>1. Entry2(mem', root[b], Va) = Pte(f, {})
      BY Zenon, <2>1, <1>4, <1>6 DEF Entry2
    <3> QED
      <4>1. walk'.level = 1 /\ 1 # 2 /\ 1 # 0
        BY <1>10, <2>1
      <4>2. building # Nil /\ todo # <<>> /\ More(Head(todo))
        BY Zenon, WalkFacts
      <4> QED
        BY Zenon, <2>0, <3>1, <1>7, <1>10, <4>1, <4>2 DEF WalkInv
  <2>2. CASE walk.level = 1
    <3>1. root[b] # g /\ root[b] # f
      <4>1. own[g] = Mid(b, Vpn(Va, 2)) /\ own[root[b]] = Top(b) /\ own[f] = Nobody
        BY Zenon, <2>2, <1>2, <1>4
      <4>2. Top(b) # Mid(b, Vpn(Va, 2)) /\ Top(b) # Nobody
        BY Zenon, TopNotMid, TopNobody
      <4> QED
        BY Zenon, <4>1, <4>2
    <3>2. Entry2(mem', root[b], Va) = Entry2(mem, root[b], Va)
      BY Zenon, <3>1, <1>0, <1>4, <1>6, VpnIn DEF Entry2, Differ
    <3>3. Entry1(mem', root[b], Va) = Pte(f, {})
      BY Zenon, <2>2, <3>2, <1>4, <1>6 DEF Entry1
    <3> QED
      <4>1. walk'.level = 0 /\ 0 # 2 /\ 0 # 1
        BY <1>10, <2>2
      <4>2. building # Nil /\ todo # <<>> /\ More(Head(todo)) /\ Entry2(mem, root[b], Va) # Nil
        BY Zenon, <1>4, <2>2, WalkFacts
      <4> QED
        BY Zenon, <2>0, <3>2, <3>3, <1>7, <1>10, <4>1, <4>2 DEF WalkInv
  <2> QED
    BY <1>0, <2>1, <2>2
<1>17. SpaceInv'
  BY Zenon, <1>9, SpacesKept DEF MemInv, Left
<1> QED
  BY Zenon, <1>9, <1>11, <1>13, <1>14, <1>15, <1>16, <1>17 DEF MemInv

LEMMA HeadReplaced ==
    ASSUME NEW q \in Seq(Ranges), q # <<>>, NEW x \in Ranges, NEW z, z = <<x>> \o Tail(q)
    PROVE  /\ z \in Seq(Ranges) /\ DOMAIN z = DOMAIN q /\ 1 \in DOMAIN q /\ q[1] = Head(q)
           /\ z[1] = x /\ \A k \in DOMAIN q : k # 1 => z[k] = q[k]
<1> DEFINE t == Tail(q)
<1>1. t \in Seq(Ranges) /\ Len(t) = Len(q) - 1 /\ Len(q) \in Nat /\ Len(q) > 0 /\ q[1] = Head(q)
      /\ \A k \in 1 .. Len(t) : t[k] = q[k + 1]
  OBVIOUS
<1> HIDE DEF t
<1>2. /\ <<x>> \o t \in Seq(Ranges) /\ Len(<<x>> \o t) = Len(q) /\ (<<x>> \o t)[1] = x
      /\ \A k \in 1 .. Len(q) : k # 1 => (<<x>> \o t)[k] = t[k - 1]
  BY <1>1
<1>3. \A k \in 1 .. Len(q) : k # 1 => t[k - 1] = q[k]
  <2> SUFFICES ASSUME NEW k \in 1 .. Len(q), k # 1 PROVE t[k - 1] = q[k]
    OBVIOUS
  <2>1. k - 1 \in 1 .. Len(t) /\ (k - 1) + 1 = k
    BY <1>1
  <2> QED
    BY <1>1, <2>1
<1> QED
  BY <1>1, <1>2, <1>3 DEF t

(* A page that is left to do has no leaf yet: map_page never meets one.    *)
LEMMA NoRemap ==
    ASSUME MemInv, walk # Nil, walk.level = 0
    PROVE  mem[walk.table][Vpn(Va, 0)] = Nil
<1> DEFINE b == building
<1>0. /\ b \in Spaces /\ root[b] # Nil /\ Va \in Pages /\ Entry2(mem, root[b], Va) # Nil
      /\ Entry1(mem, root[b], Va) # Nil /\ walk.table = Entry1(mem, root[b], Va).ppn
  <2>1. walk.level < 2
    OBVIOUS
  <2> QED
    BY Zenon, <2>1, WalkFacts
<1>1. WalkIn(mem, root[b], Va) = mem[walk.table][Vpn(Va, 0)]
  BY Zenon, <1>0 DEF WalkIn, Entry0
<1>2. Left(b, Va)
  <2>1. Covers(Head(todo), Va)
    BY Zenon, WalkFacts, VaFacts DEF MemInv
  <2>2. todo \in Seq(Ranges) /\ todo # <<>>
    BY Zenon, WalkFacts DEF MemInv, MemType
  <2> QED
    BY <2>1, <2>2, SeqFacts DEF Left
<1>3. PageOk(b, Va)
  BY Zenon, <1>0 DEF MemInv, SpaceInv
<1> QED
  BY Zenon, <1>1, <1>2, <1>3 DEF PageOk

(* The first range without its first page.                                 *)
LEMMA Advance ==
    ASSUME NEW h \in Ranges, More(h), NEW x, x = [h EXCEPT !.from = @ + 1]
    PROVE  /\ x \in Ranges /\ x.to = h.to /\ x.flags = h.flags /\ h.from <= x.from
           /\ \A v \in Pages : Covers(x, v) <=> Covers(h, v) /\ v # h.from
<1>1. h.from \in Nat /\ h.to \in Nat /\ h.flags \in SUBSET Flags
  BY DEF Ranges
<1>2. x \in Ranges /\ x.from = h.from + 1 /\ x.to = h.to /\ x.flags = h.flags
  BY <1>1 DEF Ranges
<1>3. \A v \in Pages : v \in Nat
  BY FrameFacts
<1> QED
  BY <1>1, <1>2, <1>3 DEF Covers

LEMMA LeafWrites ==
    ASSUME NEW m \in [Frames -> Tables], NEW g \in Frames, NEW i \in Indices, NEW p \in Ptes,
           NEW e, e = [m EXCEPT ![g] = [@ EXCEPT ![i] = p]]
    PROVE  e \in [Frames -> Tables] /\ e[g][i] = p /\ Differ(m, e, Nil, g, i)
<1> DEFINE t == [m[g] EXCEPT ![i] = p]
<1>1. m[g] \in [Indices -> Ptes \cup {Nil}]
  BY DEF Tables
<1>2. t \in Tables /\ t[i] = p /\ \A j \in Indices : j # i => t[j] = m[g][j]
  BY <1>1 DEF Tables
<1>3. e = [m EXCEPT ![g] = t]
  BY Zenon
<1> HIDE DEF t
<1>4. e \in [Frames -> Tables] /\ e[g] = t /\ \A h \in Frames : h # g => e[h] = m[h]
  BY Zenon, <1>2, <1>3
<1> QED
  BY Zenon, <1>2, <1>4 DEF Differ

(* What one map_page adds: one page of one space.                          *)
LEMMA LeafEffect ==
    ASSUME MemInv, walk # Nil, walk.level = 0,
           mem' = [mem EXCEPT ![walk.table] = [@ EXCEPT ![Vpn(Va, 0)] = Pte(Va, LeafFlags(Head(todo).flags))]]
    PROVE  /\ mem' \in [Frames -> Tables]
           /\ \A own : Tree(mem, root, own) => Tree(mem', root, own)
           /\ \A s \in Spaces : root[s] # Nil => \A v \in Pages :
                  s # building \/ v # Va => SameWalk(mem, mem', root[s], v)
           /\ WalkIn(mem, root[building], Va) = Nil
           /\ WalkIn(mem', root[building], Va) = Pte(Va, LeafFlags(Head(todo).flags))
           /\ Pte(Va, LeafFlags(Head(todo).flags)) \in Mappings
<1> DEFINE b == building
           g == walk.table
           p == Pte(Va, LeafFlags(Head(todo).flags))
<1>0. /\ b \in Spaces /\ root[b] # Nil /\ Va \in Pages /\ Entry2(mem, root[b], Va) # Nil
      /\ Entry1(mem, root[b], Va) # Nil /\ g = Entry1(mem, root[b], Va).ppn /\ g \in Frames
      /\ todo # <<>> /\ building # Nil /\ More(Head(todo))
  <2>1. walk.level < 2
    OBVIOUS
  <2> QED
    BY Zenon, <2>1, WalkFacts
<1>1. Head(todo) \in Ranges
  BY Zenon, <1>0, VaFacts DEF MemInv
<1>2. Head(todo).flags \in SUBSET Flags
  BY <1>1 DEF Ranges
<1>3. p \in Ptes /\ p.flags = LeafFlags(Head(todo).flags) /\ "A" \in LeafFlags(Head(todo).flags)
  BY Zenon, <1>0, <1>2, LeafFlagFacts, PteFacts
<1>4. mem \in [Frames -> Tables] /\ Vpn(Va, 0) \in Indices
  BY Zenon, <1>0, VpnIn DEF MemInv, MemType
<1> HIDE DEF b, g, p
<1>5. mem' \in [Frames -> Tables] /\ mem'[g][Vpn(Va, 0)] = p /\ Differ(mem, mem', Nil, g, Vpn(Va, 0))
  <2> DEFINE i == Vpn(Va, 0)
  <2>1. mem' = [mem EXCEPT ![g] = [@ EXCEPT ![i] = p]]
    BY DEF g, p
  <2>2. mem \in [Frames -> Tables] /\ g \in Frames /\ i \in Indices /\ p \in Ptes
    BY Zenon, <1>0, <1>3, <1>4
  <2> HIDE DEF i
  <2>3. \A e : e = [mem EXCEPT ![g] = [@ EXCEPT ![i] = p]]
                => e \in [Frames -> Tables] /\ e[g][i] = p /\ Differ(mem, e, Nil, g, i)
    BY Zenon, <2>2, LeafWrites
  <2> QED
    BY Zenon, <2>1, <2>3 DEF i
<1>6. ASSUME NEW own, Tree(mem, root, own)
      PROVE  Tree(mem', root, own) /\ OnePage(mem, mem', root, b, Va, g)
  <2>1. LeafAt(mem, root, b, Va, g)
    BY Zenon, <1>0 DEF LeafAt
  <2> QED
    BY Zenon, <2>1, <1>0, <1>5, <1>6, LeafWrite
<1>7. \E own : Tree(mem, root, own)
  BY DEF MemInv, TreeInv
<1>8. mem[g][Vpn(Va, 0)] = Nil
  BY NoRemap DEF g
<1>9. p \in Mappings
  BY <1>3 DEF Mappings
<1> QED
  BY Zenon, <1>5, <1>6, <1>7, <1>8, <1>9 DEF b, p, OnePage

LEMMA LeafKeeps ==
    ASSUME MemInv, walk # Nil, walk.level = 0,
           mem' = [mem EXCEPT ![walk.table] = [@ EXCEPT ![Vpn(Va, 0)] = Pte(Va, LeafFlags(Head(todo).flags))]],
           todo' = <<[Head(todo) EXCEPT !.from = @ + 1]>> \o Tail(todo), walk' = Nil,
           UNCHANGED <<bitmap, root, dma, building, phase, scratch, panic>>
    PROVE  MemInv'
<1> DEFINE b == building
           h == Head(todo)
           x == [h EXCEPT !.from = @ + 1]
<1>0. /\ b \in Spaces /\ root[b] # Nil /\ Va \in Pages /\ todo # <<>> /\ building # Nil /\ More(h)
      /\ todo \in Seq(Ranges)
  BY Zenon, WalkFacts DEF MemInv, MemType
<1>1. /\ h \in Ranges /\ Covers(h, Va) /\ Va = h.from
      /\ \E k \in DOMAIN RangesOf(b) : Covers(RangesOf(b)[k], Va) /\ h.flags = RangesOf(b)[k].flags
  BY Zenon, <1>0, VaFacts DEF MemInv, Va
<1>2. /\ x \in Ranges /\ x.to = h.to /\ x.flags = h.flags /\ h.from <= x.from
      /\ \A v \in Pages : Covers(x, v) <=> Covers(h, v) /\ v # Va
  <2> HIDE DEF h
  <2>1. \A y : y = [h EXCEPT !.from = @ + 1]
            => /\ y \in Ranges /\ y.to = h.to /\ y.flags = h.flags /\ h.from <= y.from
               /\ \A v \in Pages : Covers(y, v) <=> Covers(h, v) /\ v # h.from
    BY Zenon, <1>0, <1>1, Advance
  <2> QED
    BY Zenon, <2>1, <1>1
<1>3. todo' = <<x>> \o Tail(todo)
  OBVIOUS
<1> HIDE DEF h, x
<1>4. /\ todo' \in Seq(Ranges) /\ DOMAIN todo' = DOMAIN todo /\ 1 \in DOMAIN todo /\ todo[1] = h
      /\ todo'[1] = x /\ \A k \in DOMAIN todo : k # 1 => todo'[k] = todo[k]
  <2>1. \A z : z = <<x>> \o Tail(todo)
            => /\ z \in Seq(Ranges) /\ DOMAIN z = DOMAIN todo /\ 1 \in DOMAIN todo /\ todo[1] = Head(todo)
               /\ z[1] = x /\ \A k \in DOMAIN todo : k # 1 => z[k] = todo[k]
    BY Zenon, <1>0, <1>2, HeadReplaced
  <2> QED
    BY Zenon, <1>3, <2>1 DEF h
<1>5. \A k \in DOMAIN todo : k # 1 => Apart(h, todo[k]) /\ Apart(todo[k], h)
  BY <1>4, ApartSym DEF MemInv, BuildInv
<1>6. MemType' /\ NoAssertionFails'
  BY Zenon, <1>4, LeafEffect DEF MemInv, MemType, NoAssertionFails
<1>7. TreeInv'
  BY Zenon, LeafEffect DEF MemInv, TreeInv, Unlinked
<1>8. ProbeInv'
  BY DEF MemInv, ProbeInv, FreeFrames
<1>9. BuildInv'
  <2>1. \A k \in DOMAIN todo' : Part(todo[k], RangesOf(building))'
    <3>1. \A k \in DOMAIN todo : Part(todo[k], RangesOf(b))
      BY DEF MemInv, BuildInv
    <3>2. Part(x, RangesOf(b))
      <4>1. PICK k \in DOMAIN RangesOf(b) : RangesOf(b)[k].from <= h.from /\ h.to = RangesOf(b)[k].to /\ h.flags = RangesOf(b)[k].flags
        BY Zenon, <3>1, <1>4 DEF Part
      <4>2. RangesOf(b)[k] \in Ranges
        BY Zenon, <1>0, DmaThere, RangesFit DEF MemInv, Fit
      <4>3. RangesOf(b)[k].from \in Nat /\ h.from \in Nat /\ x.from \in Nat
        BY Zenon, <1>1, <1>2, <4>2 DEF Ranges
      <4>4. RangesOf(b)[k].from <= x.from
        BY <1>2, <4>1, <4>3
      <4> QED
        BY <1>2, <4>1, <4>4 DEF Part
    <3>3. \A k \in DOMAIN todo : Part(todo'[k], RangesOf(b))
      BY Zenon, <3>1, <3>2, <1>4
    <3> QED
      BY Zenon, <3>3, <1>4, RangesKeptB
  <2>2. \A k, l \in DOMAIN todo' : k # l => Apart(todo'[k], todo'[l])
    <3>1. \A q : (Apart(h, q) => Apart(x, q)) /\ (Apart(q, h) => Apart(q, x))
      BY <1>2 DEF Apart
    <3>2. \A k, l \in DOMAIN todo : k # l => Apart(todo[k], todo[l])
      BY DEF MemInv, BuildInv
    <3> SUFFICES ASSUME NEW k \in DOMAIN todo, NEW l \in DOMAIN todo, k # l PROVE Apart(todo'[k], todo'[l])
      BY Zenon, <1>4
    <3>3. CASE k = 1
      BY Zenon, <3>1, <3>3, <1>4, <1>5
    <3>4. CASE l = 1
      BY Zenon, <3>1, <3>4, <1>4, <1>5
    <3>5. CASE k # 1 /\ l # 1
      BY Zenon, <3>2, <3>5, <1>4
    <3> QED
      BY <3>3, <3>4, <3>5
  <2> QED
    BY Zenon, <1>0, <2>1, <2>2 DEF MemInv, BuildInv
<1>10. WalkInv'
  BY DEF WalkInv
<1>11. ASSUME NEW s \in Spaces, root[s] # Nil, NEW v \in Pages PROVE PageOk(s, v)'
  <2>1. Left(s, v)' <=> Left(s, v) /\ ~(s = b /\ v = Va)
    <3>1. (\E k \in DOMAIN todo : Covers(todo'[k], v)) <=> (\E k \in DOMAIN todo : Covers(todo[k], v)) /\ v # Va
      <4>1. \A k \in DOMAIN todo : k # 1 => ~Covers(todo[k], Va)
        BY Zenon, <1>0, <1>1, <1>5 DEF Apart
      <4> QED
        BY Zenon, <4>1, <1>2, <1>4, <1>11
    <3> QED
      BY Zenon, <3>1, <1>4 DEF Left
  <2>2. PageOk(s, v)
    BY <1>11 DEF MemInv, SpaceInv
  <2>3. CASE s # b \/ v # Va
    <3>1. WalkIn(mem', root'[s], v) = WalkIn(mem, root[s], v)
      BY Zenon, <1>11, <2>3, LeafEffect DEF SameWalk
    <3>2. Left(s, v)' <=> Left(s, v)
      BY <2>1, <2>3
    <3> QED
      BY Zenon, <2>2, <3>1, <3>2, PageKept, RangesKept
  <2>4. CASE s = b /\ v = Va
    <3>1. WalkIn(mem, root[s], v)' = Pte(Va, LeafFlags(h.flags)) /\ Pte(Va, LeafFlags(h.flags)) \in Mappings
      BY Zenon, <2>4, LeafEffect DEF h
    <3>2. Pte(Va, LeafFlags(h.flags)) # Nil
      BY Zenon, <3>1, MemoryAssumption DEF Mappings
    <3>3. ~Left(s, v)'
      BY <2>1, <2>4
    <3>4. RangesOf(s)' = RangesOf(s)
      BY RangesKept
    <3>5. Meant(s, v, WalkIn(mem, root[s], v))'
      BY Zenon, <1>1, <2>4, <3>1, <3>4 DEF Meant
    <3> QED
      BY Zenon, <3>1, <3>2, <3>3, <3>5 DEF PageOk
  <2> QED
    BY <2>3, <2>4
<1>12. SpaceInv'
  BY <1>11 DEF SpaceInv
<1> QED
  BY SMTT(20), <1>6, <1>7, <1>8, <1>9, <1>10, <1>12 DEF MemInv

(* A space is begun: an empty root, and all its ranges to do.              *)
LEMMA BeginEffect ==
    ASSUME MemInv, NEW s \in Spaces, root[s] = Nil, FreeFrames # {}, Take(LowestFree),
           mem' = [mem EXCEPT ![LowestFree] = Zeroed(LowestFree)],
           root' = [root EXCEPT ![s] = LowestFree]
    PROVE  /\ mem' \in [Frames -> Tables] /\ root' \in [Spaces -> Frames \cup {Nil}]
           /\ root'[s] \in Frames /\ \A t \in Spaces : t # s => root'[t] = root[t]
           /\ \A own : Tree(mem, root, own) /\ Unlinked(own)
                => \E o : Tree(mem', root', o) /\ Gives(own, o, LowestFree, Top(s))
           /\ \A t \in Spaces : t # s /\ root'[t] # Nil => \A v \in Pages : SameWalk(mem, mem', root'[t], v)
           /\ \A v \in Pages : WalkIn(mem', root'[s], v) = Nil
<1> DEFINE f == LowestFree
<1>1. f \in Frames /\ \A own : Unlinked(own) => own[f] = Nobody
  BY Zenon, TakeFacts DEF MemInv
<1>2. mem \in [Frames -> Tables] /\ root \in [Spaces -> Frames \cup {Nil}]
  BY Zenon DEF MemInv, MemType
<1> HIDE DEF f
<1>3. mem' \in [Frames -> Tables] /\ Empty(mem'[f]) /\ SameBut(mem, mem', {f})
  BY <1>1, <1>2, FrameFacts DEF Zeroed, f, Empty, SameBut
<1>4. /\ root' \in [Spaces -> Frames \cup {Nil}] /\ root'[s] = f /\ \A t \in Spaces : t # s => root'[t] = root[t]
  BY <1>1, <1>2 DEF f
<1>5. ASSUME NEW own, Tree(mem, root, own), Unlinked(own)
      PROVE  /\ \E o : Tree(mem', root', o) /\ Gives(own, o, f, Top(s))
             /\ \A t \in Spaces : t # s /\ root'[t] # Nil => \A v \in Pages : SameWalk(mem, mem', root'[t], v)
             /\ \A v \in Pages : WalkIn(mem', root'[s], v) = Nil
  <2>1. PICK o : Gives(own, o, f, Top(s))
    <3> DEFINE o == [h \in Frames |-> IF h = f THEN Top(s) ELSE own[h]]
    <3>1. Gives(own, o, f, Top(s))
      BY Zenon, <1>1 DEF Gives
    <3> QED
      BY <3>1
  <2>2. own[f] = Nobody
    BY <1>1, <1>5
  <2>3. RootAdded(root, root', s, f)
    BY Zenon, <1>4 DEF RootAdded
  <2>4. Tree(mem', root', o) /\ NewSpace(mem, mem', root', s)
    BY Zenon, <1>1, <1>3, <1>5, <2>1, <2>2, <2>3, AddRoot
  <2> QED
    BY Zenon, <2>1, <2>4 DEF NewSpace
<1>6. \E own : Tree(mem, root, own) /\ Unlinked(own)
  BY DEF MemInv, TreeInv
<1> QED
  BY Zenon, <1>1, <1>3, <1>4, <1>5, <1>6 DEF f

LEMMA BeginKeeps ==
    ASSUME MemInv, NEW s \in Spaces, building = Nil, root[s] = Nil,
           \/ s = Master /\ phase = "master"
           \/ s \in Components /\ phase = "spawn" /\ (s \in Virtio => dma[s] # Nil),
           FreeFrames # {}, Take(LowestFree),
           mem' = [mem EXCEPT ![LowestFree] = Zeroed(LowestFree)],
           root' = [root EXCEPT ![s] = LowestFree],
           building' = s, todo' = RangesOf(s), UNCHANGED <<dma, walk, phase, scratch, panic>>
    PROVE  MemInv'
<1> DEFINE f == LowestFree
           q == RangesOf(s)
<1>0. walk = Nil /\ todo = <<>> /\ s # Nil
  BY Zenon, MemoryAssumption DEF MemInv, BuildInv
<1>1. HasDma(s)
  BY Zenon, MemoryAssumption DEF MemInv, MemType, HasDma
<1>2. q \in Seq(Ranges) /\ Disjoint(q) /\ \A k \in DOMAIN q : q[k] \in Ranges
  BY Zenon, <1>1, RangesFit DEF Fit
<1>3. /\ f \in Frames /\ ~bitmap[f] /\ bitmap' \in [Frames -> BOOLEAN] /\ bitmap'[f]
      /\ \A h \in Frames : h # f => bitmap'[h] = bitmap[h]
  BY Zenon, TakeFacts DEF MemInv
<1>4. /\ mem' \in [Frames -> Tables] /\ root' \in [Spaces -> Frames \cup {Nil}]
      /\ root'[s] \in Frames /\ \A t \in Spaces : t # s => root'[t] = root[t]
  BY Zenon, BeginEffect
<1>5. RangesOf(building)' = q
  BY DEF RangesOf, UserRanges, DeviceRanges
<1> HIDE DEF q, f
<1>6. MemType' /\ NoAssertionFails'
  BY Zenon, <1>2, <1>3, <1>4 DEF MemInv, MemType, NoAssertionFails, q
<1>7. TreeInv'
  <2>1. PICK own : Tree(mem, root, own) /\ Unlinked(own)
    BY DEF MemInv, TreeInv
  <2>2. PICK o : Tree(mem', root', o) /\ Gives(own, o, f, Top(s))
    BY Zenon, <2>1, BeginEffect DEF f
  <2>3. \A h \in Frames : o[h] # Nobody => bitmap'[h]
    BY Zenon, <1>3, <2>1, <2>2 DEF Gives, Unlinked
  <2>4. ASSUME NEW c \in Components, dma[c] # Nil PROVE bitmap'[dma[c]] /\ o[dma[c]] = Nobody
    <3>1. dma[c] \in Frames /\ bitmap[dma[c]] /\ own[dma[c]] = Nobody
      BY Zenon, <2>1, <2>4 DEF Unlinked, MemInv, MemType
    <3> QED
      BY Zenon, <3>1, <1>3, <2>2 DEF Gives
  <2>5. Unlinked(o)'
    BY Zenon, <2>3, <2>4 DEF Unlinked
  <2> QED
    BY Zenon, <2>2, <2>5 DEF TreeInv
<1>8. ProbeInv'
  BY Zenon, <1>0, MemoryAssumption DEF MemInv, ProbeInv
<1>9. BuildInv'
  <2>1. \A k \in DOMAIN q : Part(q[k], q)
    <3>1. \A k \in DOMAIN q : q[k].from <= q[k].from
      BY <1>2 DEF Ranges
    <3> QED
      BY Zenon, <3>1 DEF Part
  <2>2. \A k, l \in DOMAIN q : k # l => Apart(q[k], q[l])
    BY Zenon, <1>2 DEF Disjoint
  <2>3. root'[s] # Nil
    BY <1>4, FrameFacts
  <2>4. \A c \in Virtio : root'[c] # Nil => dma[c] # Nil
    <3>1. \A c \in Virtio : c \in Spaces
      BY MemoryAssumption DEF Spaces
    <3>2. s = Master => s \notin Virtio
      BY MemoryAssumption
    <3> QED
      BY Zenon, <1>4, <3>1, <3>2 DEF MemInv, BuildInv
  <2>5. todo' = q
    BY DEF q
  <2> QED
    BY Zenon, <1>0, <1>5, <2>1, <2>2, <2>3, <2>4, <2>5 DEF BuildInv
<1>10. WalkInv'
  BY <1>0 DEF WalkInv
<1>11. SpaceInv'
  <2> SUFFICES ASSUME NEW t \in Spaces, root'[t] # Nil, NEW v \in Pages PROVE PageOk(t, v)'
    BY Zenon DEF SpaceInv
  <2>0. RangesOf(t)' = RangesOf(t)
    BY RangesKept
  <2>1. CASE t # s
    <3>1. WalkIn(mem', root'[t], v) = WalkIn(mem, root[t], v) /\ root[t] # Nil
      BY Zenon, <1>4, <2>1, BeginEffect DEF SameWalk
    <3>2. ~Left(t, v) /\ ~Left(t, v)'
      BY <2>1, MemoryAssumption DEF Left
    <3>3. PageOk(t, v)
      BY Zenon, <3>1 DEF MemInv, SpaceInv
    <3> QED
      BY Zenon, <2>0, <3>1, <3>2, <3>3, PageKept
  <2>2. CASE t = s
    <3>1. WalkIn(mem, root[t], v)' = Nil
      BY Zenon, <2>2, BeginEffect
    <3>2. Wanted(t, v)' => Left(t, v)'
      BY Zenon, <2>0, <2>2 DEF Wanted, Left
    <3> QED
      BY Zenon, <3>1, <3>2 DEF PageOk
  <2> QED
    BY Zenon, <2>1, <2>2
<1> QED
  BY Zenon, <1>6, <1>7, <1>8, <1>9, <1>10, <1>11 DEF MemInv

LEMMA AllocDmaKeeps ==
    ASSUME MemInv, NEW c \in Components, building = Nil, phase = "spawn", c \in Virtio, dma[c] = Nil,
           FreeFrames # {}, Take(LowestFree),
           mem' = [mem EXCEPT ![LowestFree] = Zeroed(LowestFree)],
           dma' = [dma EXCEPT ![c] = LowestFree],
           UNCHANGED <<root, building, todo, walk, phase, scratch, panic>>
    PROVE  MemInv' /\ \A s \in Spaces : root[s] # Nil => \A v \in Pages : SameWalk(mem, mem', root[s], v)
<1> DEFINE f == LowestFree
<1>0. walk = Nil /\ todo = <<>>
  BY Zenon DEF MemInv, BuildInv
<1>1. PICK own : Tree(mem, root, own) /\ Unlinked(own)
  BY DEF MemInv, TreeInv
<1>2. /\ f \in Frames /\ ~bitmap[f] /\ bitmap' \in [Frames -> BOOLEAN] /\ bitmap'[f]
      /\ \A h \in Frames : h # f => bitmap'[h] = bitmap[h]
      /\ own[f] = Nobody
  BY Zenon, <1>1, TakeFacts DEF MemInv
<1>3. mem \in [Frames -> Tables] /\ dma \in [Components -> Frames \cup {Nil}]
  BY Zenon DEF MemInv, MemType
<1> HIDE DEF f
<1>4. mem' \in [Frames -> Tables] /\ SameBut(mem, mem', {f})
  BY <1>2, <1>3, FrameFacts DEF Zeroed, f, SameBut
<1>5. dma' \in [Components -> Frames \cup {Nil}] /\ dma'[c] = f /\ \A d \in Components : d # c => dma'[d] = dma[d]
  BY Zenon, <1>2, <1>3 DEF f
<1>6. Tree(mem', root, own) /\ \A s \in Spaces : root[s] # Nil => \A v \in Pages : SameWalk(mem, mem', root[s], v)
  BY Zenon, <1>1, <1>2, <1>4, WriteFree
<1>7. MemType' /\ NoAssertionFails'
  BY Zenon, <1>2, <1>4, <1>5 DEF MemInv, MemType, NoAssertionFails
<1>8. TreeInv'
  <2>1. \A h \in Frames : own[h] # Nobody => bitmap'[h]
    BY Zenon, <1>1, <1>2 DEF Unlinked
  <2>2. ASSUME NEW d \in Components, dma'[d] # Nil PROVE bitmap'[dma'[d]] /\ own[dma'[d]] = Nobody
    <3>1. CASE d = c
      BY Zenon, <3>1, <1>2, <1>5
    <3>2. CASE d # c
      <4>1. dma'[d] = dma[d] /\ dma[d] \in Frames /\ bitmap[dma[d]] /\ own[dma[d]] = Nobody
        BY Zenon, <3>2, <2>2, <1>1, <1>3, <1>5 DEF Unlinked
      <4> QED
        BY Zenon, <4>1, <1>2
    <3> QED
      BY Zenon, <3>1, <3>2
  <2>3. Unlinked(own)'
    BY Zenon, <2>1, <2>2 DEF Unlinked
  <2> QED
    BY <1>6, <2>3 DEF TreeInv
<1>9. ProbeInv'
  BY DEF ProbeInv
<1>10. BuildInv'
  <2>1. \A d \in Virtio : root[d] # Nil => dma'[d] # Nil
    <3>1. f # Nil /\ Virtio \subseteq Components
      BY Zenon, <1>2, FrameFacts, MemoryAssumption
    <3> QED
      BY Zenon, <3>1, <1>5 DEF MemInv, BuildInv
  <2>2. DOMAIN todo = {}
    BY <1>0
  <2> QED
    BY Zenon, <1>0, <2>1, <2>2 DEF BuildInv
<1>11. WalkInv'
  BY Zenon, <1>0 DEF WalkInv
<1>12. SpaceInv'
  <2> SUFFICES ASSUME NEW s \in Spaces, root'[s] # Nil, NEW v \in Pages PROVE PageOk(s, v)'
    BY DEF SpaceInv
  <2>1. s # c
    BY Zenon DEF MemInv, BuildInv
  <2>2. s # Master => dma'[s] = dma[s]
    BY <2>1, <1>5 DEF Spaces
  <2>3. RangesOf(s)' = RangesOf(s)
    <3>1. CASE s = Master
      BY <3>1 DEF RangesOf
    <3>2. CASE s # Master
      <4>1. DeviceRanges(s)' = DeviceRanges(s)
        BY <2>2, <3>2 DEF DeviceRanges
      <4>2. RangesOf(s) = KernelRanges \o (UserRanges(s) \o DeviceRanges(s))
        BY Zenon, <3>2 DEF RangesOf
      <4>3. RangesOf(s)' = KernelRanges \o (UserRanges(s) \o DeviceRanges(s)')
        BY Zenon, <3>2 DEF RangesOf
      <4> QED
        BY Zenon, <4>1, <4>2, <4>3
    <3> QED
      BY <3>1, <3>2
  <2>4. ~Left(s, v) /\ ~Left(s, v)'
    BY MemoryAssumption DEF Left
  <2>5. PageOk(s, v) /\ WalkIn(mem', root'[s], v) = WalkIn(mem, root[s], v)
    BY Zenon, <1>6 DEF MemInv, SpaceInv, SameWalk
  <2> QED
    BY Zenon, <2>3, <2>4, <2>5, PageKept
<1> QED
  BY Zenon, <1>6, <1>7, <1>8, <1>9, <1>10, <1>11, <1>12 DEF MemInv

(* The probe writes a frame nobody uses.                                   *)
LEMMA ProbeKeeps ==
    ASSUME MemInv, building = Nil, phase \in {"probe", "reprobe"}, FreeFrames # {}, Take(LowestFree),
           mem' = [mem EXCEPT ![LowestFree] = IF phase = "probe" THEN Garbage ELSE ZeroTable],
           scratch' = LowestFree, phase' = (IF phase = "probe" THEN "probed" ELSE "reprobed"),
           UNCHANGED <<root, dma, building, todo, walk, panic>>
    PROVE  MemInv' /\ \A s \in Spaces : root[s] # Nil => \A v \in Pages : SameWalk(mem, mem', root[s], v)
<1> DEFINE f == LowestFree
<1>0. walk = Nil /\ todo = <<>> /\ \A c \in Components : dma[c] = Nil
  BY Zenon DEF MemInv, BuildInv, ProbeInv
<1>1. PICK own : Tree(mem, root, own) /\ Unlinked(own)
  BY DEF MemInv, TreeInv
<1>2. /\ f \in Frames /\ ~bitmap[f] /\ bitmap' \in [Frames -> BOOLEAN] /\ bitmap'[f]
      /\ \A h \in Frames : h # f => bitmap'[h] = bitmap[h]
      /\ FreeFrames' = FreeFrames \ {f} /\ own[f] = Nobody
  BY Zenon, <1>1, TakeFacts DEF MemInv
<1>3. \A g \in FreeFrames' : f <= g
  BY <1>2, LowestFreeIn
<1>4. mem \in [Frames -> Tables] /\ Garbage \in Tables /\ ZeroTable \in Tables
  BY Zenon, FrameFacts, MemoryAssumption DEF MemInv, MemType
<1> HIDE DEF f
<1>5. mem' \in [Frames -> Tables] /\ SameBut(mem, mem', {f})
  BY Zenon, <1>2, <1>4 DEF f, SameBut
<1>6. Tree(mem', root, own) /\ \A s \in Spaces : root[s] # Nil => \A v \in Pages : SameWalk(mem, mem', root[s], v)
  BY Zenon, <1>1, <1>2, <1>5, WriteFree
<1>7. MemType' /\ NoAssertionFails'
  BY Zenon, <1>2, <1>5 DEF MemInv, MemType, NoAssertionFails, f
<1>8. TreeInv'
  <2>1. \A h \in Frames : own[h] # Nobody => bitmap'[h]
    BY Zenon, <1>1, <1>2 DEF Unlinked
  <2>2. Unlinked(own)'
    BY Zenon, <1>0, <1>2, <2>1 DEF Unlinked, f
  <2> QED
    BY <1>6, <2>2 DEF TreeInv
<1>9. ProbeInv'
  BY <1>0, <1>2, <1>3 DEF ProbeInv, f
<1>10. BuildInv'
  BY Zenon, <1>0, RangesKeptB DEF MemInv, BuildInv
<1>11. WalkInv'
  BY Zenon, <1>0 DEF WalkInv
<1>12. SpaceInv'
  BY Zenon, <1>6, SpacesKept DEF MemInv, Left
<1> QED
  BY Zenon, <1>6, <1>7, <1>8, <1>9, <1>10, <1>11, <1>12 DEF MemInv

LEMMA ProbeFreeKeeps ==
    ASSUME MemInv, phase \in {"probed", "reprobed"}, FreeFrame(scratch),
           phase' = (IF phase = "probed" THEN "reprobe" ELSE "spawn"),
           scratch' = (IF phase = "probed" THEN scratch ELSE Nil),
           UNCHANGED <<mem, root, dma, building, todo, walk, panic>>
    PROVE  MemInv'
<1>0. scratch \in Frames /\ bitmap \in [Frames -> BOOLEAN] /\ building = Nil /\ \A c \in Components : dma[c] = Nil
  BY Zenon DEF MemInv, MemType, ProbeInv
<1>1. bitmap' = [bitmap EXCEPT ![scratch] = FALSE]
  BY DEF FreeFrame
<1>2. /\ bitmap' \in [Frames -> BOOLEAN] /\ ~bitmap'[scratch]
      /\ \A g \in Frames : g # scratch => bitmap'[g] = bitmap[g]
  BY <1>0, <1>1
<1>3. FreeFrames' = FreeFrames \cup {scratch}
  BY <1>0, <1>2 DEF FreeFrames
<1>4. MemType' /\ NoAssertionFails'
  BY Zenon, <1>0, <1>2 DEF MemInv, MemType, NoAssertionFails
<1>5. TreeInv'
  <2>1. PICK own : Tree(mem, root, own) /\ Unlinked(own)
    BY DEF MemInv, TreeInv
  <2>2. Unlinked(own)'
    BY Zenon, <1>0, <1>2, <2>1 DEF Unlinked
  <2> QED
    BY <2>1, <2>2 DEF TreeInv
<1>6. ProbeInv'
  BY <1>0, <1>3, FrameFacts DEF MemInv, ProbeInv
<1>7. BuildInv'
  BY Zenon, <1>0, RangesKeptB DEF MemInv, BuildInv
<1>8. WalkInv'
  BY Zenon DEF MemInv, WalkInv, Va
<1>9. SpaceInv'
  BY SpacesKept DEF MemInv, Left, SameWalk
<1> QED
  BY SMTT(20), <1>4, <1>5, <1>6, <1>7, <1>8, <1>9 DEF MemInv

LEMMA MapPageDownKeeps == ASSUME MemInv, MapPageDown PROVE MemInv'
<1>0. walk # Nil /\ walk.level > 0
  BY Zenon DEF MapPageDown
<1>1. CASE mem[walk.table][Vpn(Va, walk.level)] # Nil
  <2>1. /\ walk' = [level |-> walk.level - 1, table |-> mem[walk.table][Vpn(Va, walk.level)].ppn]
        /\ UNCHANGED <<bitmap, mem, root, dma, building, todo, phase, scratch, panic>>
    BY Zenon, <1>1 DEF MapPageDown, allocVars, bootVars
  <2> QED
    BY Zenon, <1>0, <1>1, <2>1, DescendKeeps
<1>2. CASE mem[walk.table][Vpn(Va, walk.level)] = Nil /\ FreeFrames # {}
  <2>1. /\ Take(LowestFree)
        /\ mem' = [mem EXCEPT ![LowestFree] = Zeroed(LowestFree),
                              ![walk.table] = [@ EXCEPT ![Vpn(Va, walk.level)] = Pte(LowestFree, {})]]
        /\ walk' = [level |-> walk.level - 1, table |-> LowestFree]
        /\ UNCHANGED <<root, dma, building, todo, phase, scratch, panic>>
    BY Zenon, <1>2 DEF MapPageDown, bootVars
  <2> QED
    BY Zenon, <1>0, <1>2, <2>1, LinkKeeps
<1>3. CASE mem[walk.table][Vpn(Va, walk.level)] = Nil /\ FreeFrames = {}
  <2>1. Panic("no_frame")
    BY Zenon, <1>3 DEF MapPageDown
  <2> QED
    BY <2>1, Idle DEF Panic, allocVars, bootVars
<1> QED
  BY <1>1, <1>2, <1>3

LEMMA MapPageLeafKeeps == ASSUME MemInv, MapPageLeaf PROVE MemInv'
<1>0. walk # Nil /\ walk.level = 0
  BY DEF MapPageLeaf
<1>1. mem[walk.table][Vpn(Va, 0)] = Nil
  BY <1>0, NoRemap
<1>2. /\ mem' = [mem EXCEPT ![walk.table] = [@ EXCEPT ![Vpn(Va, 0)] = Pte(Va, LeafFlags(Head(todo).flags))]]
      /\ todo' = <<[Head(todo) EXCEPT !.from = @ + 1]>> \o Tail(todo) /\ walk' = Nil
      /\ UNCHANGED <<bitmap, root, dma, building, phase, scratch, panic>>
  BY Zenon, <1>1 DEF MapPageLeaf, allocVars, bootVars
<1> QED
  BY <1>0, <1>2, LeafKeeps

LEMMA ProbeStep ==
    ASSUME MemInv, Probe
    PROVE  /\ building = Nil
           /\ \/ FreeFrames = {} /\ Panic("no_frame")
              \/ /\ phase \in {"probe", "reprobe"} /\ FreeFrames # {} /\ Take(LowestFree)
                 /\ mem' = [mem EXCEPT ![LowestFree] = IF phase = "probe" THEN Garbage ELSE ZeroTable]
                 /\ scratch' = LowestFree /\ phase' = (IF phase = "probe" THEN "probed" ELSE "reprobed")
                 /\ UNCHANGED <<root, dma, building, todo, walk, panic>>
<1>1. CASE FreeFrames = {}
  BY <1>1 DEF Probe
<1>2. CASE FreeFrames # {}
  <2>1. phase = "reprobe" => LowestFree = scratch
    <3> SUFFICES ASSUME phase = "reprobe" PROVE LowestFree = scratch
      OBVIOUS
    <3>1. scratch \in FreeFrames /\ \A g \in FreeFrames : scratch <= g
      BY DEF MemInv, ProbeInv
    <3>2. LowestFree \in FreeFrames /\ LowestFree <= scratch
      BY <1>2, <3>1, LowestFreeIn
    <3>3. FreeFrames \subseteq Nat
      BY Zenon, FrameFacts DEF FreeFrames
    <3> QED
      BY <3>1, <3>2, <3>3
  <2>2. Zeroed(LowestFree) = ZeroTable
    BY DEF Zeroed
  <2> QED
    BY Zenon, <1>2, <2>1, <2>2 DEF Probe
<1> QED
  BY Zenon, <1>1, <1>2

LEMMA BeginStep ==
    ASSUME NEW s \in Spaces, Begin(s)
    PROVE  /\ building = Nil /\ root[s] = Nil
           /\ \/ s = Master /\ phase = "master"
              \/ s \in Components /\ phase = "spawn" /\ (s \in Virtio => dma[s] # Nil)
           /\ \/ FreeFrames = {} /\ Panic("no_frame")
              \/ /\ FreeFrames # {} /\ Take(LowestFree)
                 /\ mem' = [mem EXCEPT ![LowestFree] = Zeroed(LowestFree)]
                 /\ root' = [root EXCEPT ![s] = LowestFree]
                 /\ building' = s /\ todo' = RangesOf(s) /\ UNCHANGED <<dma, walk, phase, scratch, panic>>
BY Zenon DEF Begin, bootVars

LEMMA MemStep == MemInv /\ [Next]_vars => MemInv'
<1> SUFFICES ASSUME MemInv, [Next]_vars PROVE MemInv'
  OBVIOUS
<1>1. ASSUME Panic("no_frame") PROVE MemInv'
  BY <1>1, Idle DEF Panic, allocVars, bootVars
<1>2. ASSUME NEW s \in Spaces, Begin(s) PROVE MemInv'
  <2>1. CASE Panic("no_frame")
    BY <1>1, <2>1
  <2>2. CASE ~Panic("no_frame")
    BY Zenon, <1>2, <2>2, BeginStep, BeginKeeps
  <2> QED
    BY <2>1, <2>2
<1>3. ASSUME NEW c \in Components, AllocDma(c) PROVE MemInv'
  <2>1. CASE FreeFrames = {}
    BY <1>1, <1>3, <2>1 DEF AllocDma
  <2>2. CASE FreeFrames # {}
    <3>1. /\ building = Nil /\ phase = "spawn" /\ c \in Virtio /\ dma[c] = Nil /\ Take(LowestFree)
          /\ mem' = [mem EXCEPT ![LowestFree] = Zeroed(LowestFree)]
          /\ dma' = [dma EXCEPT ![c] = LowestFree]
          /\ UNCHANGED <<root, building, todo, walk, phase, scratch, panic>>
      BY <1>3, <2>2 DEF AllocDma, bootVars
    <3> QED
      BY Zenon, <2>2, <3>1, AllocDmaKeeps
  <2> QED
    BY <2>1, <2>2
<1>4. CASE RangeDone
  BY <1>4, RangeDoneKeeps
<1>5. CASE MapPageStart
  BY SMTT(20), <1>5, MapPageStartKeeps
<1>6. CASE MapPageDown
  BY <1>6, MapPageDownKeeps
<1>7. CASE MapPageLeaf
  BY <1>7, MapPageLeafKeeps
<1>8. CASE Built
  BY <1>8, BuiltKeeps
<1>9. CASE Probe
  <2>1. CASE Panic("no_frame")
    BY <1>1, <2>1
  <2>2. CASE ~Panic("no_frame")
    BY Zenon, <1>9, <2>2, ProbeStep, ProbeKeeps
  <2> QED
    BY <2>1, <2>2
<1>10. CASE ProbeFree
  <2>1. phase \in {"probed", "reprobed"} /\ bitmap[scratch]
    BY <1>10 DEF ProbeFree, MemInv, ProbeInv
  <2> QED
    BY SMTT(20), <1>10, <2>1, ProbeFreeKeeps DEF ProbeFree
<1>11. CASE UNCHANGED vars
  BY <1>11, Idle DEF vars, MemInv, NoAssertionFails
<1> QED
  BY SMTT(20), <1>2, <1>3, <1>4, <1>5, <1>6, <1>7, <1>8, <1>9, <1>10, <1>11 DEF Next

LEMMA MemInit == Init => MemInv
<1> SUFFICES ASSUME Init PROVE MemInv
  OBVIOUS
<1>1. MemType /\ NoAssertionFails
  BY MemoryAssumption DEF Init, MemType, NoAssertionFails
<1>2. TreeInv
  <2> DEFINE own == [f \in Frames |-> Nobody]
  <2>1. Tree(mem, root, own)
    BY Zenon, PlaceNobody DEF Init, Tree, RootsAt, MidsAt, LowsAt
  <2>2. Unlinked(own)
    BY DEF Init, Unlinked
  <2> QED
    BY <2>1, <2>2 DEF TreeInv
<1>3. ProbeInv /\ WalkInv /\ SpaceInv
  BY Zenon DEF Init, ProbeInv, WalkInv, SpaceInv
<1>4. BuildInv
  <2>1. \A c \in Virtio : root[c] = Nil
    BY Zenon, MemoryAssumption DEF Init, Spaces
  <2> QED
    BY <2>1 DEF Init, BuildInv
<1> QED
  BY SMTT(20), <1>1, <1>2, <1>3, <1>4 DEF MemInv

(* Every state of every boot satisfies the invariant: the tables of the    *)
(* spaces are disjoint trees over allocated frames, map_page is on the     *)
(* path of its page, and a space translates what it has mapped so far.     *)
THEOREM BootInvariant == Spec => []MemInv
BY MemInit, MemStep, PTL DEF Spec

(* The hardware's walk of a space.                                         *)
LEMMA WalkIs ==
    MemInv => \A s \in Spaces : root[s] # Nil => \A v \in Pages : Walk(root[s], v) = WalkIn(mem, root[s], v)
<1> SUFFICES ASSUME MemInv, NEW s \in Spaces, root[s] # Nil, NEW v \in Pages
             PROVE  Walk(root[s], v) = WalkIn(mem, root[s], v)
  OBVIOUS
<1> DEFINE x == root[s]
           p2 == Entry2(mem, x, v)
           p1 == Entry1(mem, x, v)
<1>1. PICK own : Tree(mem, root, own)
  BY DEF MemInv, TreeInv
<1>2. (p2 # Nil => p2.ppn # Nil) /\ (p2 # Nil /\ p1 # Nil => p1.ppn # Nil)
  <2>1. Path(mem, own, x, s, v)
    BY Zenon, <1>1, PathFacts
  <2> QED
    BY Zenon, <2>1, FrameFacts DEF Path
<1>3. p2 = Step(x, Vpn(v, 2))
  BY DEF Entry2, Step
<1>4. p2 # Nil => p1 = Step(p2.ppn, Vpn(v, 1))
  BY Zenon, <1>2 DEF Entry1, Step
<1>5. p2 # Nil /\ p1 # Nil => Entry0(mem, x, v) = Step(p1.ppn, Vpn(v, 0))
  BY Zenon, <1>2 DEF Entry0, Step
<1> HIDE DEF p2, p1
<1>6. Walk(x, v) = LET q1 == IF p2 = Nil THEN Nil ELSE Step(p2.ppn, Vpn(v, 1))
                   IN  IF q1 = Nil THEN Nil ELSE Step(q1.ppn, Vpn(v, 0))
  BY Zenon, <1>3 DEF Walk
<1>7. WalkIn(mem, x, v) = IF p2 = Nil \/ p1 = Nil THEN Nil ELSE Entry0(mem, x, v)
  BY DEF WalkIn, p2, p1
<1> QED
  BY Zenon, <1>4, <1>5, <1>6, <1>7

(* What is translated is what a range of the space says.                   *)
LEMMA TranslatedFit ==
    ASSUME MemInv, NEW s \in Spaces, root[s] # Nil, NEW v \in Pages, WalkIn(mem, root[s], v) # Nil
    PROVE  /\ WalkIn(mem, root[s], v).ppn = v /\ ~({"W", "X"} \subseteq WalkIn(mem, root[s], v).flags)
           /\ "U" \in WalkIn(mem, root[s], v).flags => s # Master /\ Within(s, v)
<1> DEFINE m == WalkIn(mem, root[s], v)
<1>1. Meant(s, v, m)
  BY DEF MemInv, SpaceInv, PageOk
<1>2. PICK k \in DOMAIN RangesOf(s) : Covers(RangesOf(s)[k], v) /\ m = Pte(v, LeafFlags(RangesOf(s)[k].flags))
  BY Zenon, <1>1 DEF Meant
<1> HIDE DEF m
<1>3. Fit(RangesOf(s)[k], s)
  BY DmaThere, RangesFit DEF MemInv
<1>4. RangesOf(s)[k].flags \in SUBSET Flags
  BY Zenon, <1>3 DEF Fit, Ranges
<1>5. m.ppn = v /\ m.flags = LeafFlags(RangesOf(s)[k].flags)
  BY Zenon, <1>2, <1>4, LeafFlagFacts, PteFacts
<1> QED
  BY Zenon, <1>2, <1>3, <1>4, <1>5, LeafFlagFacts DEF Fit, m

(* In every state of every boot, for every memory map kernel.ld allows: a  *)
(* component reaches in user mode its code, stack, device and DMA frame    *)
(* only, and nothing anywhere is writable and executable.                  *)
THEOREM SpacesIsolated == Spec => []Isolated
<1>1. MemInv => Isolated
  BY SMTT(20), WalkIs, TranslatedFit DEF Isolated
<1> QED
  BY <1>1, BootInvariant, PTL

(* A finished space translates every page of its ranges, however the       *)
(* builds of the spaces shared out the frames.                             *)
THEOREM SpacesComplete == Spec => []Complete
<1>1. MemInv => Complete
  <2> SUFFICES ASSUME MemInv, NEW s \in Spaces, root[s] # Nil, building # s, NEW k \in DOMAIN RangesOf(s),
                      NEW v \in Pages, Covers(RangesOf(s)[k], v)
               PROVE  Walk(root[s], v) # Nil
    BY DEF Complete
  <2>1. Wanted(s, v) /\ ~Left(s, v)
    BY Zenon DEF Wanted, Left
  <2>2. WalkIn(mem, root[s], v) # Nil
    BY <2>1 DEF MemInv, SpaceInv, PageOk
  <2> QED
    BY <2>2, WalkIs
<1> QED
  BY <1>1, BootInvariant, PTL

(* No boot trips map_page's remap assertion, free's double-free assertion  *)
(* or the two of frame_roundtrip: it can only run out of frames.           *)
THEOREM BootAssertions == Spec => []NoAssertionFails
BY BootInvariant, PTL DEF MemInv

(* Frame f is a page table of space s: its root, or linked below it.       *)
TableOf(s, f) ==
    /\ root[s] # Nil
    /\ \/ f = root[s]
       \/ \E v \in Pages :
             LET p2 == Step(root[s], Vpn(v, 2)) IN
             /\ p2 # Nil
             /\ \/ f = p2.ppn
                \/ Step(p2.ppn, Vpn(v, 1)) # Nil /\ f = Step(p2.ppn, Vpn(v, 1)).ppn

(* No two spaces share a table, and no space gives user mode a page that   *)
(* is a table of any: not even a driver, whose DMA frame is a frame of the *)
(* same allocator, can reach a translation.                                *)
TablesPrivate ==
    /\ \A s, t \in Spaces, f \in Frames : TableOf(s, f) /\ TableOf(t, f) => s = t
    /\ \A s, t \in Spaces, v \in Pages :
          root[s] # Nil /\ Walk(root[s], v) # Nil /\ "U" \in Walk(root[s], v).flags => ~TableOf(t, v)

(* The place a table of space s has.                                       *)
Placed(own, s, f) ==
    own[f] = Top(s) \/ (\E i : own[f] = Mid(s, i)) \/ (\E i, j : own[f] = Low(s, i, j))
LEMMA TablePlace ==
    ASSUME MemInv, NEW own, Tree(mem, root, own), NEW s \in Spaces, NEW f, TableOf(s, f)
    PROVE  f \in Frames /\ Placed(own, s, f)
<1> USE DEF Placed
<1>0. root[s] # Nil
  BY Zenon DEF TableOf
<1>1. CASE f = root[s]
  BY Zenon, <1>0, <1>1 DEF Tree, RootsAt
<1>2. CASE f # root[s]
  <2>1. PICK v \in Pages : /\ Step(root[s], Vpn(v, 2)) # Nil
                           /\ \/ f = Step(root[s], Vpn(v, 2)).ppn
                              \/ /\ Step(Step(root[s], Vpn(v, 2)).ppn, Vpn(v, 1)) # Nil
                                 /\ f = Step(Step(root[s], Vpn(v, 2)).ppn, Vpn(v, 1)).ppn
    BY Zenon, <1>2 DEF TableOf
  <2>2. Step(root[s], Vpn(v, 2)) = Entry2(mem, root[s], v)
    BY Zenon, <1>0 DEF Step, Entry2
  <2>3. Entry2(mem, root[s], v).ppn \in Frames /\ own[Entry2(mem, root[s], v).ppn] = Mid(s, Vpn(v, 2))
    <3>1. Path(mem, own, root[s], s, v)
      BY Zenon, <1>0, PathFacts
    <3> QED
      BY Zenon, <2>1, <2>2, <3>1 DEF Path
  <2>4. Step(Entry2(mem, root[s], v).ppn, Vpn(v, 1)) = Entry1(mem, root[s], v)
    BY Zenon, <2>3, FrameFacts DEF Step, Entry1
  <2>5. CASE f = Entry2(mem, root[s], v).ppn
    BY Zenon, <2>3, <2>5
  <2>6. CASE f # Entry2(mem, root[s], v).ppn
    <3>1. Entry1(mem, root[s], v) # Nil /\ f = Entry1(mem, root[s], v).ppn /\ Entry2(mem, root[s], v) # Nil
      BY Zenon, <2>1, <2>2, <2>4, <2>6
    <3>2. f \in Frames /\ own[f] = Low(s, Vpn(v, 2), Vpn(v, 1))
      <4>1. Path(mem, own, root[s], s, v)
        BY Zenon, <1>0, PathFacts
      <4> QED
        BY Zenon, <3>1, <4>1 DEF Path
    <3> QED
      BY Zenon, <3>2
  <2> QED
    BY Zenon, <2>5, <2>6
<1> QED
  BY Zenon, <1>1, <1>2

(* A page a component reaches in user mode is no table.                    *)
LEMMA UserPageUnlinked ==
    ASSUME MemInv, NEW own, Unlinked(own), NEW c \in Components, NEW v \in Frames, Within(c, v)
    PROVE  own[v] = Nobody
<1>0. v \in Pages
  BY FrameFacts
<1>1. ~Covers(UserText, v) /\ ~Covers(Stack[c], v) /\ ~Covers(Device[c], v)
  BY Zenon, <1>0, LayoutAssumption, RamFit DEF Apart
<1>2. v = dma[c] /\ dma[c] # Nil
  BY <1>1, FrameFacts DEF Within
<1> QED
  BY Zenon, <1>2 DEF Unlinked

(* In every state of every boot the page tables belong to the kernel: one  *)
(* space each, and out of reach of user mode.                              *)
THEOREM TablesArePrivate == Spec => []TablesPrivate
<1>1. MemInv => TablesPrivate
  <2> SUFFICES ASSUME MemInv PROVE TablesPrivate
    OBVIOUS
  <2>0. PICK own : Tree(mem, root, own) /\ Unlinked(own)
    BY DEF MemInv, TreeInv
  <2>1. ASSUME NEW s \in Spaces, NEW t \in Spaces, NEW f \in Frames, TableOf(s, f), TableOf(t, f) PROVE s = t
    <3>1. Placed(own, s, f) /\ Placed(own, t, f)
      BY Zenon, <2>0, <2>1, TablePlace
    <3>2. CASE own[f] = Top(s)
      BY Zenon, <3>1, <3>2, TopOne, TopNotMid, TopNotLow DEF Placed
    <3>3. CASE \E i : own[f] = Mid(s, i)
      <4>1. PICK i : own[f] = Mid(s, i)
        BY Zenon, <3>3
      <4> QED
        BY <3>1, <4>1, MidOne, TopNotMid, MidNotLow DEF Placed
    <3>4. CASE \E i, j : own[f] = Low(s, i, j)
      <4>1. PICK i, j : own[f] = Low(s, i, j)
        BY Zenon, <3>4
      <4> QED
        BY SMTT(20), <3>1, <4>1, LowOne, TopNotLow, MidNotLow DEF Placed
    <3> QED
      BY Zenon, <3>1, <3>2, <3>3, <3>4 DEF Placed
  <2>2. ASSUME NEW s \in Spaces, NEW t \in Spaces, NEW v \in Pages, root[s] # Nil, Walk(root[s], v) # Nil,
               "U" \in Walk(root[s], v).flags, TableOf(t, v)
        PROVE  FALSE
    <3>1. s # Master /\ Within(s, v)
      BY Zenon, <2>2, WalkIs, TranslatedFit
    <3>2. v \in Frames /\ own[v] # Nobody
      <4>1. v \in Frames /\ Placed(own, t, v)
        BY <2>0, <2>2, TablePlace
      <4> QED
        BY Zenon, <4>1, TopNobody, MidNobody, LowNobody DEF Placed
    <3>3. s \in Components
      BY <3>1 DEF Spaces
    <3> QED
      BY SMTT(20), <2>0, <3>1, <3>2, <3>3, UserPageUnlinked
  <2> QED
    BY Zenon, <2>1, <2>2 DEF TablesPrivate
<1> QED
  BY <1>1, BootInvariant, PTL

-----------------------------------------------------------------------------
(* The page tables implement the abstract address spaces.                  *)
ViewIn(m, r) == [s \in Spaces |-> IF r[s] = Nil THEN Nil ELSE [v \in Pages |-> WalkIn(m, r[s], v)]]

LEMMA ViewIs == MemInv => View = ViewIn(mem, root)
BY Zenon, WalkIs DEF View, ViewIn

LEMMA ViewNext == MemInv' => View' = ViewIn(mem', root')
<1>1. MemInv' => (View = ViewIn(mem, root))'
  BY ViewIs, PTL
<1> QED
  BY <1>1

LEMMA ViewSame ==
    ASSUME NEW m, NEW e, NEW r, \A s \in Spaces : r[s] # Nil => \A v \in Pages : SameWalk(m, e, r[s], v)
    PROVE  ViewIn(e, r) = ViewIn(m, r)
<1>1. \A s \in Spaces : (IF r[s] = Nil THEN Nil ELSE [v \in Pages |-> WalkIn(e, r[s], v)])
                      = (IF r[s] = Nil THEN Nil ELSE [v \in Pages |-> WalkIn(m, r[s], v)])
  BY Zenon DEF SameWalk
<1> QED
  BY Zenon, <1>1 DEF ViewIn

(* Begin creates an empty space.                                           *)
Created(A, B, s) == A[s] = Nil /\ B = [A EXCEPT ![s] = [v \in Pages |-> Nil]]
LEMMA ViewCreate ==
    ASSUME NEW m, NEW e, NEW r, NEW q, NEW s \in Spaces, NEW f, f # Nil, RootAdded(r, q, s, f), NewSpace(m, e, q, s)
    PROVE  Created(ViewIn(m, r), ViewIn(e, q), s)
<1> DEFINE A == ViewIn(m, r)
           B == ViewIn(e, q)
<1>1. A[s] = Nil
  BY Zenon DEF ViewIn, RootAdded
<1>2. B[s] = [v \in Pages |-> Nil]
  BY Zenon DEF ViewIn, RootAdded, NewSpace
<1>3. ASSUME NEW t \in Spaces, t # s PROVE B[t] = A[t]
  <2>1. q[t] = r[t]
    BY Zenon, <1>3 DEF RootAdded
  <2>2. CASE q[t] = Nil
    BY Zenon, <2>1, <2>2 DEF ViewIn
  <2>3. CASE q[t] # Nil
    <3>1. \A v \in Pages : WalkIn(e, q[t], v) = WalkIn(m, r[t], v)
      BY Zenon, <1>3, <2>1, <2>3 DEF NewSpace, SameWalk
    <3>2. B[t] = [v \in Pages |-> WalkIn(e, q[t], v)] /\ A[t] = [v \in Pages |-> WalkIn(m, r[t], v)]
      BY Zenon, <2>1, <2>3 DEF ViewIn
    <3> QED
      BY Zenon, <3>1, <3>2
  <2> QED
    BY Zenon, <2>2, <2>3
<1>4. A = [t \in Spaces |-> A[t]] /\ B = [t \in Spaces |-> B[t]]
  BY Zenon DEF ViewIn
<1> HIDE DEF A, B
<1>5. B = [A EXCEPT ![s] = [v \in Pages |-> Nil]]
  BY <1>2, <1>3, <1>4
<1> QED
  BY Zenon, <1>1, <1>5 DEF A, B, Created

(* The leaf of map_page adds one page.                                     *)
OthersSame(m, e, r, b, w) ==
    \A s \in Spaces : r[s] # Nil => \A v \in Pages : s # b \/ v # w => SameWalk(m, e, r[s], v)
MappedOne(A, B, m, e, x, b, w) ==
    /\ A[b] = [v \in Pages |-> WalkIn(m, x, v)]
    /\ A[b][w] = WalkIn(m, x, w) /\ B[b][w] = WalkIn(e, x, w)
    /\ B = [A EXCEPT ![b] = [A[b] EXCEPT ![w] = B[b][w]]]
LEMMA ViewMap ==
    ASSUME NEW m, NEW e, NEW r, NEW b \in Spaces, NEW w \in Pages, r[b] # Nil, OthersSame(m, e, r, b, w)
    PROVE  MappedOne(ViewIn(m, r), ViewIn(e, r), m, e, r[b], b, w)
<1> DEFINE A == ViewIn(m, r)
           B == ViewIn(e, r)
<1>1. A[b] = [v \in Pages |-> WalkIn(m, r[b], v)] /\ B[b] = [v \in Pages |-> WalkIn(e, r[b], v)]
  BY Zenon DEF ViewIn
<1>2. A[b][w] = WalkIn(m, r[b], w) /\ B[b][w] = WalkIn(e, r[b], w)
  BY Zenon, <1>1
<1>3. ASSUME NEW t \in Spaces, t # b PROVE B[t] = A[t]
  <2>2. CASE r[t] = Nil
    BY Zenon, <2>2 DEF ViewIn
  <2>3. CASE r[t] # Nil
    <3>1. \A v \in Pages : WalkIn(e, r[t], v) = WalkIn(m, r[t], v)
      BY Zenon, <1>3, <2>3 DEF SameWalk, OthersSame
    <3>2. B[t] = [v \in Pages |-> WalkIn(e, r[t], v)] /\ A[t] = [v \in Pages |-> WalkIn(m, r[t], v)]
      BY Zenon, <2>3 DEF ViewIn
    <3> QED
      BY Zenon, <3>1, <3>2
  <2> QED
    BY Zenon, <2>2, <2>3
<1>4. A = [t \in Spaces |-> A[t]] /\ B = [t \in Spaces |-> B[t]]
  BY Zenon DEF ViewIn
<1>5. \A v \in Pages : v # w => WalkIn(e, r[b], v) = WalkIn(m, r[b], v)
  BY Zenon DEF SameWalk, OthersSame
<1> HIDE DEF A, B
<1>6. B[b] = [A[b] EXCEPT ![w] = B[b][w]]
  <2> DEFINE P == [v \in Pages |-> WalkIn(m, r[b], v)]
             Q == [v \in Pages |-> WalkIn(e, r[b], v)]
  <2>1. Q = [P EXCEPT ![w] = Q[w]]
    BY Zenon, <1>5
  <2> QED
    BY Zenon, <1>1, <2>1
<1>7. B = [A EXCEPT ![b] = B[b]]
  BY <1>3, <1>4
<1> QED
  BY Zenon, <1>1, <1>2, <1>6, <1>7 DEF A, B, MappedOne

LEMMA WalkType ==
    ASSUME MemInv, NEW s \in Spaces, root[s] # Nil, NEW v \in Pages
    PROVE  WalkIn(mem, root[s], v) \in Ptes \cup {Nil}
<1>1. PICK own : Tree(mem, root, own)
  BY DEF MemInv, TreeInv
<1>2. mem \in [Frames -> [Indices -> Ptes \cup {Nil}]] /\ Vpn(v, 0) \in Indices
  BY Zenon, VpnIn DEF MemInv, MemType, Tables
<1>3. Entry2(mem, root[s], v) # Nil /\ Entry1(mem, root[s], v) # Nil => Entry1(mem, root[s], v).ppn \in Frames
  <2>1. Path(mem, own, root[s], s, v)
    BY Zenon, <1>1, PathFacts
  <2> QED
    BY Zenon, <2>1 DEF Path
<1>4. Entry2(mem, root[s], v) # Nil /\ Entry1(mem, root[s], v) # Nil => Entry0(mem, root[s], v) \in Ptes \cup {Nil}
  BY <1>2, <1>3 DEF Entry0
<1> QED
  BY <1>4 DEF WalkIn

LEMMA AbsIdle ==
    ASSUME MemInv, MemInv', UNCHANGED root,
           \A s \in Spaces : root[s] # Nil => \A v \in Pages : SameWalk(mem, mem', root[s], v)
    PROVE  View' = View
<1>1. View = ViewIn(mem, root) /\ View' = ViewIn(mem', root)
  BY ViewIs, ViewNext
<1>2. ViewIn(mem', root) = ViewIn(mem, root)
  BY ViewSame
<1> QED
  BY <1>1, <1>2

LEMMA AbsStep == MemInv /\ MemInv' /\ [Next]_vars => [Abs!Next]_View
<1> SUFFICES ASSUME MemInv, MemInv', [Next]_vars PROVE Abs!Next \/ View' = View
  OBVIOUS
<1>0. View = ViewIn(mem, root) /\ View' = ViewIn(mem', root')
  BY ViewIs, ViewNext
<1>1. ASSUME UNCHANGED <<mem, root>> PROVE View' = View
  BY <1>0, <1>1
<1>2. ASSUME NEW s \in Spaces, Begin(s) PROVE Abs!Next \/ View' = View
  <2>1. CASE Panic("no_frame")
    BY <1>1, <2>1 DEF Panic
  <2>2. CASE ~Panic("no_frame")
    <3>1. /\ root[s] = Nil /\ FreeFrames # {} /\ Take(LowestFree)
          /\ mem' = [mem EXCEPT ![LowestFree] = Zeroed(LowestFree)]
          /\ root' = [root EXCEPT ![s] = LowestFree]
      BY Zenon, <1>2, <2>2, BeginStep
    <3>2. RootAdded(root, root', s, root'[s]) /\ NewSpace(mem, mem', root', s) /\ root'[s] # Nil
      BY Zenon, <3>1, BeginEffect, FrameFacts DEF RootAdded, NewSpace
    <3>3. /\ View[s] = Nil /\ View' = [View EXCEPT ![s] = [v \in Pages |-> Nil]]
      <4>1. Created(ViewIn(mem, root), ViewIn(mem', root'), s)
        BY <3>2, ViewCreate
      <4> QED
        BY Zenon, <1>0, <4>1 DEF Created
    <3>4. Abs!Create(s)
      BY <3>3 DEF Abs!Create
    <3> QED
      BY <3>4 DEF Abs!Next
  <2> QED
    BY <2>1, <2>2
<1>3. ASSUME NEW c \in Components, AllocDma(c) PROVE View' = View
  <2>1. CASE FreeFrames = {}
    BY <1>1, <1>3, <2>1 DEF AllocDma, Panic
  <2>2. CASE FreeFrames # {}
    <3>1. /\ building = Nil /\ phase = "spawn" /\ c \in Virtio /\ dma[c] = Nil /\ Take(LowestFree)
          /\ mem' = [mem EXCEPT ![LowestFree] = Zeroed(LowestFree)]
          /\ dma' = [dma EXCEPT ![c] = LowestFree]
          /\ UNCHANGED <<root, building, todo, walk, phase, scratch, panic>>
      BY <1>3, <2>2 DEF AllocDma, bootVars
    <3>2. \A s \in Spaces : root[s] # Nil => \A v \in Pages : SameWalk(mem, mem', root[s], v)
      BY Zenon, <2>2, <3>1, AllocDmaKeeps
    <3> QED
      BY Zenon, <3>1, <3>2, AbsIdle
  <2> QED
    BY <2>1, <2>2
<1>4. CASE RangeDone \/ MapPageStart \/ Built \/ ProbeFree
  BY Zenon, <1>1, <1>4 DEF RangeDone, MapPageStart, Built, ProbeFree, Panic
<1>5. CASE MapPageDown
  <2>0. walk # Nil /\ walk.level > 0
    BY Zenon, <1>5 DEF MapPageDown
  <2>1. CASE mem[walk.table][Vpn(Va, walk.level)] # Nil \/ FreeFrames = {}
    BY Zenon, <1>1, <1>5, <2>1 DEF MapPageDown, Panic
  <2>2. CASE mem[walk.table][Vpn(Va, walk.level)] = Nil /\ FreeFrames # {}
    <3>1. /\ Take(LowestFree)
          /\ mem' = [mem EXCEPT ![LowestFree] = Zeroed(LowestFree),
                                ![walk.table] = [@ EXCEPT ![Vpn(Va, walk.level)] = Pte(LowestFree, {})]]
          /\ walk' = [level |-> walk.level - 1, table |-> LowestFree]
          /\ UNCHANGED <<root, dma, building, todo, phase, scratch, panic>>
      BY Zenon, <1>5, <2>2 DEF MapPageDown, bootVars
    <3>2. \A s \in Spaces : root[s] # Nil => \A v \in Pages : SameWalk(mem, mem', root[s], v)
      BY Zenon, <2>0, <2>2, <3>1, LinkKeeps
    <3> QED
      BY Zenon, <3>1, <3>2, AbsIdle
  <2> QED
    BY <2>1, <2>2
<1>6. CASE MapPageLeaf
  <2> DEFINE b == building
             w == Va
  <2>0. walk # Nil /\ walk.level = 0
    BY <1>6 DEF MapPageLeaf
  <2>1. mem[walk.table][Vpn(Va, 0)] = Nil
    BY <2>0, NoRemap
  <2>2. /\ mem' = [mem EXCEPT ![walk.table] = [@ EXCEPT ![Vpn(Va, 0)] = Pte(Va, LeafFlags(Head(todo).flags))]]
        /\ UNCHANGED root
    BY Zenon, <1>6, <2>1 DEF MapPageLeaf
  <2>3. b \in Spaces /\ w \in Pages /\ root[b] # Nil
    BY Zenon, <2>0, WalkFacts
  <2>4. /\ \A s \in Spaces : root[s] # Nil => \A v \in Pages : s # b \/ v # w => SameWalk(mem, mem', root[s], v)
        /\ WalkIn(mem, root[b], w) = Nil /\ WalkIn(mem', root[b], w) \in Mappings
    BY Zenon, <2>0, <2>2, LeafEffect
  <2> HIDE DEF b, w
  <2>5. /\ View[b] = [v \in Pages |-> WalkIn(mem, root[b], v)]
        /\ View[b][w] = Nil /\ View'[b][w] \in Mappings
        /\ View' = [View EXCEPT ![b] = [View[b] EXCEPT ![w] = View'[b][w]]]
    <3> DEFINE A == ViewIn(mem, root)
               B == ViewIn(mem', root)
    <3>1. MappedOne(A, B, mem, mem', root[b], b, w)
      <4>1. OthersSame(mem, mem', root, b, w)
        BY Zenon, <2>4 DEF OthersSame
      <4> QED
        BY <2>3, <4>1, ViewMap
    <3>2. View = A /\ View' = B
      BY SMTT(20), <1>0, <2>2
    <3> HIDE DEF A, B
    <3> QED
      BY SMTT(20), <2>4, <3>1, <3>2 DEF MappedOne
  <2>6. View[b] # Nil
    <3>1. \A v \in Pages : WalkIn(mem, root[b], v) \in Ptes \cup {Nil}
      BY <2>3, WalkType
    <3>2. View[b] \in [Pages -> Ptes \cup {Nil}]
      BY <2>5, <3>1
    <3> QED
      BY <3>2, MemoryAssumption
  <2>7. Abs!Map(b, w)
    BY Zenon, <2>5, <2>6 DEF Abs!Map
  <2> QED
    BY <2>3, <2>7 DEF Abs!Next
<1>7. CASE Probe
  <2>1. CASE Panic("no_frame")
    BY <1>1, <2>1 DEF Panic
  <2>2. CASE ~Panic("no_frame")
    BY Zenon, <1>7, <2>2, ProbeStep, ProbeKeeps, AbsIdle
  <2> QED
    BY <2>1, <2>2
<1>8. CASE UNCHANGED vars
  BY <1>1, <1>8 DEF vars
<1> QED
  BY SMTT(20), <1>2, <1>3, <1>4, <1>5, <1>6, <1>7, <1>8 DEF Next

(* map_page, through its walk, its allocations and its zeroing, implements *)
(* the abstract spaces: each call adds one page to one space, and no other *)
(* step of a boot changes a translation of any space.                      *)
THEOREM TablesImplementSpaces == Spec => ImplementsAddressSpaces
<1>1. Init => Abs!Init
  <2> SUFFICES ASSUME Init PROVE View = [s \in Spaces |-> Nil]
    BY DEF Abs!Init
  <2>1. \A s \in Spaces : root[s] = Nil
    BY DEF Init
  <2> QED
    BY <2>1 DEF View
<1> QED
  BY <1>1, BootInvariant, AbsStep, PTL DEF Spec, ImplementsAddressSpaces, Abs!Spec
=============================================================================
