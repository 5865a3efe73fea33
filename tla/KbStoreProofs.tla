--------------------------- MODULE KbStoreProofs ---------------------------
(***************************************************************************)
(* The shared page: theorems about KbStore for every image, every set of   *)
(* patients, every size of the table and the volume, whatever the device   *)
(* reports and however often power is lost.                                *)
(***************************************************************************)
EXTENDS KbStore, WellFoundedInduction, TLAPS

-----------------------------------------------------------------------------
(* Types.                                                                  *)
Slots == 0 .. (DIRENTS_PER_BLOCK - 1)
Causes == Tokens \cup {NoToken}
Flags == BOOLEAN

DirMaps == [Slots -> [name : Nat, start : Nat, len : Nat]]
Superblocks == [kind : {"sb"}, entries : Nat, total : Nat]
Directories == [kind : {"dir"}, ents : DirMaps]
Records == [kind : {"kb"}, id : Nat, cause : Causes, seen : Nat, escalated : Flags]
Contents == Superblocks \cup Directories \cup Records \cup {Free}

Requests == [op : {"read", "write"}, blk : Nat, st : {"sent", "ok", "error"}]
Issues == [id : Nat, cause : Causes, seen : Nat, escalated : Flags, start : Nat, dirty : Flags]

LdrRecords ==
    [pc : {"sb", "dir", "head", "release"}, entries : Nat, dir : DirMaps \cup {Nil},
     i : Nat, j : Nat, head : Contents \cup {Nil}]
WtrRests == {"take", "clear", "dirty", "flag", "absent"}
WtrReads == {"sb", "dir", "entry"}
WtrWrites == {"wdata", "wdir", "wsb", "wentry"}
WtrRecords ==
    [pc : WtrRests \cup WtrReads \cup WtrWrites, tok : Causes \cup {Nil}, id : Nat,
     sb : Contents \cup {Nil}, dir : DirMaps \cup {Nil}, slot : Nat, seen : Nat,
     escalated : Flags, block : Contents \cup {Nil}]

KbType ==
    /\ disk \in [Blocks -> Contents] /\ page \in Contents
    /\ cached \in Nat \cup {Nil}
    /\ req \in [Clients -> Requests \cup {Nil}]
    /\ ldr \in LdrRecords /\ wtr \in WtrRecords
    /\ table \in Seq(Issues) /\ novel \in Causes \cup {Nil}

(* Turns: until the loader is done the patients are gated, so nothing was  *)
(* counted or latched and the writer finds nothing to do.                  *)
TurnInv ==
    /\ ldr.pc # "release" =>
          /\ \A p \in Patients : patient[p] \in Gated
          /\ novel = Nil /\ \A k \in DOMAIN table : table[k].dirty = FALSE
          /\ wtr.pc \in {"take", "clear", "dirty"} /\ wtr.tok = Nil /\ req["writer"] = Nil
    /\ ldr.pc = "release" => req["loader"] = Nil

(* Requests: each client asks for what its program counter says, a write   *)
(* finds the page as the writer left it, and an answered request agrees    *)
(* with the disk.                                                          *)
LoaderAsks == LoaderReads /\ req["loader"].op = "read" /\ req["loader"].blk = LoaderBlock
WriterReads == wtr.pc \in WtrReads /\ req["writer"].op = "read" /\ req["writer"].blk = WriterReadBlock
WriterWrites ==
    /\ wtr.pc \in WtrWrites /\ req["writer"].op = "write" /\ req["writer"].blk = WriterTarget
    /\ cached = Nil /\ page = Outgoing

RequestInv ==
    /\ req["loader"] # Nil => LoaderAsks
    /\ req["writer"] # Nil => WriterReads \/ WriterWrites
    /\ \A c \in Clients :
          req[c] # Nil /\ req[c].st = "ok" => req[c].blk \in Blocks /\ page = disk[req[c].blk]
    /\ cached # Nil /\ (\A c \in Clients : req[c] = Nil \/ req[c].st = "sent")
          => cached \in Blocks /\ page = disk[cached]

(* What each program counter has in its locals.                            *)
LoaderLocals ==
    /\ ldr.pc \in {"sb", "dir"} => ldr.i = 0 /\ ldr.j = 0
    /\ ldr.pc = "head" => ldr.dir \in DirMaps /\ (ldr.j # 0 => ldr.head \in Contents)

WriterLocals ==
    /\ wtr.pc \in {"sb", "dir", "wdata", "wdir", "wsb"} => wtr.tok \in Causes
    /\ wtr.pc \in {"dir", "wdata", "wdir", "wsb"} => wtr.sb \in Superblocks
    /\ wtr.pc \in {"wdata", "wdir", "wsb"} => wtr.dir \in DirMaps /\ wtr.sb.entries < DIRENTS_PER_BLOCK
    /\ wtr.pc \in {"flag", "entry", "wentry"} => wtr.slot \in DOMAIN table
    /\ wtr.pc = "wentry" => wtr.block \in Records

LocalInv == LoaderLocals /\ WriterLocals

IoInv == KbType /\ TurnInv /\ RequestInv /\ LocalInv

-----------------------------------------------------------------------------
(* Records and sequences.                                                  *)
(* The updates of the writer's locals, and below those of the loader's.    *)
WtrAtClear(w, t) == [w EXCEPT !.pc = "clear", !.tok = t]
WtrAtSuperblock(w, n) == [w EXCEPT !.pc = "sb", !.id = n]
WtrAtDirectory(w, b) == [w EXCEPT !.pc = "dir", !.sb = b]
WtrAtData(w, d) == [w EXCEPT !.pc = "wdata", !.dir = d]
WtrAtWrite(w, p) == [w EXCEPT !.pc = p]
WtrAtFlag(w, k, n) == [w EXCEPT !.pc = "flag", !.slot = k, !.seen = n]
WtrAtEntry(w, e) == [w EXCEPT !.pc = "entry", !.escalated = e]
WtrAtUpdate(w, b) == [w EXCEPT !.pc = "wentry", !.block = b]

LEMMA WtrToClear ==
    ASSUME NEW w \in WtrRecords, NEW t \in Causes \cup {Nil}
    PROVE  LET v == WtrAtClear(w, t) IN
           v \in WtrRecords /\ v.pc = "clear" /\ v.tok = t
BY Zenon DEF WtrAtClear, WtrRecords, WtrRests, WtrReads, WtrWrites

LEMMA WtrToSuperblock ==
    ASSUME NEW w \in WtrRecords, NEW n \in Nat
    PROVE  LET v == WtrAtSuperblock(w, n) IN
           v \in WtrRecords /\ v.pc = "sb" /\ v.tok = w.tok
BY Zenon DEF WtrAtSuperblock, WtrRecords, WtrRests, WtrReads, WtrWrites

LEMMA WtrToDirectory ==
    ASSUME NEW w \in WtrRecords, NEW b \in Contents
    PROVE  LET v == WtrAtDirectory(w, b) IN
           v \in WtrRecords /\ v.pc = "dir" /\ v.tok = w.tok /\ v.id = w.id /\ v.sb = b
BY Zenon DEF WtrAtDirectory, WtrRecords, WtrRests, WtrReads, WtrWrites

LEMMA WtrToData ==
    ASSUME NEW w \in WtrRecords, NEW d \in DirMaps
    PROVE  LET v == WtrAtData(w, d) IN
           /\ v \in WtrRecords /\ v.pc = "wdata" /\ v.tok = w.tok /\ v.id = w.id
           /\ v.sb = w.sb /\ v.dir = d
BY Zenon DEF WtrAtData, WtrRecords, WtrRests, WtrReads, WtrWrites

LEMMA WtrToWrite ==
    ASSUME NEW w \in WtrRecords, NEW p \in {"wdir", "wsb"}
    PROVE  LET v == WtrAtWrite(w, p) IN
           /\ v \in WtrRecords /\ v.pc = p /\ v.tok = w.tok /\ v.id = w.id
           /\ v.sb = w.sb /\ v.dir = w.dir
BY Zenon DEF WtrAtWrite, WtrRecords, WtrRests, WtrReads, WtrWrites

LEMMA WtrToFlag ==
    ASSUME NEW w \in WtrRecords, NEW k \in Nat, NEW n \in Nat
    PROVE  LET v == WtrAtFlag(w, k, n) IN
           v \in WtrRecords /\ v.pc = "flag" /\ v.slot = k /\ v.seen = n
BY Zenon DEF WtrAtFlag, WtrRecords, WtrRests, WtrReads, WtrWrites

LEMMA WtrToEntry ==
    ASSUME NEW w \in WtrRecords, NEW e \in Flags
    PROVE  LET v == WtrAtEntry(w, e) IN
           /\ v \in WtrRecords /\ v.pc = "entry" /\ v.slot = w.slot /\ v.seen = w.seen
           /\ v.escalated = e
BY Zenon DEF WtrAtEntry, WtrRecords, WtrRests, WtrReads, WtrWrites

LEMMA WtrToUpdate ==
    ASSUME NEW w \in WtrRecords, NEW b \in Contents
    PROVE  LET v == WtrAtUpdate(w, b) IN
           /\ v \in WtrRecords /\ v.pc = "wentry" /\ v.slot = w.slot /\ v.seen = w.seen
           /\ v.escalated = w.escalated /\ v.block = b
BY Zenon DEF WtrAtUpdate, WtrRecords, WtrRests, WtrReads, WtrWrites

LEMMA WtrIdles ==
    ASSUME NEW p \in {"take", "dirty", "absent"}
    PROVE  WtrIdle(p) \in WtrRecords /\ WtrIdle(p).pc = p /\ WtrIdle(p).tok = Nil
BY DEF WtrIdle, WtrRecords, WtrRests, Flags

LdrAtDirectory(l, n) == [l EXCEPT !.pc = "dir", !.entries = n]
LdrAtRelease(l) == [l EXCEPT !.pc = "release"]
LdrAtHead(l, d) == [l EXCEPT !.pc = "head", !.dir = d]
LdrAtNextBlock(l, n, b) == [l EXCEPT !.j = n, !.head = b]
LdrAtNextEntry(l, n) == [l EXCEPT !.i = n, !.j = 0, !.head = Nil]
LdrAtScanned(l) == [l EXCEPT !.pc = "release", !.dir = Nil, !.i = 0]

LEMMA LdrToDirectory ==
    ASSUME NEW l \in LdrRecords, NEW n \in Nat
    PROVE  LET v == LdrAtDirectory(l, n) IN
           v \in LdrRecords /\ v.pc = "dir" /\ v.entries = n /\ v.i = l.i /\ v.j = l.j
BY Zenon DEF LdrAtDirectory, LdrRecords

LEMMA LdrToRelease ==
    ASSUME NEW l \in LdrRecords
    PROVE  LET v == LdrAtRelease(l) IN
           v \in LdrRecords /\ v.pc = "release"
BY Zenon DEF LdrAtRelease, LdrRecords

LEMMA LdrToHead ==
    ASSUME NEW l \in LdrRecords, NEW d \in DirMaps
    PROVE  LET v == LdrAtHead(l, d) IN
           /\ v \in LdrRecords /\ v.pc = "head" /\ v.entries = l.entries /\ v.dir = d
           /\ v.i = l.i /\ v.j = l.j
BY Zenon DEF LdrAtHead, LdrRecords

LEMMA LdrToNextBlock ==
    ASSUME NEW l \in LdrRecords, NEW n \in Nat, NEW b \in Contents
    PROVE  LET v == LdrAtNextBlock(l, n, b) IN
           /\ v \in LdrRecords /\ v.pc = l.pc /\ v.entries = l.entries /\ v.dir = l.dir
           /\ v.i = l.i /\ v.j = n /\ v.head = b
BY Zenon DEF LdrAtNextBlock, LdrRecords

LEMMA LdrToNextEntry ==
    ASSUME NEW l \in LdrRecords, NEW n \in Nat
    PROVE  LET v == LdrAtNextEntry(l, n) IN
           /\ v \in LdrRecords /\ v.pc = l.pc /\ v.entries = l.entries /\ v.dir = l.dir
           /\ v.i = n /\ v.j = 0
BY Zenon DEF LdrAtNextEntry, LdrRecords

LEMMA LdrToScanned ==
    ASSUME NEW l \in LdrRecords
    PROVE  LET v == LdrAtScanned(l) IN
           v \in LdrRecords /\ v.pc = "release"
BY Zenon DEF LdrAtScanned, LdrRecords

LEMMA LeastElement ==
    ASSUME NEW S, S \subseteq Nat, S # {} PROVE \E x \in S : \A y \in S : x <= y
<1> DEFINE R == OpToRel(<, Nat)
<1>1. IsWellFoundedOn(R, Nat)
  BY Zenon, NatLessThanWellFounded
<1>2. PICK x \in S : \A y \in S : ~(<<y, x>> \in R)
  <2> HIDE DEF R
  <2> QED
    BY Zenon, <1>1, WFMin
<1>3. ASSUME NEW y \in S PROVE x <= y
  <2>1. ~(<<y, x>> \in R)
    BY Zenon, <1>2
  <2> QED
    BY <2>1 DEF OpToRel
<1> QED
  BY Zenon, <1>3

(* The scans of heal.rs return a slot of the table that fits, or none.     *)
LEMMA FirstFacts ==
    ASSUME NEW S, S \subseteq Nat \ {0}
    PROVE  First(S) \in S \/ (First(S) = 0 /\ S = {})
<1>1. CASE S = {}
  BY <1>1 DEF First
<1>2. CASE S # {}
  <2>1. S \subseteq Nat
    OBVIOUS
  <2>2. \E x \in S : \A y \in S : x <= y
    BY Zenon, <1>2, <2>1, LeastElement
  <2> QED
    BY Zenon, <1>2, <2>2 DEF First
<1> QED
  BY <1>1, <1>2

LEMMA TableUpdates ==
    ASSUME NEW t \in Seq(Issues)
    PROVE  /\ DOMAIN t \subseteq Nat \ {0}
           /\ \A k \in DOMAIN t : t[k] \in Issues
           /\ \A k \in DOMAIN t, v \in Issues :
                 LET u == [t EXCEPT ![k] = v] IN
                 /\ u \in Seq(Issues) /\ DOMAIN u = DOMAIN t /\ u[k] = v
                 /\ \A l \in DOMAIN t : l # k => u[l] = t[l]
           /\ \A v \in Issues :
                 LET u == Install(t, v) IN
                 /\ u \in Seq(Issues) /\ DOMAIN t \subseteq DOMAIN u
                 /\ \A l \in DOMAIN t : u[l] = t[l]
                 /\ \A l \in DOMAIN u : l \in DOMAIN t \/ u[l] = v
                 /\ \A k, l \in DOMAIN u : k \notin DOMAIN t /\ l \notin DOMAIN t => k = l
<1>0. DOMAIN t = 1 .. Len(t) /\ Len(t) \in Nat
  OBVIOUS
<1>1. DOMAIN t \subseteq Nat \ {0} /\ \A k \in DOMAIN t : t[k] \in Issues
  BY <1>0
<1>2. ASSUME NEW k \in DOMAIN t, NEW v \in Issues
      PROVE  LET u == [t EXCEPT ![k] = v] IN
             /\ u \in Seq(Issues) /\ DOMAIN u = DOMAIN t /\ u[k] = v
             /\ \A l \in DOMAIN t : l # k => u[l] = t[l]
  BY <1>0
<1>3. ASSUME NEW v \in Issues
      PROVE  LET u == Install(t, v) IN
             /\ u \in Seq(Issues) /\ DOMAIN t \subseteq DOMAIN u
             /\ \A l \in DOMAIN t : u[l] = t[l]
             /\ \A l \in DOMAIN u : l \in DOMAIN t \/ u[l] = v
             /\ \A k, l \in DOMAIN u : k \notin DOMAIN t /\ l \notin DOMAIN t => k = l
  <2>1. CASE Len(t) < MAX_ISSUES
    <3> DEFINE u == Append(t, v)
    <3>1. /\ u \in Seq(Issues) /\ Len(u) = Len(t) + 1 /\ DOMAIN u = 1 .. (Len(t) + 1)
          /\ u[Len(t) + 1] = v /\ \A l \in 1 .. Len(t) : u[l] = t[l]
      BY <1>0
    <3>2. Install(t, v) = u
      BY <2>1 DEF Install
    <3> HIDE DEF u
    <3> QED
      BY <1>0, <3>1, <3>2
  <2>2. CASE ~(Len(t) < MAX_ISSUES)
    <3>1. Install(t, v) = t
      BY <2>2 DEF Install
    <3> QED
      BY <3>1
  <2> QED
    BY <2>1, <2>2
<1> QED
  BY Zenon, <1>1, <1>2, <1>3

LEMMA InstallFacts ==
    ASSUME NEW t \in Seq(Issues), NEW v \in Issues
    PROVE  /\ Install(t, v) \in Seq(Issues) /\ DOMAIN t \subseteq DOMAIN Install(t, v)
           /\ \A l \in DOMAIN t : Install(t, v)[l] = t[l]
           /\ \A l \in DOMAIN Install(t, v) : l \in DOMAIN t \/ Install(t, v)[l] = v
           /\ \A k, l \in DOMAIN Install(t, v) : k \notin DOMAIN t /\ l \notin DOMAIN t => k = l
BY Zenon, TableUpdates

LEMMA IssueUpdates ==
    ASSUME NEW v \in Issues
    PROVE  /\ v.id \in Nat /\ v.seen \in Nat /\ v.start \in Nat /\ v.escalated \in Flags /\ v.cause \in Causes
           /\ [v EXCEPT !.dirty = FALSE] \in Issues
           /\ LET w == [v EXCEPT !.dirty = FALSE] IN
              /\ w.start = v.start /\ w.seen = v.seen /\ w.escalated = v.escalated
              /\ w.dirty = FALSE
<1>1. FALSE \in Flags
  BY DEF Flags
<1> QED
  BY <1>1 DEF Issues

(* note_diagnosis counts, latches and marks; it moves nothing.             *)
LEMMA DiagnosisFacts ==
    ASSUME table \in Seq(Issues), NEW k \in DOMAIN table
    PROVE  /\ NoteDiagnosis(k) \in Seq(Issues) /\ DOMAIN NoteDiagnosis(k) = DOMAIN table
           /\ \A l \in DOMAIN table :
                 LET v == NoteDiagnosis(k)[l] IN
                 /\ v.start = table[l].start /\ v.seen >= table[l].seen
                 /\ table[l].escalated => v.escalated
<1> DEFINE e == (table[k].escalated \/ table[k].seen + 1 >= ESCALATE_AT)
           v == [table[k] EXCEPT !.seen = table[k].seen + 1, !.dirty = TRUE, !.escalated = e]
<1>1. NoteDiagnosis(k) = [table EXCEPT ![k] = v]
  BY Zenon DEF NoteDiagnosis
<1>2. table[k] \in Issues /\ table[k].seen \in Nat /\ table[k].escalated \in Flags
  BY Zenon, TableUpdates, IssueUpdates
<1>3. e \in Flags /\ TRUE \in Flags /\ (table[k].escalated => e)
  BY Zenon DEF Flags
<1>4. table[k].seen + 1 \in Nat /\ table[k].seen + 1 >= table[k].seen
  BY <1>2
<1>5. /\ v \in Issues /\ v.start = table[k].start /\ v.seen = table[k].seen + 1 /\ v.escalated = e
  <2> HIDE DEF e
  <2> QED
    BY Zenon, <1>2, <1>3, <1>4 DEF Issues
<1> HIDE DEF v, e
<1>6. /\ NoteDiagnosis(k) \in Seq(Issues) /\ DOMAIN NoteDiagnosis(k) = DOMAIN table
      /\ NoteDiagnosis(k)[k] = v
      /\ \A l \in DOMAIN table : l # k => NoteDiagnosis(k)[l] = table[l]
  <2>1. LET u == [table EXCEPT ![k] = v] IN
        /\ u \in Seq(Issues) /\ DOMAIN u = DOMAIN table /\ u[k] = v
        /\ \A l \in DOMAIN table : l # k => u[l] = table[l]
    BY Zenon, <1>5, TableUpdates
  <2> QED
    BY Zenon, <1>1, <2>1
<1>7. ASSUME NEW l \in DOMAIN table
      PROVE  /\ NoteDiagnosis(k)[l].start = table[l].start
             /\ NoteDiagnosis(k)[l].seen >= table[l].seen
             /\ table[l].escalated => NoteDiagnosis(k)[l].escalated
  <2>1. CASE l = k
    BY <1>3, <1>4, <1>5, <1>6, <2>1
  <2>2. CASE l # k
    <3>1. table[l].seen \in Nat
      BY Zenon, TableUpdates, IssueUpdates
    <3> QED
      BY <1>6, <2>2, <3>1
  <2> QED
    BY <2>1, <2>2
<1> QED
  BY Zenon, <1>6, <1>7

(* The highest id of the table, by the least bound of its prefixes.        *)
LEMMA MaxKbNumberType == ASSUME table \in Seq(Issues) PROVE MaxKbNumber \in Nat
<1> DEFINE Top(l, m) == /\ m = 0 \/ \E k \in DOMAIN table : m = table[k].id
                        /\ \A k \in DOMAIN table : k <= l => table[k].id <= m
           Bad == {l \in 0 .. Len(table) : ~\E m \in Nat : Top(l, m)}
<1>0. Len(table) \in Nat /\ DOMAIN table = 1 .. Len(table) /\ \A k \in DOMAIN table : table[k].id \in Nat
  <2>1. \A k \in DOMAIN table : table[k].id \in Nat
    BY Zenon, TableUpdates, IssueUpdates
  <2> QED
    BY <2>1
<1>1. Bad = {}
  <2> SUFFICES ASSUME Bad # {} PROVE FALSE
    OBVIOUS
  <2>1. Bad \subseteq Nat
    BY <1>0
  <2>2. PICK l \in Bad : \A y \in Bad : l <= y
    <3> HIDE DEF Bad
    <3> QED
      BY Zenon, <2>1, LeastElement
  <2>3. l \in 0 .. Len(table) /\ ~\E m \in Nat : Top(l, m)
    BY <2>2
  <2>4. l # 0
    <3>1. Top(0, 0)
      BY <1>0
    <3> QED
      BY <2>3, <3>1
  <2>5. l - 1 \in 0 .. Len(table) /\ l - 1 \notin Bad
    <3>1. l - 1 \in 0 .. Len(table) /\ ~(l <= l - 1)
      BY <1>0, <2>3, <2>4
    <3> HIDE DEF Bad
    <3> QED
      BY Zenon, <2>2, <3>1
  <2>6. PICK m \in Nat : Top(l - 1, m)
    BY <2>5
  <2>7. l \in DOMAIN table /\ table[l].id \in Nat
    BY <1>0, <2>3, <2>4
  <2>8. CASE table[l].id <= m
    <3>1. Top(l, m)
      BY <1>0, <2>3, <2>4, <2>6, <2>8
    <3> QED
      BY <2>3, <3>1
  <2>9. CASE ~(table[l].id <= m)
    <3>1. Top(l, table[l].id)
      <4>1. ASSUME NEW k \in DOMAIN table, k <= l PROVE table[k].id <= table[l].id
        <5>1. CASE k = l
          BY <2>7, <5>1
        <5>2. CASE k # l
          <6>1. k <= l - 1 /\ table[k].id \in Nat
            BY <1>0, <2>3, <4>1, <5>2
          <6>2. table[k].id <= m
            BY <2>6, <6>1
          <6> QED
            BY <2>7, <2>9, <6>1, <6>2
        <5> QED
          BY <5>1, <5>2
      <4> QED
        BY <2>7, <4>1
    <3> QED
      BY <2>3, <2>7, <3>1
  <2> QED
    BY <2>8, <2>9
<1>2. PICK m \in Nat : Top(Len(table), m)
  <2>1. Len(table) \in 0 .. Len(table)
    BY <1>0
  <2> HIDE DEF Top
  <2> QED
    BY <1>1, <2>1
<1> DEFINE ids == {0} \cup {table[k].id : k \in DOMAIN table}
<1>3. m \in ids /\ \A n \in ids : n <= m
  BY <1>0, <1>2
<1>4. ids \subseteq Nat
  BY <1>0
<1>5. MaxKbNumber \in ids
  BY Zenon, <1>3 DEF MaxKbNumber
<1> QED
  BY <1>4, <1>5

-----------------------------------------------------------------------------
(* The image: where mkfs puts the files.  The recursive definition has a   *)
(* solution, built prefix by prefix, and is increasing.                    *)
LEMMA FilesFacts ==
    /\ Len(Files) \in Nat /\ Len(Files) >= 1 /\ Len(Files) <= DIRENTS_PER_BLOCK
    /\ DIRENTS_PER_BLOCK \in Nat /\ SPARE_BLOCKS \in Nat
    /\ \A i \in 1 .. Len(Files) : /\ Files[i].id \in Nat /\ Files[i].cause \in Causes
                                  /\ Files[i].len \in Nat /\ Files[i].len >= 1
<1>1. Files \in Seq([id : Nat, cause : Causes, len : Nat \ {0}])
  BY Zenon, KbAssumption DEF Causes
<1>2. Len(Files) \in 1 .. DIRENTS_PER_BLOCK /\ DIRENTS_PER_BLOCK \in Nat /\ SPARE_BLOCKS \in Nat
  BY KbAssumption
<1>3. ASSUME NEW i \in 1 .. Len(Files)
      PROVE  /\ Files[i].id \in Nat /\ Files[i].cause \in Causes
             /\ Files[i].len \in Nat /\ Files[i].len >= 1
  <2> DEFINE F == [id : Nat, cause : Causes, len : Nat \ {0}]
  <2>1. Files[i] \in F
    <3> HIDE DEF F
    <3>1. Files \in Seq(F)
      BY <1>1 DEF F
    <3> QED
      BY <3>1
  <2> QED
    BY <2>1
<1> QED
  BY <1>1, <1>2, <1>3

LEMMA StartExists ==
    \E f \in [0 .. Len(Files) -> Nat] :
        f = [i \in 0 .. Len(Files) |->
                IF i = 0 THEN DATA_START_BLOCK ELSE f[i - 1] + Files[i].len]
<1> DEFINE n == Len(Files)
           Fits(f, m) == /\ f \in [0 .. m -> Nat] /\ f[0] = DATA_START_BLOCK
                         /\ \A i \in 1 .. m : f[i] = f[i - 1] + Files[i].len
           Bad == {m \in 0 .. n : ~\E f : Fits(f, m)}
<1>0. n \in Nat /\ DATA_START_BLOCK \in Nat /\ \A i \in 1 .. n : Files[i].len \in Nat
  BY FilesFacts DEF DATA_START_BLOCK
<1>1. Bad = {}
  <2> SUFFICES ASSUME Bad # {} PROVE FALSE
    OBVIOUS
  <2>1. Bad \subseteq Nat
    BY <1>0
  <2>2. PICK m \in Bad : \A y \in Bad : m <= y
    <3> HIDE DEF Bad
    <3> QED
      BY Zenon, <2>1, LeastElement
  <2>3. m \in 0 .. n /\ ~\E f : Fits(f, m)
    BY <2>2
  <2>4. m # 0
    <3> SUFFICES ASSUME m = 0 PROVE FALSE
      OBVIOUS
    <3> DEFINE f == [i \in 0 .. 0 |-> DATA_START_BLOCK]
    <3>1. Fits(f, 0)
      BY <1>0
    <3> HIDE DEF Fits, f
    <3> QED
      BY <2>3, <3>1
  <2>5. m - 1 \in 0 .. n /\ m - 1 \notin Bad
    <3>1. m - 1 \in 0 .. n /\ ~(m <= m - 1)
      BY <1>0, <2>3, <2>4
    <3> HIDE DEF Bad
    <3> QED
      BY Zenon, <2>2, <3>1
  <2>6. PICK f : Fits(f, m - 1)
    <3> HIDE DEF Fits
    <3> QED
      BY <2>5
  <2> DEFINE g == [i \in 0 .. m |-> IF i = m THEN f[m - 1] + Files[m].len ELSE f[i]]
  <2>7. m \in Nat /\ m >= 1 /\ m \in 1 .. n
    BY <1>0, <2>3, <2>4
  <2>8. Fits(g, m)
    <3>1. /\ f \in [0 .. (m - 1) -> Nat] /\ f[0] = DATA_START_BLOCK
          /\ \A i \in 1 .. (m - 1) : f[i] = f[i - 1] + Files[i].len
      BY <2>6
    <3>2. f[m - 1] + Files[m].len \in Nat
      BY <1>0, <2>7, <3>1
    <3>3. g \in [0 .. m -> Nat]
      BY <2>7, <3>1, <3>2
    <3>4. g[0] = DATA_START_BLOCK
      BY <2>7, <3>1
    <3>5. ASSUME NEW i \in 1 .. m PROVE g[i] = g[i - 1] + Files[i].len
      <4>1. i - 1 \in 0 .. m /\ i - 1 # m /\ i \in 0 .. m
        BY <2>7
      <4>2. g[i - 1] = f[i - 1]
        BY <4>1
      <4>3. CASE i = m
        BY <4>1, <4>2, <4>3
      <4>4. CASE i # m
        <5>1. i \in 1 .. (m - 1)
          BY <2>7, <4>4
        <5> QED
          BY <3>1, <4>1, <4>2, <4>4, <5>1
      <4> QED
        BY <4>3, <4>4
    <3> QED
      BY <3>3, <3>4, <3>5
  <2> HIDE DEF Fits, g
  <2> QED
    BY <2>3, <2>8
<1>2. PICK f : Fits(f, n)
  <2>1. n \in 0 .. n
    BY <1>0
  <2> HIDE DEF Fits, n
  <2> QED
    BY <1>1, <2>1
<1>3. /\ f \in [0 .. n -> Nat] /\ f[0] = DATA_START_BLOCK
      /\ \A i \in 1 .. n : f[i] = f[i - 1] + Files[i].len
  BY <1>2
<1>4. f = [i \in 0 .. n |-> IF i = 0 THEN DATA_START_BLOCK ELSE f[i - 1] + Files[i].len]
  BY <1>0, <1>3
<1> QED
  BY Zenon, <1>3, <1>4

LEMMA StartFacts ==
    /\ Start[0] = DATA_START_BLOCK
    /\ \A i \in 0 .. Len(Files) : Start[i] \in Nat
    /\ \A i \in 1 .. Len(Files) : Start[i] = Start[i - 1] + Files[i].len
<1> DEFINE n == Len(Files)
           Body(f) == [i \in 0 .. n |-> IF i = 0 THEN DATA_START_BLOCK ELSE f[i - 1] + Files[i].len]
           Bad == {i \in 0 .. n : Start[i] \notin Nat}
<1>0. n \in Nat /\ DATA_START_BLOCK \in Nat /\ \A i \in 1 .. n : Files[i].len \in Nat
  BY FilesFacts DEF DATA_START_BLOCK
<1>1. Start = Body(Start)
  <2>1. \E f : f = Body(f)
    BY Zenon, StartExists
  <2>2. Start = CHOOSE f : f = Body(f)
    BY Zenon DEF Start
  <2> HIDE DEF Body
  <2> QED
    BY Zenon, <2>1, <2>2
<1>2. Start[0] = DATA_START_BLOCK
  BY <1>0, <1>1
<1>3. ASSUME NEW i \in 1 .. n PROVE Start[i] = Start[i - 1] + Files[i].len
  <2>1. i \in 0 .. n /\ i # 0
    BY <1>0
  <2> QED
    BY <1>1, <2>1
<1>4. Bad = {}
  <2> SUFFICES ASSUME Bad # {} PROVE FALSE
    OBVIOUS
  <2>1. Bad \subseteq Nat
    BY <1>0
  <2>2. PICK m \in Bad : \A y \in Bad : m <= y
    <3> HIDE DEF Bad
    <3> QED
      BY Zenon, <2>1, LeastElement
  <2>3. m \in 0 .. n /\ Start[m] \notin Nat
    BY <2>2
  <2>4. m # 0
    BY <1>0, <1>2, <2>3
  <2>5. m - 1 \in 0 .. n /\ m - 1 \notin Bad
    <3>1. m - 1 \in 0 .. n /\ ~(m <= m - 1)
      BY <1>0, <2>3, <2>4
    <3> HIDE DEF Bad
    <3> QED
      BY Zenon, <2>2, <3>1
  <2>6. Start[m - 1] \in Nat
    BY <2>5
  <2>7. m \in 1 .. n
    BY <1>0, <2>3, <2>4
  <2> QED
    BY <1>0, <1>3, <2>3, <2>6, <2>7
<1>5. ASSUME NEW i \in 0 .. n PROVE Start[i] \in Nat
  BY <1>4
<1> QED
  BY Zenon, <1>2, <1>3, <1>5

(* A file ends where a later one starts, or before.                        *)
LEMMA StartIncreases ==
    ASSUME NEW i \in 0 .. Len(Files), NEW j \in 0 .. Len(Files), i <= j
    PROVE  Start[i] <= Start[j]
<1> DEFINE n == Len(Files)
           Bad == {k \in 0 .. n : i <= k /\ ~(Start[i] <= Start[k])}
<1>0. /\ n \in Nat /\ i \in Nat /\ i <= n /\ \A k \in 1 .. n : Files[k].len \in Nat
      /\ \A k \in 0 .. n : Start[k] \in Nat
      /\ \A k \in 1 .. n : Start[k] = Start[k - 1] + Files[k].len
  BY FilesFacts, StartFacts
<1>1. Bad = {}
  <2> SUFFICES ASSUME Bad # {} PROVE FALSE
    OBVIOUS
  <2>1. Bad \subseteq Nat
    BY <1>0
  <2>2. PICK m \in Bad : \A y \in Bad : m <= y
    <3> HIDE DEF Bad
    <3> QED
      BY Zenon, <2>1, LeastElement
  <2>3. m \in 0 .. n /\ i <= m /\ ~(Start[i] <= Start[m])
    BY <2>2
  <2>4. m # i
    BY <1>0, <2>3
  <2>5. m - 1 \in 0 .. n /\ i <= m - 1 /\ m - 1 \notin Bad
    <3>1. m - 1 \in 0 .. n /\ i <= m - 1 /\ ~(m <= m - 1)
      BY <1>0, <2>3, <2>4
    <3> HIDE DEF Bad
    <3> QED
      BY Zenon, <2>2, <3>1
  <2>6. Start[i] <= Start[m - 1]
    BY <2>5
  <2>7. m \in 1 .. n
    BY <1>0, <2>3, <2>4
  <2>8. /\ Start[m] = Start[m - 1] + Files[m].len /\ Files[m].len \in Nat
        /\ Start[m - 1] \in Nat /\ Start[i] \in Nat
    BY Zenon, <1>0, <2>5, <2>7
  <2>9. ASSUME NEW a \in Nat, NEW b \in Nat, NEW c \in Nat, a <= b PROVE a <= b + c
    BY <2>9
  <2> QED
    BY Zenon, <2>3, <2>6, <2>8, <2>9
<1> QED
  BY <1>1

LEMMA BlocksFacts ==
    /\ Blocks \subseteq Nat /\ 0 \in Blocks /\ DIR_BLOCK \in Blocks
    /\ DIR_BLOCK = 1 /\ DATA_START_BLOCK = 2
    /\ \A a \in Nat, b \in Blocks : a <= b => a \in Blocks
    /\ \A i \in 0 .. Len(Files) : Start[i] >= DATA_START_BLOCK
    /\ \A i \in 0 .. (Len(Files) - 1) : Start[i] + Files[i + 1].len = Start[i + 1]
    /\ \A i \in 0 .. Len(Files) : \A b \in Nat : b < Start[i] => b \in Blocks
<1>0. /\ Len(Files) \in Nat /\ SPARE_BLOCKS \in Nat /\ 0 \in 0 .. Len(Files)
      /\ Len(Files) \in 0 .. Len(Files)
  BY FilesFacts
<1>1. ASSUME NEW i \in 0 .. Len(Files)
      PROVE  Start[i] \in Nat /\ Start[i] >= 2 /\ Start[i] <= Start[Len(Files)]
  <2>1. Start[0] <= Start[i] /\ Start[i] <= Start[Len(Files)] /\ Start[i] \in Nat /\ Start[0] = 2
    BY <1>0, StartIncreases, StartFacts DEF DATA_START_BLOCK
  <2> QED
    BY <2>1
<1>2. Start[Len(Files)] \in Nat /\ Start[Len(Files)] >= 2
  BY <1>0, <1>1
<1>3. ASSUME NEW i \in 0 .. (Len(Files) - 1) PROVE Start[i] + Files[i + 1].len = Start[i + 1]
  <2>1. i + 1 \in 1 .. Len(Files) /\ (i + 1) - 1 = i
    BY <1>0
  <2> QED
    BY <2>1, StartFacts
<1>4. ASSUME NEW i \in 0 .. Len(Files), NEW b \in Nat, b < Start[i] PROVE b \in Blocks
  BY <1>0, <1>1, <1>2, <1>4 DEF Blocks
<1>5. /\ Blocks \subseteq Nat /\ 0 \in Blocks /\ DIR_BLOCK \in Blocks
      /\ \A a \in Nat, b \in Blocks : a <= b => a \in Blocks
  BY <1>0, <1>2 DEF Blocks, DIR_BLOCK
<1> QED
  BY <1>1, <1>3, <1>4, <1>5 DEF DIR_BLOCK, DATA_START_BLOCK

-----------------------------------------------------------------------------
(* Blocks.                                                                 *)
LEMMA ContentsFacts ==
    /\ \A e, t \in Nat : /\ Superblock(e, t) \in Superblocks /\ Superblock(e, t).kind = "sb"
                         /\ Superblock(e, t).entries = e /\ Superblock(e, t).total = t
    /\ \A d \in DirMaps : Directory(d) \in Directories /\ Directory(d).ents = d
    /\ \A n \in Nat, c \in Causes, s \in Nat, e \in Flags :
          LET r == Entry(n, c, s, e) IN
          r \in Records /\ r.id = n /\ r.cause = c /\ r.seen = s /\ r.escalated = e
    /\ Superblocks \cup Directories \cup Records \cup {Free} = Contents
    /\ \A b \in Contents : /\ b.kind = "sb" => b \in Superblocks
                           /\ b.kind = "kb" => b \in Records
                           /\ b.kind = "dir" => b \in Directories
    /\ \A b \in Superblocks : b.kind = "sb" /\ b.entries \in Nat /\ b.total \in Nat
    /\ \A b \in Directories : b.kind = "dir" /\ b.ents \in DirMaps /\ b = Directory(b.ents)
    /\ \A b \in Records : /\ b.kind = "kb" /\ b.id \in Nat /\ b.cause \in Causes /\ b.seen \in Nat
                          /\ b.escalated \in Flags
<1>1. ASSUME NEW e \in Nat, NEW t \in Nat
      PROVE  /\ Superblock(e, t) \in Superblocks /\ Superblock(e, t).kind = "sb"
             /\ Superblock(e, t).entries = e /\ Superblock(e, t).total = t
  BY DEF Superblock, Superblocks
<1>2. ASSUME NEW d \in DirMaps PROVE Directory(d) \in Directories /\ Directory(d).ents = d
  BY DEF Directory, Directories
<1>3. ASSUME NEW n \in Nat, NEW c \in Causes, NEW s \in Nat, NEW e \in Flags
      PROVE  LET r == Entry(n, c, s, e) IN
             r \in Records /\ r.id = n /\ r.cause = c /\ r.seen = s /\ r.escalated = e
  BY DEF Entry, Records
<1>4. ASSUME NEW b \in Superblocks PROVE b.kind = "sb" /\ b.entries \in Nat /\ b.total \in Nat
  BY DEF Superblocks
<1>5. ASSUME NEW b \in Directories
      PROVE  b.kind = "dir" /\ b.ents \in DirMaps /\ b = Directory(b.ents)
  BY DEF Directories, Directory
<1>6. ASSUME NEW b \in Records
      PROVE  /\ b.kind = "kb" /\ b.id \in Nat /\ b.cause \in Causes /\ b.seen \in Nat
             /\ b.escalated \in Flags
  BY DEF Records
<1>7. Free.kind = "free"
  BY DEF Free
<1>8. ASSUME NEW b \in Contents
      PROVE  /\ b.kind = "sb" => b \in Superblocks
             /\ b.kind = "kb" => b \in Records
             /\ b.kind = "dir" => b \in Directories
  BY <1>4, <1>5, <1>6, <1>7 DEF Contents
<1> QED
  BY Zenon, <1>1, <1>2, <1>3, <1>4, <1>5, <1>6, <1>8 DEF Contents

LEMMA NewEntry ==
    ASSUME NEW n \in Nat, NEW c \in Causes
    PROVE  LET r == Entry(n, c, 0, FALSE) IN
           r \in Records /\ r.id = n /\ r.cause = c /\ r.seen = 0 /\ r.escalated = FALSE
BY DEF Entry, Records, Flags

LEMMA EntriesType ==
    ASSUME NEW b \in Contents
    PROVE  Entries(b) \in DirMaps /\ (b \in Directories => Entries(b) = b.ents)
<1>1. NoEntry \in [name : Nat, start : Nat, len : Nat]
  BY DEF NoEntry
<1>2. [i \in Slots |-> NoEntry] \in DirMaps
  BY <1>1 DEF DirMaps
<1>3. CASE b.kind = "dir"
  BY Zenon, <1>3, ContentsFacts DEF Entries
<1>4. CASE b.kind # "dir"
  BY Zenon, <1>2, <1>4, ContentsFacts DEF Entries, Slots
<1> QED
  BY Zenon, <1>3, <1>4

(* set_seen_in_block keeps what the record is about.                       *)
LEMMA SetInBlockFacts ==
    ASSUME wtr \in WtrRecords, NEW b \in Records
    PROVE  LET r == SetInBlock(b) IN
           /\ r \in Records /\ r.id = b.id /\ r.cause = b.cause /\ r.escalated = wtr.escalated
           /\ r.seen <= SEEN_MAX /\ r.seen <= wtr.seen
           /\ b.seen <= SEEN_MAX /\ b.seen <= wtr.seen => r.seen >= b.seen
<1> DEFINE s == Min2(wtr.seen, SEEN_MAX)
<1>0. wtr.seen \in Nat /\ wtr.escalated \in Flags /\ SEEN_MAX \in Nat /\ b.seen \in Nat
  BY Zenon, KbAssumption, ContentsFacts DEF WtrRecords
<1>1. /\ s \in Nat /\ s <= SEEN_MAX /\ s <= wtr.seen
      /\ b.seen <= SEEN_MAX /\ b.seen <= wtr.seen => s >= b.seen
  BY <1>0 DEF Min2
<1>2. SetInBlock(b) = [b EXCEPT !.seen = s, !.escalated = wtr.escalated]
  BY Zenon DEF SetInBlock
<1> HIDE DEF s
<1>3. LET r == [b EXCEPT !.seen = s, !.escalated = wtr.escalated] IN
      /\ r \in Records /\ r.id = b.id /\ r.cause = b.cause /\ r.escalated = wtr.escalated /\ r.seen = s
  BY Zenon, <1>0, <1>1 DEF Records
<1> QED
  BY Zenon, <1>1, <1>2, <1>3

(* The volume mkfs packs.                                                  *)
LEMMA ImageFacts ==
    /\ BuildImage \in [Blocks -> Contents]
    /\ BuildImage[0] = Superblock(Len(Files), Start[Len(Files)])
    /\ \E d \in DirMaps :
          /\ BuildImage[DIR_BLOCK] = Directory(d)
          /\ \A i \in 0 .. (Len(Files) - 1) :
                d[i] = DirEntry(Files[i + 1].id, Start[i], Files[i + 1].len)
    /\ \A i \in 0 .. (Len(Files) - 1) :
          BuildImage[Start[i]] = Entry(Files[i + 1].id, Files[i + 1].cause, 0, FALSE)
<1> DEFINE n == Len(Files)
           d == [i \in 0 .. (DIRENTS_PER_BLOCK - 1) |->
                    IF i < n THEN DirEntry(Files[i + 1].id, Start[i], Files[i + 1].len) ELSE NoEntry]
           At(b) == \E i \in 1 .. n : b = Start[i - 1]
           file(b) == CHOOSE i \in 1 .. n : b = Start[i - 1]
           record(b) == Entry(Files[file(b)].id, Files[file(b)].cause, 0, FALSE)
<1>0. /\ n \in Nat /\ n >= 1 /\ n <= DIRENTS_PER_BLOCK /\ DIRENTS_PER_BLOCK \in Nat
      /\ n \in 0 .. n /\ 0 \in Blocks /\ DIR_BLOCK \in Blocks /\ DIR_BLOCK = 1 /\ DIR_BLOCK # 0
  BY FilesFacts, BlocksFacts
<1>1. ASSUME NEW i \in 0 .. (n - 1)
      PROVE  /\ i + 1 \in 1 .. n /\ (i + 1) - 1 = i /\ i \in 0 .. n /\ i \in Nat
             /\ Start[i] \in Nat /\ Files[i + 1].id \in Nat /\ Files[i + 1].len \in Nat
             /\ Files[i + 1].cause \in Causes
  <2>1. i + 1 \in 1 .. n /\ (i + 1) - 1 = i /\ i \in 0 .. n /\ i \in Nat
    BY <1>0
  <2> QED
    BY Zenon, <2>1, FilesFacts, StartFacts
<1>2. d \in DirMaps
  <2>1. ASSUME NEW i \in Slots
        PROVE  (IF i < n THEN DirEntry(Files[i + 1].id, Start[i], Files[i + 1].len) ELSE NoEntry)
                  \in [name : Nat, start : Nat, len : Nat]
    <3>1. CASE i < n
      <4>1. i \in 0 .. (n - 1)
        BY <1>0, <3>1 DEF Slots
      <4> QED
        BY <1>1, <3>1, <4>1 DEF DirEntry
    <3>2. CASE ~(i < n)
      BY <3>2 DEF NoEntry
    <3> QED
      BY <3>1, <3>2
  <2> QED
    BY Zenon, <2>1 DEF DirMaps, Slots
<1>3. \A i \in 0 .. (n - 1) : d[i] = DirEntry(Files[i + 1].id, Start[i], Files[i + 1].len)
  BY <1>0
<1>4. /\ BuildImage[0] = Superblock(n, Start[n])
      /\ BuildImage[DIR_BLOCK] = Directory(d)
  <2>1. ASSUME NEW b, At(b) PROVE b # 0 /\ b # DIR_BLOCK
    <3>1. PICK i \in 1 .. n : b = Start[i - 1]
      BY Zenon, <2>1
    <3>2. i - 1 \in 0 .. n
      BY <1>0
    <3>3. Start[i - 1] \in Nat /\ Start[i - 1] >= 2
      BY <3>2, BlocksFacts, StartFacts
    <3> QED
      BY <1>0, <3>1, <3>3
  <2>2. ~At(0) /\ ~At(DIR_BLOCK)
    BY Zenon, <2>1
  <2> QED
    BY Zenon, <1>0, <2>2 DEF BuildImage
<1>5. ASSUME NEW b \in Blocks, b # 0, b # DIR_BLOCK
      PROVE  BuildImage[b] = IF At(b) THEN record(b) ELSE Free
  BY Zenon, <1>5 DEF BuildImage
<1>6. BuildImage = [b \in Blocks |-> BuildImage[b]]
  <2> DEFINE body(b) == CASE b = 0 -> Superblock(n, Start[n])
                          [] b = DIR_BLOCK -> Directory(d)
                          [] At(b) -> record(b)
                          [] OTHER -> Free
  <2>1. BuildImage = [b \in Blocks |-> body(b)]
    BY Zenon DEF BuildImage
  <2> HIDE DEF body
  <2> QED
    BY <2>1
<1> HIDE DEF d
<1>7. ASSUME NEW i \in 0 .. (n - 1)
      PROVE  BuildImage[Start[i]] = Entry(Files[i + 1].id, Files[i + 1].cause, 0, FALSE)
  <2>1. /\ Start[i] \in Nat /\ Start[i] >= 2 /\ Start[i] < Start[i + 1] /\ i + 1 \in 0 .. n
    <3>1. /\ Start[i] + Files[i + 1].len = Start[i + 1] /\ Files[i + 1].len >= 1 /\ Start[i] >= 2
          /\ i + 1 \in 0 .. n
      BY <1>1, BlocksFacts, FilesFacts
    <3> QED
      BY <1>1, <3>1
  <2>2. Start[i] \in Blocks /\ Start[i] # 0 /\ Start[i] # DIR_BLOCK
    <3>1. Start[i] \in Blocks
      BY Zenon, <2>1, BlocksFacts
    <3> QED
      BY <1>0, <2>1, <3>1
  <2>3. ASSUME NEW k \in 1 .. n, Start[i] = Start[k - 1] PROVE k = i + 1
    <3>1. /\ k - 1 \in 0 .. (n - 1) /\ k - 1 \in 0 .. n /\ k \in 0 .. n /\ (k - 1) + 1 = k
          /\ i \in 0 .. n /\ k \in Int /\ i \in Int
      BY <1>0
    <3>2. /\ Start[k - 1] + Files[k].len = Start[k] /\ Files[k].len \in Nat /\ Files[k].len >= 1
          /\ Start[k - 1] \in Nat /\ Start[k] \in Nat
      BY <3>1, StartFacts, FilesFacts
    <3>3. CASE k < i + 1
      <4>1. k <= i
        BY <3>1, <3>3
      <4>2. Start[k] <= Start[i]
        BY Zenon, <3>1, <4>1, StartIncreases
      <4> QED
        BY <2>1, <2>3, <3>2, <4>2
    <3>4. CASE k > i + 1
      <4>1. i + 1 <= k - 1
        BY <3>1, <3>4
      <4>2. Start[i + 1] <= Start[k - 1]
        BY Zenon, <2>1, <3>1, <4>1, StartIncreases
      <4>3. Start[i + 1] \in Nat
        BY <2>1, StartFacts
      <4> QED
        BY <2>1, <2>3, <3>2, <4>2, <4>3
    <3> QED
      BY <3>1, <3>3, <3>4
  <2>4. i + 1 \in 1 .. n /\ Start[i] = Start[(i + 1) - 1]
    BY <1>1
  <2>5. At(Start[i]) /\ file(Start[i]) = i + 1
    BY Zenon, <2>3, <2>4
  <2>6. BuildImage[Start[i]] = IF At(Start[i]) THEN record(Start[i]) ELSE Free
    BY Zenon, <1>5, <2>2
  <2> QED
    BY Zenon, <2>5, <2>6
<1>8. ASSUME NEW b \in Blocks PROVE BuildImage[b] \in Contents
  <2>1. CASE b = 0
    <3>1. Start[n] \in Nat
      BY Zenon, <1>0, StartFacts
    <3> QED
      BY <1>0, <1>4, <2>1, <3>1, ContentsFacts
  <2>2. CASE b = DIR_BLOCK
    BY <1>2, <1>4, <2>2, ContentsFacts
  <2>3. CASE b # 0 /\ b # DIR_BLOCK
    <3>1. BuildImage[b] = IF At(b) THEN record(b) ELSE Free
      BY Zenon, <1>5, <2>3
    <3>2. CASE At(b)
      <4>1. file(b) \in 1 .. n
        BY Zenon, <3>2
      <4> HIDE DEF file
      <4>2. Files[file(b)].id \in Nat /\ Files[file(b)].cause \in Causes /\ 0 \in Nat /\ FALSE \in Flags
        BY <4>1, FilesFacts DEF Flags
      <4>3. record(b) \in Records
        BY Zenon, <4>2, ContentsFacts
      <4>4. record(b) \in Contents
        BY Zenon, <4>3 DEF Contents
      <4> QED
        BY Zenon, <3>1, <3>2, <4>4
    <3>3. CASE ~At(b)
      BY <3>1, <3>3, ContentsFacts
    <3> QED
      BY <3>2, <3>3
  <2> QED
    BY <2>1, <2>2, <2>3
<1>9. BuildImage \in [Blocks -> Contents]
  BY Zenon, <1>6, <1>8
<1> QED
  BY Zenon, <1>2, <1>3, <1>4, <1>7, <1>9

-----------------------------------------------------------------------------
(* Requests to the block server.                                           *)
LEMMA RequestFacts ==
    /\ Clients = {"loader", "writer"} /\ Nil \notin Requests /\ Nil \notin Nat
    /\ \A n \in Nat, op \in {"read", "write"} :
          LET r == Request(op, n) IN r \in Requests /\ r.op = op /\ r.blk = n /\ r.st = "sent"
    /\ \A r \in Requests, s \in {"ok", "error"} :
          LET u == [r EXCEPT !.st = s] IN u \in Requests /\ u.op = r.op /\ u.blk = r.blk /\ u.st = s
    /\ \A r \in Requests : /\ r.blk \in Nat /\ r.op \in {"read", "write"}
                           /\ r.st \in {"sent", "ok", "error"}
<1>1. ASSUME NEW n \in Nat, NEW op \in {"read", "write"}
      PROVE  LET r == Request(op, n) IN r \in Requests /\ r.op = op /\ r.blk = n /\ r.st = "sent"
  BY DEF Request, Requests
<1>2. ASSUME NEW r \in Requests, NEW s \in {"ok", "error"}
      PROVE  LET u == [r EXCEPT !.st = s] IN u \in Requests /\ u.op = r.op /\ u.blk = r.blk /\ u.st = s
  BY DEF Requests
<1>3. ASSUME NEW r \in Requests
      PROVE  r.blk \in Nat /\ r.op \in {"read", "write"} /\ r.st \in {"sent", "ok", "error"}
  BY DEF Requests
<1>4. Nil \notin Requests /\ Nil \notin Nat
  BY Zenon, KbAssumption DEF Requests
<1> QED
  BY Zenon, <1>1, <1>2, <1>3, <1>4 DEF Clients

LEMMA LoaderBlockFacts ==
    ASSUME KbType, LocalInv, LoaderReads
    PROVE  /\ LoaderBlock \in Nat /\ ldr.pc \in {"sb", "dir", "head"}
           /\ ldr.pc = "sb" => LoaderBlock = 0
           /\ ldr.pc = "dir" => LoaderBlock = DIR_BLOCK
           /\ ldr.pc = "head" => /\ ldr.dir \in DirMaps /\ ldr.i \in Slots /\ ldr.i < ldr.entries
                                 /\ LoaderEntry \in [name : Nat, start : Nat, len : Nat]
                                 /\ LoaderBlock = LoaderEntry.start + ldr.j
<1>1. ldr.i \in Nat /\ ldr.j \in Nat /\ ldr.entries \in Nat /\ DIRENTS_PER_BLOCK \in Nat
  BY Zenon, FilesFacts DEF KbType, LdrRecords
<1>2. CASE ldr.pc = "sb"
  <2>1. LoaderBlock = 0
    BY Zenon, <1>2 DEF LoaderBlock
  <2> QED
    BY <1>2, <2>1
<1>3. CASE ldr.pc = "dir"
  <2>1. LoaderBlock = DIR_BLOCK
    BY Zenon, <1>3 DEF LoaderBlock
  <2> QED
    BY <1>3, <2>1, BlocksFacts
<1>4. CASE ldr.pc = "head"
  <2>1. LoaderBlock = LoaderEntry.start + ldr.j
    BY Zenon, <1>4 DEF LoaderBlock
  <2>2. ldr.i < Min2(ldr.entries, DIRENTS_PER_BLOCK)
    BY <1>4 DEF LoaderReads
  <2>3. ldr.i \in Slots /\ ldr.i < ldr.entries
    BY <1>1, <2>2 DEF Slots, Min2
  <2>4. ldr.dir \in DirMaps
    BY Zenon, <1>4 DEF LocalInv, LoaderLocals
  <2>5. LoaderEntry \in [name : Nat, start : Nat, len : Nat]
    BY Zenon, <2>3, <2>4 DEF LoaderEntry, DirMaps
  <2>6. LoaderEntry.start \in Nat
    BY <2>5
  <2>7. LoaderBlock \in Nat
    BY <1>1, <2>1, <2>6
  <2> QED
    BY <1>4, <2>1, <2>3, <2>4, <2>5, <2>7
<1>5. ldr.pc \in {"sb", "dir", "head"}
  BY DEF LoaderReads
<1> QED
  BY <1>2, <1>3, <1>4, <1>5

(* The plan is a directory with one entry more.                            *)
LEMMA PlanFacts ==
    ASSUME KbType, LocalInv, wtr.pc \in {"wdata", "wdir", "wsb"}
    PROVE  /\ wtr.sb.entries \in Slots /\ wtr.sb.total \in Nat /\ wtr.id \in Nat /\ wtr.dir \in DirMaps
           /\ PlanDirectory \in Directories
           /\ PlanDirectory.ents[wtr.sb.entries] = DirEntry(wtr.id, wtr.sb.total, 1)
           /\ \A i \in Slots : i # wtr.sb.entries => PlanDirectory.ents[i] = wtr.dir[i]
           /\ PlanSuperblock \in Superblocks
           /\ PlanSuperblock.entries = wtr.sb.entries + 1 /\ PlanSuperblock.total = wtr.sb.total + 1
           /\ Entry(wtr.id, wtr.tok, 0, FALSE) \in Records
<1>1. /\ wtr.sb \in Superblocks /\ wtr.dir \in DirMaps /\ wtr.sb.entries < DIRENTS_PER_BLOCK
      /\ wtr.tok \in Causes
  BY DEF LocalInv, WriterLocals
<1>2. /\ wtr.sb.entries \in Nat /\ wtr.sb.total \in Nat /\ wtr.id \in Nat /\ DIRENTS_PER_BLOCK \in Nat
      /\ FALSE \in Flags
  BY Zenon, <1>1, ContentsFacts, FilesFacts DEF KbType, WtrRecords, Flags
<1>3. /\ wtr.sb.entries \in Slots /\ wtr.sb.entries + 1 \in Nat /\ wtr.sb.total + 1 \in Nat /\ 0 \in Nat
  BY <1>1, <1>2 DEF Slots
<1>4. DirEntry(wtr.id, wtr.sb.total, 1) \in [name : Nat, start : Nat, len : Nat]
  BY <1>2 DEF DirEntry
<1> DEFINE d == [wtr.dir EXCEPT ![wtr.sb.entries] = DirEntry(wtr.id, wtr.sb.total, 1)]
<1>5. /\ d \in DirMaps /\ d[wtr.sb.entries] = DirEntry(wtr.id, wtr.sb.total, 1)
      /\ \A i \in Slots : i # wtr.sb.entries => d[i] = wtr.dir[i]
  BY Zenon, <1>1, <1>3, <1>4 DEF DirMaps
<1>6. PlanDirectory = Directory(d) /\ PlanSuperblock = Superblock(wtr.sb.entries + 1, wtr.sb.total + 1)
  BY Zenon DEF PlanDirectory, PlanSuperblock
<1> HIDE DEF d
<1>7. PlanDirectory \in Directories /\ PlanDirectory.ents = d
  BY Zenon, <1>5, <1>6, ContentsFacts
<1>8. /\ PlanSuperblock \in Superblocks
      /\ PlanSuperblock.entries = wtr.sb.entries + 1 /\ PlanSuperblock.total = wtr.sb.total + 1
  BY <1>3, <1>6 DEF Superblock, Superblocks
<1>9. Entry(wtr.id, wtr.tok, 0, FALSE) \in Records
  BY Zenon, <1>1, <1>2, <1>3, ContentsFacts
<1> QED
  BY Zenon, <1>1, <1>2, <1>3, <1>5, <1>7, <1>8, <1>9

LEMMA WriterBlockFacts ==
    ASSUME KbType, LocalInv
    PROVE  /\ wtr.pc \in WtrReads => WriterReadBlock \in Nat
           /\ wtr.pc = "sb" => WriterReadBlock = 0
           /\ wtr.pc = "dir" => WriterReadBlock = DIR_BLOCK
           /\ wtr.pc = "entry" => WriterReadBlock = table[wtr.slot].start
           /\ wtr.pc \in WtrWrites => WriterTarget \in Nat /\ Outgoing \in Contents
           /\ wtr.pc = "wdata" => /\ WriterTarget = wtr.sb.total
                                  /\ Outgoing = Entry(wtr.id, wtr.tok, 0, FALSE)
           /\ wtr.pc = "wdir" => WriterTarget = DIR_BLOCK /\ Outgoing = PlanDirectory
           /\ wtr.pc = "wsb" => WriterTarget = 0 /\ Outgoing = PlanSuperblock
           /\ wtr.pc = "wentry" => WriterTarget = table[wtr.slot].start /\ Outgoing = wtr.block
<1>1. wtr.pc = "sb" => WriterReadBlock = 0
  BY Zenon DEF WriterReadBlock
<1>2. wtr.pc = "dir" => WriterReadBlock = DIR_BLOCK
  BY Zenon DEF WriterReadBlock
<1>3. wtr.pc = "entry" => WriterReadBlock = table[wtr.slot].start
  BY Zenon DEF WriterReadBlock
<1>4. wtr.pc = "wdata" => WriterTarget = wtr.sb.total /\ Outgoing = Entry(wtr.id, wtr.tok, 0, FALSE)
  BY Zenon DEF WriterTarget, Outgoing
<1>5. wtr.pc = "wdir" => WriterTarget = DIR_BLOCK /\ Outgoing = PlanDirectory
  BY Zenon DEF WriterTarget, Outgoing
<1>6. wtr.pc = "wsb" => WriterTarget = 0 /\ Outgoing = PlanSuperblock
  BY Zenon DEF WriterTarget, Outgoing
<1>7. wtr.pc = "wentry" => WriterTarget = table[wtr.slot].start /\ Outgoing = wtr.block
  BY Zenon DEF WriterTarget, Outgoing
<1>8. wtr.pc \in {"entry", "wentry"} => table[wtr.slot].start \in Nat
  <2>1. wtr.pc \in {"entry", "wentry"} => wtr.slot \in DOMAIN table
    BY DEF LocalInv, WriterLocals
  <2> QED
    BY Zenon, <2>1, TableUpdates, IssueUpdates DEF KbType
<1>9. 0 \in Nat /\ DIR_BLOCK \in Nat
  BY BlocksFacts
<1>10. wtr.pc \in WtrReads => WriterReadBlock \in Nat
  BY <1>1, <1>2, <1>3, <1>8, <1>9 DEF WtrReads
<1>11. wtr.pc \in {"wdata", "wdir", "wsb"} =>
          /\ wtr.sb.total \in Nat /\ PlanDirectory \in Contents /\ PlanSuperblock \in Contents
          /\ Entry(wtr.id, wtr.tok, 0, FALSE) \in Contents
  BY Zenon, PlanFacts DEF Contents
<1>12. wtr.pc = "wentry" => wtr.block \in Contents
  BY Zenon DEF LocalInv, WriterLocals, Contents
<1>13. wtr.pc \in WtrWrites => WriterTarget \in Nat /\ Outgoing \in Contents
  BY <1>4, <1>5, <1>6, <1>7, <1>8, <1>9, <1>11, <1>12 DEF WtrWrites
<1> QED
  BY Zenon, <1>1, <1>2, <1>3, <1>4, <1>5, <1>6, <1>7, <1>10, <1>13

(* What a client has when its read returns: the block it asked for, as it  *)
(* is on the disk, or an error.                                            *)
LEMMA ReadDone ==
    ASSUME KbType, RequestInv, NEW c \in Clients, NEW n \in Nat, FsReadDone(c, n),
           \A o \in Clients \ {c} : req[o] = Nil,
           req[c] # Nil => req[c].blk = n /\ req[c].op = "read"
    PROVE  /\ req' \in [Clients -> Requests \cup {Nil}] /\ \A o \in Clients : req'[o] = Nil
           /\ page' = page /\ cached' \in Nat \cup {Nil}
           /\ Result(c) # Failed => Result(c) = page /\ n \in Blocks /\ page = disk[n]
           /\ cached' # Nil => cached' \in Blocks /\ page = disk[cached']
<1>1. Nil \notin Nat /\ n # Nil
  BY RequestFacts
<1>2. Result(c) # Failed => Result(c) = page /\ n \in Blocks /\ page = disk[n]
  <2>1. CASE req[c] = Nil
    <3>1. cached = n /\ Result(c) = page
      BY Zenon, <2>1 DEF FsReadDone, Answered, Result
    <3>2. cached \in Blocks /\ page = disk[cached]
      <4>1. \A o \in Clients : req[o] = Nil
        BY Zenon, <2>1
      <4> QED
        BY Zenon, <1>1, <3>1, <4>1 DEF RequestInv
    <3> QED
      BY Zenon, <3>1, <3>2
  <2>2. CASE req[c] # Nil
    <3>1. req[c].st # "sent" /\ req[c] \in Requests
      BY Zenon, <2>2 DEF FsReadDone, Answered, KbType
    <3>2. Result(c) # Failed => Result(c) = page /\ req[c].st # "error"
      BY Zenon, <2>2 DEF Result
    <3>3. req[c].st \in {"sent", "ok", "error"}
      BY Zenon, <3>1, RequestFacts
    <3>4. Result(c) # Failed => req[c].st = "ok"
      BY Zenon, <3>1, <3>2, <3>3
    <3> QED
      BY Zenon, <2>2, <3>2, <3>4 DEF RequestInv
  <2> QED
    BY Zenon, <2>1, <2>2
<1>3. /\ req' = [req EXCEPT ![c] = Nil] /\ page' = page
      /\ cached' = IF Result(c) = Failed THEN Nil ELSE n
  BY Zenon DEF FsReadDone
<1>4. req \in [Clients -> Requests \cup {Nil}]
  BY Zenon DEF KbType
<1>5. req' \in [Clients -> Requests \cup {Nil}] /\ \A o \in Clients : req'[o] = Nil
  BY Zenon, <1>3, <1>4
<1> QED
  BY Zenon, <1>2, <1>3, <1>5

LEMMA QuietRequests ==
    ASSUME \A o \in Clients : req'[o] = Nil, disk' = disk, page' = page,
           cached' # Nil => cached' \in Blocks /\ page = disk[cached']
    PROVE  RequestInv'
<1>1. req'["loader"] = Nil /\ req'["writer"] = Nil
  BY Zenon, RequestFacts
<1> QED
  BY Zenon, <1>1 DEF RequestInv

(* Steps that leave both tasks, the page and the disk alone keep the       *)
(* requests as they are, if they move no entry.                            *)
LEMMA SameStarts ==
    ASSUME KbType, RequestInv, LocalInv, UNCHANGED <<disk, ioVars, ldr, wtr>>,
           DOMAIN table' = DOMAIN table,
           \A k \in DOMAIN table : table'[k].start = table[k].start
    PROVE  RequestInv' /\ LocalInv'
<1>1. /\ LoaderAsks' = LoaderAsks
      /\ disk' = disk /\ page' = page /\ cached' = cached /\ req' = req /\ wtr' = wtr /\ ldr' = ldr
  BY Zenon DEF LoaderAsks, LoaderReads, LoaderBlock, LoaderEntry, ioVars
<1>2. LocalInv'
  BY Zenon, <1>1 DEF LocalInv, LoaderLocals, WriterLocals
<1>3. wtr.pc \in {"entry", "wentry"} => table'[wtr.slot].start = table[wtr.slot].start
  BY DEF LocalInv, WriterLocals
<1>4. WriterReads => WriterReads'
  <2>1. wtr.pc \in WtrReads => WriterReadBlock' = WriterReadBlock
    <3>1. wtr.pc = "sb" => WriterReadBlock' = 0 /\ WriterReadBlock = 0
      BY Zenon, <1>1 DEF WriterReadBlock
    <3>2. wtr.pc = "dir" => WriterReadBlock' = DIR_BLOCK /\ WriterReadBlock = DIR_BLOCK
      BY Zenon, <1>1 DEF WriterReadBlock
    <3>3. wtr.pc = "entry" => /\ WriterReadBlock' = table'[wtr.slot].start
                              /\ WriterReadBlock = table[wtr.slot].start
      BY Zenon, <1>1 DEF WriterReadBlock
    <3> QED
      BY <1>3, <3>1, <3>2, <3>3 DEF WtrReads
  <2> QED
    BY Zenon, <1>1, <2>1 DEF WriterReads
<1>5. WriterWrites => WriterWrites'
  <2>1. wtr.pc \in WtrWrites => WriterTarget' = WriterTarget
    <3>1. wtr.pc = "wdata" => WriterTarget' = wtr.sb.total /\ WriterTarget = wtr.sb.total
      BY Zenon, <1>1 DEF WriterTarget
    <3>2. wtr.pc = "wdir" => WriterTarget' = DIR_BLOCK /\ WriterTarget = DIR_BLOCK
      BY Zenon, <1>1 DEF WriterTarget
    <3>3. wtr.pc = "wsb" => WriterTarget' = 0 /\ WriterTarget = 0
      BY Zenon, <1>1 DEF WriterTarget
    <3>4. wtr.pc = "wentry" => /\ WriterTarget' = table'[wtr.slot].start
                               /\ WriterTarget = table[wtr.slot].start
      BY Zenon, <1>1 DEF WriterTarget
    <3> QED
      BY <1>3, <3>1, <3>2, <3>3, <3>4 DEF WtrWrites
  <2>2. Outgoing' = Outgoing
    BY Zenon, <1>1 DEF Outgoing, PlanDirectory, PlanSuperblock
  <2> QED
    BY Zenon, <1>1, <2>1, <2>2 DEF WriterWrites
<1>6. RequestInv'
  BY Zenon, <1>1, <1>4, <1>5 DEF RequestInv
<1> QED
  BY <1>2, <1>6

-----------------------------------------------------------------------------
(* The page, the requests and the locals, step by step.                    *)
Booted ==
    /\ disk \in [Blocks -> Contents]
    /\ page = Free /\ cached = Nil /\ req = [c \in Clients |-> Nil]
    /\ ldr = LdrStart(HasBlk) /\ wtr = WtrStart(HasBlk) /\ table = <<>> /\ novel = Nil
    /\ patient = BootPatients

LEMMA BootInv == Booted => IoInv
<1> SUFFICES ASSUME Booted PROVE IoInv
  OBVIOUS
<1>1. req["loader"] = Nil /\ req["writer"] = Nil /\ req \in [Clients -> Requests \cup {Nil}]
  BY DEF Booted, Clients
<1>2. ldr \in LdrRecords /\ ldr.pc \in {"sb", "release"} /\ ldr.i = 0 /\ ldr.j = 0
  BY DEF Booted, LdrStart, LdrRecords
<1>3. wtr \in WtrRecords /\ wtr.pc \in {"take", "absent"} /\ wtr.tok = Nil
  <2>1. (IF HasBlk THEN "take" ELSE "absent") \in {"take", "dirty", "absent"}
    OBVIOUS
  <2>2. (IF HasBlk THEN "take" ELSE "absent") \in {"take", "absent"}
    OBVIOUS
  <2> DEFINE p == IF HasBlk THEN "take" ELSE "absent"
  <2>3. wtr = WtrIdle(p)
    BY Zenon DEF Booted, WtrStart
  <2> HIDE DEF p
  <2>4. p \in {"take", "dirty", "absent"} /\ p \in {"take", "absent"}
    BY <2>1, <2>2 DEF p
  <2> QED
    BY Zenon, <2>3, <2>4, WtrIdles
<1>4. ldr.pc # "release" => wtr.pc = "take"
  <2>1. ldr.pc # "release" => HasBlk
    BY DEF Booted, LdrStart
  <2>2. HasBlk => wtr = WtrIdle("take")
    BY Zenon DEF Booted, WtrStart
  <2> QED
    BY Zenon, <2>1, <2>2, WtrIdles
<1>5. KbType
  <2>1. page \in Contents /\ cached \in Nat \cup {Nil} /\ table \in Seq(Issues) /\ novel \in Causes \cup {Nil}
    BY ContentsFacts DEF Booted
  <2> QED
    BY Zenon, <1>1, <1>2, <1>3, <2>1 DEF KbType, Booted
<1>6. TurnInv
  <2>1. \A p \in Patients : patient[p] \in Gated
    BY DEF Booted, BootPatients, Gated
  <2>2. DOMAIN table = {} /\ novel = Nil
    BY DEF Booted
  <2> QED
    BY Zenon, <1>1, <1>3, <1>4, <2>1, <2>2 DEF TurnInv
<1>7. RequestInv
  BY Zenon, <1>1, RequestFacts DEF RequestInv, Booted
<1>8. LocalInv
  BY <1>2, <1>3 DEF LocalInv, LoaderLocals, WriterLocals
<1> QED
  BY <1>5, <1>6, <1>7, <1>8 DEF IoInv

LEMMA IoInvInit == Init => IoInv
<1>1. Init => Booted
  BY Zenon, ImageFacts DEF Init, Booted
<1> QED
  BY <1>1, BootInv

LEMMA IoPowerLoss == IoInv /\ PowerLoss => IoInv'
<1>1. IoInv /\ PowerLoss => Booted'
  BY Zenon DEF IoInv, KbType, PowerLoss, Booted
<1> QED
  BY <1>1, BootInv, PTL

(* The loader runs alone: the patients wait for it, the writer idles.      *)
LEMMA LoaderTurn ==
    ASSUME IoInv, ldr.pc # "release", UNCHANGED <<disk, page, wtr, novel, patient>>,
           cached' \in Nat \cup {Nil}, req' \in [Clients -> Requests \cup {Nil}],
           table' \in Seq(Issues), \A k \in DOMAIN table' : table'[k].dirty = FALSE,
           ldr' \in LdrRecords, req'["writer"] = Nil, RequestInv',
           ldr'.pc = "release" => req'["loader"] = Nil, LoaderLocals'
    PROVE  IoInv'
<1>1. /\ \A p \in Patients : patient[p] \in Gated
      /\ novel = Nil /\ wtr.pc \in {"take", "clear", "dirty"} /\ wtr.tok = Nil
  BY Zenon DEF IoInv, TurnInv
<1>2. disk' = disk /\ page' = page /\ wtr' = wtr /\ novel' = novel /\ patient' = patient
  OBVIOUS
<1>3. KbType'
  BY Zenon, <1>2 DEF IoInv, KbType
<1>4. TurnInv'
  BY Zenon, <1>1, <1>2 DEF TurnInv
<1>5. LocalInv'
  BY <1>1, <1>2 DEF LocalInv, WriterLocals
<1> QED
  BY <1>3, <1>4, <1>5 DEF IoInv

(* A read that returns to the loader, which is alone.                      *)
LEMMA LoaderRead ==
    ASSUME IoInv, LoaderReads, FsReadDone("loader", LoaderBlock), disk' = disk
    PROVE  /\ req' \in [Clients -> Requests \cup {Nil}] /\ \A o \in Clients : req'[o] = Nil
           /\ page' = page /\ cached' \in Nat \cup {Nil} /\ RequestInv' /\ page \in Contents
           /\ LET b == Result("loader") IN
              b # Failed => b \in Contents /\ LoaderBlock \in Blocks /\ b = disk[LoaderBlock]
<1>0. KbType /\ TurnInv /\ RequestInv /\ LocalInv
  BY Zenon DEF IoInv
<1>1. LoaderBlock \in Nat /\ ldr.pc # "release"
  BY <1>0, LoaderBlockFacts
<1>2. "loader" \in Clients /\ \A o \in Clients \ {"loader"} : req[o] = Nil
  BY <1>0, <1>1 DEF Clients, TurnInv
<1>3. req["loader"] # Nil => req["loader"].blk = LoaderBlock /\ req["loader"].op = "read"
  BY Zenon, <1>0 DEF RequestInv, LoaderAsks
<1>4. /\ req' \in [Clients -> Requests \cup {Nil}] /\ \A o \in Clients : req'[o] = Nil
      /\ page' = page /\ cached' \in Nat \cup {Nil}
      /\ Result("loader") # Failed =>
            Result("loader") = page /\ LoaderBlock \in Blocks /\ page = disk[LoaderBlock]
      /\ cached' # Nil => cached' \in Blocks /\ page = disk[cached']
  BY Zenon, <1>0, <1>1, <1>2, <1>3, ReadDone
<1>5. RequestInv'
  BY Zenon, <1>4, QuietRequests
<1>6. page \in Contents
  BY Zenon, <1>0 DEF KbType
<1> QED
  BY Zenon, <1>4, <1>5, <1>6

LEMMA IoLoaderIssue == IoInv /\ LoaderIssue => IoInv'
<1> SUFFICES ASSUME IoInv, LoaderIssue PROVE IoInv'
  OBVIOUS
<1>0. KbType /\ TurnInv /\ RequestInv /\ LocalInv /\ LoaderReads
  BY Zenon DEF IoInv, LoaderIssue
<1>1. LoaderBlock \in Nat /\ ldr.pc # "release"
  BY <1>0, LoaderBlockFacts
<1>2. /\ UNCHANGED <<disk, page, cached, ldr, wtr, table, novel, patient>> /\ req["loader"] = Nil
      /\ req' = [req EXCEPT !["loader"] = Request("read", LoaderBlock)]
  BY Zenon DEF LoaderIssue, FsReadIssue, healVars, patientVars
<1>3. req \in [Clients -> Requests \cup {Nil}] /\ req["writer"] = Nil /\ "loader" \in Clients
  BY Zenon, <1>0, <1>1, RequestFacts DEF KbType, TurnInv
<1> DEFINE r == Request("read", LoaderBlock)
<1>4. r \in Requests /\ r.op = "read" /\ r.blk = LoaderBlock /\ r.st = "sent"
  BY Zenon, <1>1, RequestFacts
<1> HIDE DEF r
<1>5. /\ req' \in [Clients -> Requests \cup {Nil}] /\ req'["loader"] = r /\ req'["writer"] = Nil
  BY <1>2, <1>3, <1>4, RequestFacts DEF r
<1>6. RequestInv'
  <2>1. LoaderAsks'
    <3>1. LoaderReads' /\ LoaderBlock' = LoaderBlock
      BY Zenon, <1>0, <1>2 DEF LoaderReads, LoaderBlock, LoaderEntry
    <3> QED
      BY Zenon, <1>4, <1>5, <3>1 DEF LoaderAsks
  <2>2. \A c \in Clients : req'[c] = Nil \/ req'[c].st = "sent"
    BY Zenon, <1>4, <1>5, RequestFacts
  <2>3. \A c \in Clients : req[c] = Nil
    BY Zenon, <1>2, <1>3, RequestFacts
  <2>4. cached # Nil => cached \in Blocks /\ page = disk[cached]
    BY Zenon, <1>0, <2>3 DEF RequestInv
  <2>5. disk' = disk /\ page' = page /\ cached' = cached
    BY <1>2
  <2>6. ASSUME NEW c \in Clients, req'[c] # Nil, req'[c].st = "ok" PROVE FALSE
    <3>1. req'[c].st = "sent"
      BY Zenon, <2>2, <2>6
    <3> QED
      BY <2>6, <3>1
  <2> QED
    BY Zenon, <1>5, <2>1, <2>4, <2>5, <2>6 DEF RequestInv
<1>7. /\ table' \in Seq(Issues) /\ \A k \in DOMAIN table' : table'[k].dirty = FALSE
      /\ ldr' \in LdrRecords /\ cached' \in Nat \cup {Nil} /\ ldr'.pc # "release"
  BY Zenon, <1>0, <1>1, <1>2 DEF KbType, TurnInv
<1>8. LoaderLocals'
  BY Zenon, <1>0, <1>2 DEF LocalInv, LoaderLocals
<1> QED
  BY Zenon, <1>1, <1>2, <1>5, <1>6, <1>7, <1>8, LoaderTurn

LEMMA IoLoaderSuperblock == IoInv /\ LoaderSuperblock => IoInv'
<1> SUFFICES ASSUME IoInv, LoaderSuperblock PROVE IoInv'
  OBVIOUS
<1>0. KbType /\ TurnInv /\ LocalInv /\ ldr.pc = "sb" /\ ldr.pc # "release" /\ LoaderReads
  BY DEF IoInv, LoaderSuperblock, LoaderReads
<1>1. FsReadDone("loader", LoaderBlock) /\ UNCHANGED <<disk, wtr, table, novel, patient>>
  BY Zenon DEF LoaderSuperblock, healVars, patientVars
<1>2. disk' = disk /\ table' = table
  BY <1>1
<1> DEFINE b == Result("loader")
<1>3. /\ req' \in [Clients -> Requests \cup {Nil}] /\ \A o \in Clients : req'[o] = Nil
      /\ page' = page /\ cached' \in Nat \cup {Nil} /\ RequestInv'
      /\ b # Failed => b \in Contents
  BY Zenon, <1>0, <1>1, <1>2, LoaderRead
<1>4. ldr' = IF b # Failed /\ b.kind = "sb" THEN [ldr EXCEPT !.pc = "dir", !.entries = b.entries]
                                            ELSE [ldr EXCEPT !.pc = "release"]
  BY Zenon DEF LoaderSuperblock
<1> HIDE DEF b
<1>5. ldr \in LdrRecords
  BY Zenon, <1>0 DEF KbType
<1>8. ldr.i = 0 /\ ldr.j = 0
  BY Zenon, <1>0 DEF LocalInv, LoaderLocals
<1>6. ldr' \in LdrRecords /\ LoaderLocals'
  <2>1. CASE b # Failed /\ b.kind = "sb"
    <3>1. b.entries \in Nat
      BY Zenon, <1>3, <2>1, ContentsFacts
    <3>2. ldr' \in LdrRecords /\ ldr'.pc = "dir" /\ ldr'.i = ldr.i /\ ldr'.j = ldr.j
      <4>1. ldr' = LdrAtDirectory(ldr, b.entries)
        BY Zenon, <1>4, <2>1 DEF LdrAtDirectory
      <4> QED
        BY Zenon, <1>5, <3>1, <4>1, LdrToDirectory
    <3> QED
      BY <1>8, <3>2 DEF LoaderLocals
  <2>2. CASE ~(b # Failed /\ b.kind = "sb")
    <3>1. ldr' \in LdrRecords /\ ldr'.pc = "release"
      <4>1. ldr' = LdrAtRelease(ldr)
        BY Zenon, <1>4, <2>2 DEF LdrAtRelease
      <4> QED
        BY Zenon, <1>5, <4>1, LdrToRelease
    <3> QED
      BY <3>1 DEF LoaderLocals
  <2> QED
    BY Zenon, <2>1, <2>2
<1>7. /\ table' \in Seq(Issues) /\ \A k \in DOMAIN table' : table'[k].dirty = FALSE
      /\ req'["writer"] = Nil /\ req'["loader"] = Nil
  BY Zenon, <1>0, <1>2, <1>3, RequestFacts DEF KbType, TurnInv
<1> QED
  BY Zenon, <1>0, <1>1, <1>3, <1>6, <1>7, LoaderTurn

LEMMA IoLoaderDirectory == IoInv /\ LoaderDirectory => IoInv'
<1> SUFFICES ASSUME IoInv, LoaderDirectory PROVE IoInv'
  OBVIOUS
<1>0. KbType /\ TurnInv /\ LocalInv /\ ldr.pc = "dir" /\ ldr.pc # "release" /\ LoaderReads
  BY DEF IoInv, LoaderDirectory, LoaderReads
<1>1. FsReadDone("loader", LoaderBlock) /\ UNCHANGED <<disk, wtr, table, novel, patient>>
  BY Zenon DEF LoaderDirectory, healVars, patientVars
<1>2. disk' = disk /\ table' = table
  BY <1>1
<1> DEFINE b == Result("loader")
<1>3. /\ req' \in [Clients -> Requests \cup {Nil}] /\ \A o \in Clients : req'[o] = Nil
      /\ page' = page /\ cached' \in Nat \cup {Nil} /\ RequestInv'
      /\ b # Failed => b \in Contents
  BY Zenon, <1>0, <1>1, <1>2, LoaderRead
<1>4. ldr' = IF b # Failed THEN [ldr EXCEPT !.pc = "head", !.dir = Entries(b)]
                           ELSE [ldr EXCEPT !.pc = "release"]
  BY Zenon DEF LoaderDirectory
<1> HIDE DEF b
<1>5. ldr \in LdrRecords
  BY Zenon, <1>0 DEF KbType
<1>8. ldr.j = 0
  BY Zenon, <1>0 DEF LocalInv, LoaderLocals
<1>6. ldr' \in LdrRecords /\ LoaderLocals'
  <2>1. CASE b # Failed
    <3>1. Entries(b) \in DirMaps
      BY Zenon, <1>3, <2>1, EntriesType
    <3>2. ldr' \in LdrRecords /\ ldr'.pc = "head" /\ ldr'.dir = Entries(b) /\ ldr'.j = ldr.j
      <4>1. ldr' = LdrAtHead(ldr, Entries(b))
        BY Zenon, <1>4, <2>1 DEF LdrAtHead
      <4> QED
        BY Zenon, <1>5, <3>1, <4>1, LdrToHead
    <3> QED
      BY <1>8, <3>1, <3>2 DEF LoaderLocals
  <2>2. CASE b = Failed
    <3>1. ldr' \in LdrRecords /\ ldr'.pc = "release"
      <4>1. ldr' = LdrAtRelease(ldr)
        BY Zenon, <1>4, <2>2 DEF LdrAtRelease
      <4> QED
        BY Zenon, <1>5, <4>1, LdrToRelease
    <3> QED
      BY <3>1 DEF LoaderLocals
  <2> QED
    BY Zenon, <2>1, <2>2
<1>7. /\ table' \in Seq(Issues) /\ \A k \in DOMAIN table' : table'[k].dirty = FALSE
      /\ req'["writer"] = Nil /\ req'["loader"] = Nil
  BY Zenon, <1>0, <1>2, <1>3, RequestFacts DEF KbType, TurnInv
<1> QED
  BY Zenon, <1>0, <1>1, <1>3, <1>6, <1>7, LoaderTurn

(* fs_read_extent_head goes on to the next block, or is done with the      *)
(* entry and installs the record it read first, if it is one.              *)
HeadRecord == IF ldr.j = 0 THEN disk[LoaderEntry.start] ELSE ldr.head
Loaded(r) == Issue(r.id, r.cause, r.seen, r.escalated, LoaderEntry.start)

LEMMA LoaderHeadStep ==
    ASSUME IoInv, LoaderHead
    PROVE  /\ ldr' \in LdrRecords /\ ldr'.pc = "head"
           /\ ldr'.entries = ldr.entries /\ ldr'.dir = ldr.dir
           /\ UNCHANGED <<disk, page, wtr, novel, patient>>
           /\ req' \in [Clients -> Requests \cup {Nil}] /\ \A o \in Clients : req'[o] = Nil
           /\ cached' \in Nat \cup {Nil} /\ RequestInv'
           /\ \/ /\ ldr'.i = ldr.i /\ ldr'.head = HeadRecord /\ HeadRecord \in Contents
                 /\ table' = table
              \/ /\ ldr'.i = ldr.i + 1 /\ ldr'.j = 0
                 /\ \/ table' = table
                    \/ HeadRecord \in Records /\ table' = Install(table, Loaded(HeadRecord))
<1>0. KbType /\ LocalInv /\ ldr.pc = "head" /\ LoaderReads
  BY Zenon DEF IoInv, LoaderHead
<1>1. FsReadDone("loader", LoaderBlock) /\ UNCHANGED <<disk, wtr, novel, patient>>
  BY Zenon DEF LoaderHead, patientVars
<1>2. disk' = disk
  BY <1>1
<1> DEFINE b == Result("loader")
           head == IF ldr.j = 0 THEN b ELSE ldr.head
           last == ldr.j + 1 >= Min2(LoaderEntry.len, KB_HEAD_BLOCKS)
<1>3. /\ req' \in [Clients -> Requests \cup {Nil}] /\ \A o \in Clients : req'[o] = Nil
      /\ page' = page /\ cached' \in Nat \cup {Nil} /\ RequestInv'
      /\ b # Failed => b \in Contents /\ b = disk[LoaderBlock]
  BY Zenon, <1>0, <1>1, <1>2, LoaderRead
<1>4. /\ ldr' = IF b # Failed /\ ~last THEN LdrAtNextBlock(ldr, ldr.j + 1, head)
                                       ELSE LdrAtNextEntry(ldr, ldr.i + 1)
      /\ table' = IF b # Failed /\ last /\ head.kind = "kb" /\ head.cause # NoToken
                  THEN Install(table, Loaded(head)) ELSE table
  BY Zenon DEF LoaderHead, LdrAtNextBlock, LdrAtNextEntry, Loaded
<1>5. ldr \in LdrRecords
  BY Zenon, <1>0 DEF KbType
<1>6. /\ ldr.i \in Nat /\ ldr.j \in Nat /\ ldr.i + 1 \in Nat /\ ldr.j + 1 \in Nat
      /\ LoaderBlock = LoaderEntry.start + ldr.j /\ LoaderEntry.start \in Nat
  <2>1. ldr.i \in Nat /\ ldr.j \in Nat
    BY <1>5 DEF LdrRecords
  <2>2. LoaderBlock = LoaderEntry.start + ldr.j /\ LoaderEntry \in [name : Nat, start : Nat, len : Nat]
    BY Zenon, <1>0, LoaderBlockFacts
  <2> QED
    BY <2>1, <2>2
<1>7. ldr.j = 0 => LoaderBlock = LoaderEntry.start
  BY <1>6
<1>8. b # Failed => head = HeadRecord /\ head \in Contents
  <2>1. ldr.j # 0 => ldr.head \in Contents
    BY Zenon, <1>0 DEF LocalInv, LoaderLocals
  <2> QED
    BY Zenon, <1>3, <1>7, <2>1 DEF HeadRecord
<1> HIDE DEF b, head, last
<1>9. CASE b # Failed /\ ~last
  <2>1. ldr' = LdrAtNextBlock(ldr, ldr.j + 1, head) /\ table' = table
    BY Zenon, <1>4, <1>9
  <2>2. /\ ldr' \in LdrRecords /\ ldr'.pc = ldr.pc /\ ldr'.entries = ldr.entries
        /\ ldr'.dir = ldr.dir /\ ldr'.i = ldr.i /\ ldr'.head = head
    <3>1. head \in Contents /\ ldr.j + 1 \in Nat
      BY Zenon, <1>6, <1>8, <1>9
    <3> QED
      BY ZenonT(60), <1>5, <2>1, <3>1, LdrToNextBlock
  <2> QED
    BY Zenon, <1>0, <1>1, <1>3, <1>8, <1>9, <2>1, <2>2
<1>10. CASE ~(b # Failed /\ ~last)
  <2>1. ldr' = LdrAtNextEntry(ldr, ldr.i + 1)
    BY Zenon, <1>4, <1>10
  <2>2. /\ ldr' \in LdrRecords /\ ldr'.pc = ldr.pc /\ ldr'.entries = ldr.entries
        /\ ldr'.dir = ldr.dir /\ ldr'.i = ldr.i + 1 /\ ldr'.j = 0
    BY Zenon, <1>5, <1>6, <2>1, LdrToNextEntry
  <2>3. table' = table \/ (HeadRecord \in Records /\ table' = Install(table, Loaded(HeadRecord)))
    <3>1. CASE b # Failed /\ last /\ head.kind = "kb" /\ head.cause # NoToken
      <4>1. head = HeadRecord /\ head \in Records
        BY Zenon, <1>8, <3>1, ContentsFacts
      <4> QED
        BY Zenon, <1>4, <3>1, <4>1
    <3>2. CASE ~(b # Failed /\ last /\ head.kind = "kb" /\ head.cause # NoToken)
      BY Zenon, <1>4, <3>2
    <3> QED
      BY Zenon, <3>1, <3>2
  <2> QED
    BY Zenon, <1>0, <1>1, <1>3, <2>2, <2>3
<1> QED
  BY Zenon, <1>9, <1>10

LEMMA LoadedFacts ==
    ASSUME KbType, LocalInv, ldr.pc = "head", LoaderReads, NEW r \in Records
    PROVE  /\ Loaded(r) \in Issues
           /\ LET v == Loaded(r) IN
              /\ v.start = LoaderEntry.start /\ v.seen = r.seen /\ v.escalated = r.escalated
              /\ v.dirty = FALSE
<1>1. LoaderEntry \in [name : Nat, start : Nat, len : Nat]
  BY Zenon, LoaderBlockFacts
<1>2. LoaderEntry.start \in Nat
  BY <1>1
<1>3. r.id \in Nat /\ r.cause \in Causes /\ r.seen \in Nat /\ r.escalated \in Flags
  BY Zenon, ContentsFacts
<1> QED
  BY <1>2, <1>3 DEF Loaded, Issue, Issues, Flags

LEMMA IoLoaderHead == IoInv /\ LoaderHead => IoInv'
<1> SUFFICES ASSUME IoInv, LoaderHead PROVE IoInv'
  OBVIOUS
<1>0. KbType /\ TurnInv /\ LocalInv /\ ldr.pc = "head" /\ ldr.pc # "release" /\ LoaderReads
  BY DEF IoInv, LoaderHead
<1>1. table \in Seq(Issues) /\ \A k \in DOMAIN table : table[k].dirty = FALSE
  BY Zenon, <1>0 DEF KbType, TurnInv
<1>2. table' \in Seq(Issues) /\ \A k \in DOMAIN table' : table'[k].dirty = FALSE
  <2>1. CASE table' = table
    BY Zenon, <1>1, <2>1
  <2>2. CASE HeadRecord \in Records /\ table' = Install(table, Loaded(HeadRecord))
    <3>1. Loaded(HeadRecord) \in Issues /\ Loaded(HeadRecord).dirty = FALSE
      BY Zenon, <1>0, <2>2, LoadedFacts
    <3>2. /\ table' \in Seq(Issues) /\ \A l \in DOMAIN table : table'[l] = table[l]
          /\ \A l \in DOMAIN table' : l \in DOMAIN table \/ table'[l] = Loaded(HeadRecord)
      BY Zenon, <1>1, <2>2, <3>1, InstallFacts
    <3> QED
      BY Zenon, <1>1, <3>1, <3>2
  <2> QED
    BY Zenon, <2>1, <2>2, LoaderHeadStep
<1>3. LoaderLocals'
  <2>1. ldr.dir \in DirMaps
    BY Zenon, <1>0 DEF LocalInv, LoaderLocals
  <2>2. ldr'.pc = "head" /\ ldr'.dir = ldr.dir /\ (ldr'.j # 0 => ldr'.head \in Contents)
    BY Zenon, LoaderHeadStep
  <2> QED
    BY <2>1, <2>2 DEF LoaderLocals
<1>4. /\ UNCHANGED <<disk, page, wtr, novel, patient>> /\ cached' \in Nat \cup {Nil}
      /\ req' \in [Clients -> Requests \cup {Nil}] /\ req'["writer"] = Nil /\ req'["loader"] = Nil
      /\ ldr' \in LdrRecords /\ RequestInv'
  BY Zenon, LoaderHeadStep, RequestFacts
<1> QED
  BY Zenon, <1>0, <1>2, <1>3, <1>4, LoaderTurn

LEMMA IoLoaderScanned == IoInv /\ LoaderScanned => IoInv'
<1> SUFFICES ASSUME IoInv, LoaderScanned PROVE IoInv'
  OBVIOUS
<1>0. KbType /\ TurnInv /\ RequestInv /\ ldr.pc # "release" /\ ~LoaderReads
  BY DEF IoInv, LoaderScanned
<1>1. /\ UNCHANGED <<disk, page, wtr, novel, patient>> /\ table' = table /\ req' = req /\ cached' = cached
      /\ page' = page /\ disk' = disk /\ ldr' = LdrAtScanned(ldr)
  BY Zenon DEF LoaderScanned, ioVars, healVars, patientVars, LdrAtScanned
<1>2. ldr \in LdrRecords
  BY Zenon, <1>0 DEF KbType
<1>3. ldr' \in LdrRecords /\ ldr'.pc = "release"
  BY Zenon, <1>1, <1>2, LdrToScanned
<1>4. req'["loader"] = Nil /\ req'["writer"] = Nil /\ \A o \in Clients : req[o] = Nil
  BY Zenon, <1>0, <1>1, RequestFacts DEF RequestInv, LoaderAsks, TurnInv
<1>5. RequestInv'
  <2>1. cached' # Nil => cached' \in Blocks /\ page = disk[cached']
    BY Zenon, <1>0, <1>1, <1>4 DEF RequestInv
  <2> QED
    BY Zenon, <1>1, <1>4, <2>1, QuietRequests
<1>6. /\ table' \in Seq(Issues) /\ \A k \in DOMAIN table' : table'[k].dirty = FALSE
      /\ cached' \in Nat \cup {Nil} /\ req' \in [Clients -> Requests \cup {Nil}]
  BY Zenon, <1>0, <1>1 DEF KbType, TurnInv
<1>7. LoaderLocals'
  BY <1>3 DEF LoaderLocals
<1> QED
  BY Zenon, <1>0, <1>1, <1>3, <1>4, <1>5, <1>6, <1>7, LoaderTurn

-----------------------------------------------------------------------------
(* A crash, a restart and a release touch no task and no page.  Nobody     *)
(* crashes before the release.                                             *)
LEMMA CrashFacts ==
    ASSUME KbType, TurnInv, NEW p \in Patients, Crash(p)
    PROVE  /\ ldr.pc = "release" /\ UNCHANGED <<disk, ioVars, ldr, wtr>>
           /\ table' \in Seq(Issues) /\ novel' \in Causes \cup {Nil}
           /\ DOMAIN table' = DOMAIN table
           /\ \A k \in DOMAIN table : /\ table'[k].start = table[k].start
                                      /\ table'[k].seen >= table[k].seen
                                      /\ table[k].escalated => table'[k].escalated
<1>0. /\ table \in Seq(Issues) /\ novel \in Causes \cup {Nil} /\ Cause[p] \in Causes
      /\ \A k \in DOMAIN table : table[k].seen \in Nat
  <2>1. table \in Seq(Issues) /\ novel \in Causes \cup {Nil} /\ Cause[p] \in Causes
    BY Zenon, KbAssumption DEF KbType, Causes
  <2> QED
    BY Zenon, <2>1, TableUpdates, IssueUpdates
<1>1. ldr.pc = "release"
  <2>1. patient[p] = "up" /\ "up" \notin Gated
    BY DEF Crash, Gated
  <2> QED
    BY Zenon, <2>1 DEF TurnInv
<1>2. UNCHANGED <<disk, ioVars, ldr, wtr>>
  BY Zenon DEF Crash
<1> DEFINE d == MatchIssue(Cause[p])
<1>3. CASE /\ d # 0 /\ table' = NoteDiagnosis(WithId(table[d].id)) /\ UNCHANGED novel
  <2> DEFINE S == {k \in DOMAIN table : Cause[p] # NoToken /\ table[k].cause = Cause[p]}
             T == {k \in DOMAIN table : table[k].id = table[d].id}
  <2>1. S \subseteq Nat \ {0} /\ T \subseteq Nat \ {0}
    BY Zenon, <1>0, TableUpdates
  <2>2. d \in S
    <3>1. d = First(S)
      BY Zenon DEF MatchIssue
    <3> HIDE DEF S, d
    <3> QED
      BY Zenon, <1>3, <2>1, <3>1, FirstFacts DEF d
  <2>3. d \in T
    BY Zenon, <2>2
  <2>4. WithId(table[d].id) \in T
    <3>1. WithId(table[d].id) = First(T)
      BY Zenon DEF WithId
    <3> HIDE DEF T, d
    <3> QED
      BY Zenon, <2>1, <2>3, <3>1, FirstFacts
  <2>5. PICK k \in DOMAIN table : table' = NoteDiagnosis(k)
    BY Zenon, <1>3, <2>4
  <2>6. novel' \in Causes \cup {Nil}
    BY <1>0, <1>3
  <2>7. /\ table' \in Seq(Issues) /\ DOMAIN table' = DOMAIN table
        /\ \A l \in DOMAIN table : /\ table'[l].start = table[l].start
                                   /\ table'[l].seen >= table[l].seen
                                   /\ table[l].escalated => table'[l].escalated
    BY Zenon, <1>0, <2>5, DiagnosisFacts
  <2> QED
    BY Zenon, <1>1, <1>2, <2>6, <2>7
<1>4. CASE novel' = NoteUnmatched(Cause[p]) /\ UNCHANGED table
  <2>1. novel' \in Causes \cup {Nil}
    BY Zenon, <1>0, <1>4 DEF NoteUnmatched
  <2>2. \A k \in DOMAIN table : table[k].seen >= table[k].seen
    BY <1>0
  <2> QED
    BY Zenon, <1>0, <1>1, <1>2, <1>4, <2>1, <2>2
<1> QED
  BY Zenon, <1>3, <1>4 DEF Crash

LEMMA IoCrash == ASSUME IoInv, NEW p \in Patients, Crash(p) PROVE IoInv'
<1>0. KbType /\ TurnInv /\ RequestInv /\ LocalInv
  BY Zenon DEF IoInv
<1>1. /\ ldr.pc = "release" /\ UNCHANGED <<disk, ioVars, ldr, wtr>>
      /\ table' \in Seq(Issues) /\ novel' \in Causes \cup {Nil}
      /\ DOMAIN table' = DOMAIN table
      /\ \A k \in DOMAIN table : table'[k].start = table[k].start
  BY Zenon, <1>0, CrashFacts
<1>2. KbType'
  BY Zenon, <1>0, <1>1 DEF KbType, ioVars
<1>3. TurnInv'
  BY Zenon, <1>0, <1>1 DEF TurnInv, ioVars
<1>4. RequestInv' /\ LocalInv'
  BY Zenon, <1>0, <1>1, SameStarts
<1> QED
  BY Zenon, <1>2, <1>3, <1>4 DEF IoInv

LEMMA IoPatient ==
    ASSUME IoInv, UNCHANGED <<disk, ioVars, ldr, wtr, healVars>>,
           ldr.pc # "release" => \A p \in Patients : patient'[p] \in Gated
    PROVE  IoInv'
<1>0. KbType /\ TurnInv /\ RequestInv /\ LocalInv
  BY Zenon DEF IoInv
<1>1. /\ UNCHANGED <<disk, ioVars, ldr, wtr>> /\ table' = table /\ novel' = novel
      /\ DOMAIN table' = DOMAIN table /\ \A k \in DOMAIN table : table'[k].start = table[k].start
  BY Zenon DEF healVars
<1>2. KbType'
  BY Zenon, <1>0, <1>1 DEF KbType, ioVars
<1>3. TurnInv'
  BY Zenon, <1>0, <1>1 DEF TurnInv, ioVars
<1>4. RequestInv' /\ LocalInv'
  BY Zenon, <1>0, <1>1, SameStarts
<1> QED
  BY Zenon, <1>2, <1>3, <1>4 DEF IoInv

(* Before the release a patient moves at most to the gate.                 *)
LEMMA IoPatients ==
    ASSUME IoInv, CallGate \/ \E p \in Patients : Patient(p) \/ Heal(p)
    PROVE  IoInv'
<1>1. UNCHANGED <<disk, ioVars, ldr, wtr, healVars>>
  BY Zenon DEF CallGate, Patient, GateRecv, GateReply, Heal
<1>2. ASSUME ldr.pc # "release", NEW q \in Patients PROVE patient'[q] \in Gated
  <2>1. /\ \A p \in Patients : patient[p] \in Gated
        /\ \A p \in Patients : patient[p] \notin {"reply", "healing"}
    BY <1>2 DEF IoInv, TurnInv, Gated
  <2>2. PICK p \in Patients : GateRecv(p)
    BY Zenon, <1>2, <2>1 DEF CallGate, AtGate, Patient, GateReply, Heal
  <2>3. patient' = [patient EXCEPT ![p] = "recv"]
    BY Zenon, <1>2, <2>2 DEF GateRecv, AtGate
  <2>4. patient'[q] = patient[q] \/ patient'[q] = "recv"
    BY <2>1, <2>3
  <2> QED
    BY <2>1, <2>4 DEF Gated
<1> QED
  BY Zenon, <1>1, <1>2, IoPatient

(* Parking and receiving move no request.                                  *)
LEMMA IoCalls ==
    ASSUME IoInv, ServerRecv \/ \E c \in Clients : Park(c) PROVE IoInv'
<1>1. UNCHANGED <<disk, ioVars, ldr, wtr, healVars>> /\ patient' = patient
  BY Zenon DEF ServerRecv, Park, patientVars
<1>2. ldr.pc # "release" => \A p \in Patients : patient'[p] \in Gated
  BY Zenon, <1>1 DEF IoInv, TurnInv
<1> QED
  BY Zenon, <1>1, <1>2, IoPatient

-----------------------------------------------------------------------------
(* The writer idles until the loader is done.                              *)
LEMMA WriterTurn ==
    ASSUME IoInv, UNCHANGED <<disk, ldr, patient>>, page' \in Contents, cached' \in Nat \cup {Nil},
           req' \in [Clients -> Requests \cup {Nil}], req'["loader"] = req["loader"],
           table' \in Seq(Issues), novel' \in Causes \cup {Nil}, wtr' \in WtrRecords,
           RequestInv', WriterLocals',
           ldr.pc # "release" =>
              /\ novel' = Nil /\ \A k \in DOMAIN table' : table'[k].dirty = FALSE
              /\ wtr'.pc \in {"take", "clear", "dirty"} /\ wtr'.tok = Nil /\ req'["writer"] = Nil
    PROVE  IoInv'
<1>1. disk' = disk /\ ldr' = ldr /\ patient' = patient
  OBVIOUS
<1>2. KbType'
  BY Zenon, <1>1 DEF IoInv, KbType
<1>3. TurnInv'
  BY Zenon, <1>1 DEF IoInv, TurnInv
<1>4. LocalInv'
  BY Zenon, <1>1 DEF IoInv, LocalInv, LoaderLocals
<1> QED
  BY <1>2, <1>3, <1>4 DEF IoInv

LEMMA WriterActive ==
    ASSUME IoInv, wtr.pc \notin {"take", "clear", "dirty"}
    PROVE  ldr.pc = "release" /\ req["loader"] = Nil
BY Zenon DEF IoInv, TurnInv

LEMMA WriterRests ==
    ASSUME IoInv, wtr.pc \in WtrRests PROVE req["writer"] = Nil
<1>1. wtr.pc \notin WtrReads /\ wtr.pc \notin WtrWrites
  BY DEF WtrRests, WtrReads, WtrWrites
<1> QED
  BY Zenon, <1>1 DEF IoInv, RequestInv, WriterReads, WriterWrites

LEMMA KeptRequests ==
    ASSUME RequestInv, UNCHANGED <<disk, ioVars, ldr>>, req["writer"] = Nil PROVE RequestInv'
<1>1. disk' = disk /\ page' = page /\ cached' = cached /\ req' = req /\ ldr' = ldr
  BY Zenon DEF ioVars
<1>2. LoaderAsks' = LoaderAsks
  BY Zenon, <1>1 DEF LoaderAsks, LoaderReads, LoaderBlock, LoaderEntry
<1> QED
  BY Zenon, <1>1, <1>2 DEF RequestInv

(* A read that returns to the writer.                                      *)
LEMMA WriterRead ==
    ASSUME IoInv, wtr.pc \in WtrReads, FsReadDone("writer", WriterReadBlock), disk' = disk
    PROVE  /\ req' \in [Clients -> Requests \cup {Nil}] /\ \A o \in Clients : req'[o] = Nil
           /\ page' = page /\ page \in Contents /\ cached' \in Nat \cup {Nil} /\ RequestInv'
           /\ ldr.pc = "release" /\ req'["loader"] = req["loader"]
           /\ LET b == Result("writer") IN
              b # Failed => b \in Contents /\ WriterReadBlock \in Blocks /\ b = disk[WriterReadBlock]
<1>0. KbType /\ TurnInv /\ RequestInv /\ LocalInv
  BY Zenon DEF IoInv
<1>1. WriterReadBlock \in Nat /\ wtr.pc \notin WtrWrites /\ wtr.pc \notin {"take", "clear", "dirty"}
  BY <1>0, WriterBlockFacts DEF WtrReads, WtrWrites
<1>2. ldr.pc = "release" /\ req["loader"] = Nil
  BY Zenon, <1>1, WriterActive
<1>3. "writer" \in Clients /\ \A o \in Clients \ {"writer"} : req[o] = Nil
  BY <1>2 DEF Clients
<1>4. req["writer"] # Nil => req["writer"].blk = WriterReadBlock /\ req["writer"].op = "read"
  BY Zenon, <1>0, <1>1 DEF RequestInv, WriterReads, WriterWrites
<1>5. /\ req' \in [Clients -> Requests \cup {Nil}] /\ \A o \in Clients : req'[o] = Nil
      /\ page' = page /\ cached' \in Nat \cup {Nil}
      /\ Result("writer") # Failed =>
            Result("writer") = page /\ WriterReadBlock \in Blocks /\ page = disk[WriterReadBlock]
      /\ cached' # Nil => cached' \in Blocks /\ page = disk[cached']
  BY Zenon, <1>0, <1>1, <1>3, <1>4, ReadDone
<1>6. RequestInv'
  BY Zenon, <1>5, QuietRequests
<1>7. page \in Contents /\ req'["loader"] = Nil
  BY Zenon, <1>0, <1>5, RequestFacts DEF KbType
<1> QED
  BY Zenon, <1>2, <1>5, <1>6, <1>7

(* A write that returns: what the device accepted is on the disk.          *)
LEMMA WriteDone ==
    ASSUME IoInv, wtr.pc \in WtrWrites, FsWriteDone("writer"), disk' = disk
    PROVE  /\ req' \in [Clients -> Requests \cup {Nil}] /\ \A o \in Clients : req'[o] = Nil
           /\ page' = page /\ page \in Contents /\ cached' \in Nat \cup {Nil} /\ RequestInv'
           /\ ldr.pc = "release" /\ req'["loader"] = req["loader"]
           /\ req["writer"].st = "ok" => WriterTarget \in Blocks /\ disk[WriterTarget] = Outgoing
<1>0. KbType /\ RequestInv
  BY Zenon DEF IoInv
<1>1. wtr.pc \notin WtrReads /\ wtr.pc \notin {"take", "clear", "dirty"}
  BY DEF WtrReads, WtrWrites
<1>2. ldr.pc = "release" /\ req["loader"] = Nil
  BY Zenon, <1>1, WriterActive
<1>3. /\ req["writer"] # Nil /\ req' = [req EXCEPT !["writer"] = Nil] /\ page' = page /\ cached' = cached
  BY Zenon DEF FsWriteDone
<1>4. req["writer"].blk = WriterTarget /\ cached = Nil /\ page = Outgoing
  BY Zenon, <1>0, <1>1, <1>3 DEF RequestInv, WriterReads, WriterWrites
<1>5. req["writer"].st = "ok" => WriterTarget \in Blocks /\ disk[WriterTarget] = Outgoing
  BY Zenon, <1>0, <1>3, <1>4, RequestFacts DEF RequestInv
<1>6. /\ req' \in [Clients -> Requests \cup {Nil}] /\ \A o \in Clients : req'[o] = Nil
      /\ req'["loader"] = req["loader"]
  BY <1>0, <1>2, <1>3, RequestFacts DEF KbType
<1>7. RequestInv'
  BY Zenon, <1>3, <1>4, <1>6, QuietRequests
<1> QED
  BY Zenon, <1>0, <1>2, <1>3, <1>4, <1>5, <1>6, <1>7 DEF KbType

LEMMA IoTakeNovelRead == IoInv /\ TakeNovelRead => IoInv'
<1> SUFFICES ASSUME IoInv, TakeNovelRead PROVE IoInv'
  OBVIOUS
<1>0. KbType /\ TurnInv /\ RequestInv /\ wtr.pc = "take"
  BY Zenon DEF IoInv, TakeNovelRead
<1>1. /\ UNCHANGED <<disk, ioVars, ldr>> /\ UNCHANGED <<disk, ldr, patient>>
      /\ page' = page /\ cached' = cached /\ req' = req /\ table' = table /\ novel' = novel
      /\ wtr' = WtrAtClear(wtr, novel)
  BY Zenon DEF TakeNovelRead, ioVars, healVars, patientVars, WtrAtClear
<1>2. wtr \in WtrRecords /\ novel \in Causes \cup {Nil}
  BY Zenon, <1>0 DEF KbType
<1>3. wtr' \in WtrRecords /\ wtr'.pc = "clear" /\ wtr'.tok = novel
  BY Zenon, <1>1, <1>2, WtrToClear
<1>4. RequestInv'
  <2>1. wtr.pc \in WtrRests
    BY <1>0 DEF WtrRests
  <2>2. req["writer"] = Nil
    BY Zenon, <2>1, WriterRests
  <2> QED
    BY Zenon, <1>0, <1>1, <2>2, KeptRequests
<1>5. WriterLocals'
  BY <1>3 DEF WriterLocals
<1>6. ldr.pc # "release" =>
         /\ novel' = Nil /\ \A k \in DOMAIN table' : table'[k].dirty = FALSE
         /\ wtr'.pc \in {"take", "clear", "dirty"} /\ wtr'.tok = Nil /\ req'["writer"] = Nil
  BY Zenon, <1>0, <1>1, <1>3 DEF TurnInv
<1>7. /\ page' \in Contents /\ cached' \in Nat \cup {Nil} /\ req' \in [Clients -> Requests \cup {Nil}]
      /\ req'["loader"] = req["loader"] /\ table' \in Seq(Issues) /\ novel' \in Causes \cup {Nil}
  BY Zenon, <1>0, <1>1 DEF KbType
<1> QED
  BY Zenon, <1>1, <1>3, <1>4, <1>5, <1>6, <1>7, WriterTurn

LEMMA IoTakeNovelClear == IoInv /\ TakeNovelClear => IoInv'
<1> SUFFICES ASSUME IoInv, TakeNovelClear PROVE IoInv'
  OBVIOUS
<1>0. KbType /\ TurnInv /\ RequestInv /\ wtr.pc = "clear"
  BY Zenon DEF IoInv, TakeNovelClear
<1> DEFINE n == (MaxKbNumber + 1) % KB_NUMBERS
<1>1. /\ UNCHANGED <<disk, ioVars, ldr>> /\ UNCHANGED <<disk, ldr, patient>>
      /\ page' = page /\ cached' = cached /\ req' = req /\ table' = table /\ novel' = Nil
      /\ wtr' = IF wtr.tok = Nil THEN WtrIdle("dirty") ELSE WtrAtSuperblock(wtr, n)
  BY Zenon DEF TakeNovelClear, ioVars, patientVars, WtrAtSuperblock
<1>2. wtr \in WtrRecords /\ n \in Nat /\ wtr.tok \in Causes \cup {Nil}
  <2>1. MaxKbNumber \in Nat /\ KB_NUMBERS \in Nat \ {0} /\ wtr \in WtrRecords
    BY <1>0, MaxKbNumberType, KbAssumption DEF KbType
  <2>2. n \in Nat
    BY <2>1
  <2> QED
    BY Zenon, <2>1, <2>2 DEF WtrRecords
<1> HIDE DEF n
<1>3. /\ wtr' \in WtrRecords /\ wtr'.pc \in {"sb", "dirty"}
      /\ wtr'.pc = "sb" => wtr'.tok = wtr.tok /\ wtr.tok # Nil
      /\ wtr.tok = Nil => wtr'.pc = "dirty" /\ wtr'.tok = Nil
  <2>1. CASE wtr.tok = Nil
    <3>1. wtr' = WtrIdle("dirty")
      BY Zenon, <1>1, <2>1
    <3>2. wtr' \in WtrRecords /\ wtr'.pc = "dirty" /\ wtr'.tok = Nil
      BY Zenon, <3>1, WtrIdles
    <3> QED
      BY <2>1, <3>2
  <2>2. CASE wtr.tok # Nil
    <3>1. wtr' = WtrAtSuperblock(wtr, n)
      BY Zenon, <1>1, <2>2
    <3>2. wtr' \in WtrRecords /\ wtr'.pc = "sb" /\ wtr'.tok = wtr.tok
      BY Zenon, <1>2, <3>1, WtrToSuperblock
    <3> QED
      BY <2>2, <3>2
  <2> QED
    BY Zenon, <2>1, <2>2
<1>4. RequestInv'
  <2>1. wtr.pc \in WtrRests
    BY <1>0 DEF WtrRests
  <2>2. req["writer"] = Nil
    BY Zenon, <2>1, WriterRests
  <2> QED
    BY Zenon, <1>0, <1>1, <2>2, KeptRequests
<1>5. WriterLocals'
  <2>1. wtr'.pc = "sb" => wtr'.tok \in Causes
    BY Zenon, <1>2, <1>3
  <2> QED
    BY <1>3, <2>1 DEF WriterLocals
<1>6. ldr.pc # "release" =>
         /\ novel' = Nil /\ \A k \in DOMAIN table' : table'[k].dirty = FALSE
         /\ wtr'.pc \in {"take", "clear", "dirty"} /\ wtr'.tok = Nil /\ req'["writer"] = Nil
  BY Zenon, <1>0, <1>1, <1>3 DEF TurnInv
<1>7. /\ page' \in Contents /\ cached' \in Nat \cup {Nil} /\ req' \in [Clients -> Requests \cup {Nil}]
      /\ req'["loader"] = req["loader"] /\ table' \in Seq(Issues) /\ novel' \in Causes \cup {Nil}
  BY Zenon, <1>0, <1>1 DEF KbType
<1> QED
  BY Zenon, <1>1, <1>3, <1>4, <1>5, <1>6, <1>7, WriterTurn

LEMMA IoWriterReadIssue == IoInv /\ WriterReadIssue => IoInv'
<1> SUFFICES ASSUME IoInv, WriterReadIssue PROVE IoInv'
  OBVIOUS
<1>0. KbType /\ TurnInv /\ RequestInv /\ LocalInv /\ wtr.pc \in WtrReads
  BY Zenon DEF IoInv, WriterReadIssue, WtrReads
<1>1. WriterReadBlock \in Nat /\ wtr.pc \notin {"take", "clear", "dirty"}
  BY <1>0, WriterBlockFacts DEF WtrReads
<1>2. ldr.pc = "release" /\ req["loader"] = Nil
  BY Zenon, <1>1, WriterActive
<1>3. /\ UNCHANGED <<disk, ldr, patient>> /\ req["writer"] = Nil
      /\ disk' = disk /\ page' = page /\ cached' = cached /\ wtr' = wtr /\ table' = table /\ novel' = novel
      /\ req' = [req EXCEPT !["writer"] = Request("read", WriterReadBlock)]
  BY Zenon DEF WriterReadIssue, FsReadIssue, healVars, patientVars
<1> DEFINE r == Request("read", WriterReadBlock)
<1>4. r \in Requests /\ r.op = "read" /\ r.blk = WriterReadBlock /\ r.st = "sent"
  BY Zenon, <1>1, RequestFacts
<1> HIDE DEF r
<1>5. req' \in [Clients -> Requests \cup {Nil}] /\ req'["writer"] = r /\ req'["loader"] = Nil
  BY <1>0, <1>2, <1>3, <1>4, RequestFacts DEF r, KbType
<1>6. RequestInv'
  <2>1. WriterReads'
    <3>1. WriterReadBlock' = WriterReadBlock /\ wtr'.pc \in WtrReads
      BY Zenon, <1>0, <1>3 DEF WriterReadBlock
    <3> QED
      BY Zenon, <1>4, <1>5, <3>1 DEF WriterReads
  <2>2. \A c \in Clients : req'[c] = Nil \/ req'[c].st = "sent"
    BY Zenon, <1>4, <1>5, RequestFacts
  <2>3. \A c \in Clients : req[c] = Nil
    BY Zenon, <1>2, <1>3, RequestFacts
  <2>4. cached # Nil => cached \in Blocks /\ page = disk[cached]
    BY Zenon, <1>0, <2>3 DEF RequestInv
  <2>5. ASSUME NEW c \in Clients, req'[c] # Nil, req'[c].st = "ok" PROVE FALSE
    <3>1. req'[c].st = "sent"
      BY Zenon, <2>2, <2>5
    <3> QED
      BY <2>5, <3>1
  <2> QED
    BY Zenon, <1>3, <1>5, <2>1, <2>4, <2>5 DEF RequestInv
<1>7. /\ page' \in Contents /\ cached' \in Nat \cup {Nil} /\ wtr' \in WtrRecords
      /\ req'["loader"] = req["loader"] /\ table' \in Seq(Issues) /\ novel' \in Causes \cup {Nil}
  BY Zenon, <1>0, <1>2, <1>3, <1>5 DEF KbType
<1>8. WriterLocals'
  BY Zenon, <1>0, <1>3 DEF LocalInv, WriterLocals
<1> QED
  BY Zenon, <1>2, <1>3, <1>5, <1>6, <1>7, <1>8, WriterTurn

LEMMA IoWriterWriteIssue == IoInv /\ WriterWriteIssue => IoInv'
<1> SUFFICES ASSUME IoInv, WriterWriteIssue PROVE IoInv'
  OBVIOUS
<1>0. KbType /\ TurnInv /\ RequestInv /\ LocalInv /\ wtr.pc \in WtrWrites
  BY Zenon DEF IoInv, WriterWriteIssue, WtrWrites
<1>1. WriterTarget \in Nat /\ Outgoing \in Contents /\ wtr.pc \notin {"take", "clear", "dirty"}
  BY <1>0, WriterBlockFacts DEF WtrWrites
<1>2. ldr.pc = "release" /\ req["loader"] = Nil
  BY Zenon, <1>1, WriterActive
<1>3. /\ UNCHANGED <<disk, ldr, patient>> /\ req["writer"] = Nil
      /\ disk' = disk /\ page' = Outgoing /\ cached' = Nil /\ wtr' = wtr /\ table' = table /\ novel' = novel
      /\ req' = [req EXCEPT !["writer"] = Request("write", WriterTarget)]
  BY Zenon DEF WriterWriteIssue, FsWriteIssue, healVars, patientVars
<1> DEFINE r == Request("write", WriterTarget)
<1>4. r \in Requests /\ r.op = "write" /\ r.blk = WriterTarget /\ r.st = "sent"
  BY Zenon, <1>1, RequestFacts
<1> HIDE DEF r
<1>5. req' \in [Clients -> Requests \cup {Nil}] /\ req'["writer"] = r /\ req'["loader"] = Nil
  BY <1>0, <1>2, <1>3, <1>4, RequestFacts DEF r, KbType
<1>6. RequestInv'
  <2>1. WriterWrites'
    <3>1. WriterTarget' = WriterTarget /\ wtr'.pc \in WtrWrites /\ Outgoing' = Outgoing
      BY Zenon, <1>0, <1>3 DEF WriterTarget, Outgoing, PlanDirectory, PlanSuperblock
    <3> QED
      BY Zenon, <1>3, <1>4, <1>5, <3>1 DEF WriterWrites
  <2>2. \A c \in Clients : req'[c] = Nil \/ req'[c].st = "sent"
    BY Zenon, <1>4, <1>5, RequestFacts
  <2>3. ASSUME NEW c \in Clients, req'[c] # Nil, req'[c].st = "ok" PROVE FALSE
    <3>1. req'[c].st = "sent"
      BY Zenon, <2>2, <2>3
    <3> QED
      BY <2>3, <3>1
  <2> QED
    BY Zenon, <1>3, <1>5, <2>1, <2>3 DEF RequestInv
<1>7. /\ page' \in Contents /\ cached' \in Nat \cup {Nil} /\ wtr' \in WtrRecords
      /\ req'["loader"] = req["loader"] /\ table' \in Seq(Issues) /\ novel' \in Causes \cup {Nil}
  BY Zenon, <1>0, <1>1, <1>2, <1>3, <1>5 DEF KbType
<1>8. WriterLocals'
  BY Zenon, <1>0, <1>3 DEF LocalInv, WriterLocals
<1> QED
  BY Zenon, <1>2, <1>3, <1>5, <1>6, <1>7, <1>8, WriterTurn

(* What each read leaves the writer with; the step changes nothing else.   *)
ReadReturns ==
    /\ req' \in [Clients -> Requests \cup {Nil}] /\ req'["loader"] = req["loader"]
    /\ disk' = disk /\ ldr' = ldr /\ patient' = patient /\ ldr.pc = "release"
    /\ page' \in Contents /\ cached' \in Nat \cup {Nil} /\ RequestInv' /\ novel' = novel

LEMMA AppendSuperblockStep ==
    ASSUME IoInv, AppendSuperblock
    PROVE  /\ ReadReturns /\ table' = table
           /\ wtr' \in WtrRecords /\ wtr'.pc \in {"dir", "dirty"}
           /\ wtr'.pc = "dir" => /\ wtr'.tok = wtr.tok /\ wtr'.id = wtr.id
                                 /\ wtr'.sb = disk[0] /\ disk[0] \in Superblocks
<1>0. KbType /\ LocalInv /\ wtr.pc = "sb" /\ wtr.pc \in WtrReads
  BY DEF IoInv, AppendSuperblock, WtrReads
<1>1. FsReadDone("writer", WriterReadBlock) /\ UNCHANGED <<disk, ldr, table, novel, patient>>
  BY Zenon DEF AppendSuperblock, healVars, patientVars
<1>2. disk' = disk /\ ldr' = ldr /\ table' = table /\ novel' = novel /\ patient' = patient
  BY <1>1
<1> DEFINE b == Result("writer")
<1>3. /\ req' \in [Clients -> Requests \cup {Nil}] /\ req'["loader"] = req["loader"] /\ ldr.pc = "release"
      /\ page' \in Contents /\ cached' \in Nat \cup {Nil} /\ RequestInv'
      /\ b # Failed => b \in Contents /\ b = disk[WriterReadBlock]
  BY Zenon, <1>0, <1>1, <1>2, WriterRead
<1>4. wtr' = IF b # Failed /\ b.kind = "sb" THEN WtrAtDirectory(wtr, b) ELSE WtrIdle("dirty")
  BY Zenon DEF AppendSuperblock, WtrAtDirectory
<1> HIDE DEF b
<1>5. wtr \in WtrRecords /\ WriterReadBlock = 0
  BY Zenon, <1>0, WriterBlockFacts DEF KbType
<1>6. CASE b # Failed /\ b.kind = "sb"
  <2>1. b \in Contents /\ b \in Superblocks /\ b = disk[0]
    BY Zenon, <1>3, <1>5, <1>6, ContentsFacts
  <2>2. wtr' = WtrAtDirectory(wtr, b)
    BY Zenon, <1>4, <1>6
  <2>3. wtr' \in WtrRecords /\ wtr'.pc = "dir" /\ wtr'.tok = wtr.tok /\ wtr'.id = wtr.id /\ wtr'.sb = b
    BY Zenon, <1>5, <2>1, <2>2, WtrToDirectory
  <2> QED
    BY Zenon, <1>2, <1>3, <2>1, <2>3 DEF ReadReturns
<1>7. CASE ~(b # Failed /\ b.kind = "sb")
  <2>1. wtr' = WtrIdle("dirty")
    BY Zenon, <1>4, <1>7
  <2>2. wtr' \in WtrRecords /\ wtr'.pc = "dirty" /\ "dirty" # "dir"
    BY Zenon, <2>1, WtrIdles
  <2> QED
    BY Zenon, <1>2, <1>3, <2>2 DEF ReadReturns
<1> QED
  BY Zenon, <1>6, <1>7

LEMMA AppendDirectoryStep ==
    ASSUME IoInv, AppendDirectory
    PROVE  /\ ReadReturns /\ table' = table
           /\ wtr' \in WtrRecords /\ wtr'.pc \in {"wdata", "dirty"}
           /\ wtr'.pc = "wdata" => /\ wtr'.tok = wtr.tok /\ wtr'.id = wtr.id /\ wtr'.sb = wtr.sb
                                   /\ wtr.sb.entries < DIRENTS_PER_BLOCK /\ wtr'.dir \in DirMaps
                                   /\ wtr'.dir = Entries(disk[DIR_BLOCK])
<1>0. KbType /\ LocalInv /\ wtr.pc = "dir" /\ wtr.pc \in WtrReads
  BY DEF IoInv, AppendDirectory, WtrReads
<1>1. FsReadDone("writer", WriterReadBlock) /\ UNCHANGED <<disk, ldr, table, novel, patient>>
  BY Zenon DEF AppendDirectory, healVars, patientVars
<1>2. disk' = disk /\ ldr' = ldr /\ table' = table /\ novel' = novel /\ patient' = patient
  BY <1>1
<1> DEFINE b == Result("writer")
           roomy == wtr.sb.entries < DIRENTS_PER_BLOCK
<1>3. /\ req' \in [Clients -> Requests \cup {Nil}] /\ req'["loader"] = req["loader"] /\ ldr.pc = "release"
      /\ page' \in Contents /\ cached' \in Nat \cup {Nil} /\ RequestInv'
      /\ b # Failed => b \in Contents /\ b = disk[WriterReadBlock]
  BY Zenon, <1>0, <1>1, <1>2, WriterRead
<1>4. wtr' = IF b # Failed /\ roomy THEN WtrAtData(wtr, Entries(b)) ELSE WtrIdle("dirty")
  BY Zenon DEF AppendDirectory, WtrAtData
<1> HIDE DEF b
<1>5. wtr \in WtrRecords /\ WriterReadBlock = DIR_BLOCK
  BY Zenon, <1>0, WriterBlockFacts DEF KbType
<1>6. CASE b # Failed /\ roomy
  <2>1. Entries(b) \in DirMaps /\ Entries(b) = Entries(disk[DIR_BLOCK])
    BY Zenon, <1>3, <1>5, <1>6, EntriesType
  <2>2. wtr' = WtrAtData(wtr, Entries(b))
    BY Zenon, <1>4, <1>6
  <2>3. /\ wtr' \in WtrRecords /\ wtr'.pc = "wdata" /\ wtr'.tok = wtr.tok /\ wtr'.id = wtr.id
        /\ wtr'.sb = wtr.sb /\ wtr'.dir = Entries(b)
    BY Zenon, <1>5, <2>1, <2>2, WtrToData
  <2> QED
    BY Zenon, <1>2, <1>3, <1>6, <2>1, <2>3 DEF ReadReturns
<1>7. CASE ~(b # Failed /\ roomy)
  <2>1. wtr' = WtrIdle("dirty")
    BY Zenon, <1>4, <1>7
  <2>2. wtr' \in WtrRecords /\ wtr'.pc = "dirty" /\ "dirty" # "wdata"
    BY Zenon, <2>1, WtrIdles
  <2> QED
    BY Zenon, <1>2, <1>3, <2>2 DEF ReadReturns
<1> QED
  BY Zenon, <1>6, <1>7

LEMMA PersistReadStep ==
    ASSUME IoInv, PersistRead
    PROVE  /\ ReadReturns /\ table' = table
           /\ wtr' \in WtrRecords /\ wtr'.pc \in {"wentry", "dirty"}
           /\ wtr'.pc = "wentry" =>
                 /\ wtr'.slot = wtr.slot /\ wtr'.seen = wtr.seen /\ wtr'.escalated = wtr.escalated
                 /\ disk[table[wtr.slot].start] \in Records
                 /\ wtr'.block = SetInBlock(disk[table[wtr.slot].start]) /\ wtr'.block \in Records
<1>0. KbType /\ LocalInv /\ wtr.pc = "entry" /\ wtr.pc \in WtrReads
  BY DEF IoInv, PersistRead, WtrReads
<1>1. FsReadDone("writer", WriterReadBlock) /\ UNCHANGED <<disk, ldr, table, novel, patient>>
  BY Zenon DEF PersistRead, healVars, patientVars
<1>2. disk' = disk /\ ldr' = ldr /\ table' = table /\ novel' = novel /\ patient' = patient
  BY <1>1
<1> DEFINE b == Result("writer")
<1>3. /\ req' \in [Clients -> Requests \cup {Nil}] /\ req'["loader"] = req["loader"] /\ ldr.pc = "release"
      /\ page' \in Contents /\ cached' \in Nat \cup {Nil} /\ RequestInv'
      /\ b # Failed => b \in Contents /\ b = disk[WriterReadBlock]
  BY Zenon, <1>0, <1>1, <1>2, WriterRead
<1>4. wtr' = IF b # Failed /\ b.kind = "kb" THEN WtrAtUpdate(wtr, SetInBlock(b)) ELSE WtrIdle("dirty")
  BY Zenon DEF PersistRead, WtrAtUpdate
<1> HIDE DEF b
<1>5. wtr \in WtrRecords /\ WriterReadBlock = table[wtr.slot].start
  BY Zenon, <1>0, WriterBlockFacts DEF KbType
<1>6. CASE b # Failed /\ b.kind = "kb"
  <2>1. b \in Records /\ b = disk[table[wtr.slot].start]
    BY Zenon, <1>3, <1>5, <1>6, ContentsFacts
  <2>2. SetInBlock(b) \in Records /\ SetInBlock(b) \in Contents
    BY Zenon, <1>5, <2>1, SetInBlockFacts DEF Contents
  <2>3. wtr' = WtrAtUpdate(wtr, SetInBlock(b))
    BY Zenon, <1>4, <1>6
  <2>4. /\ wtr' \in WtrRecords /\ wtr'.pc = "wentry" /\ wtr'.slot = wtr.slot /\ wtr'.seen = wtr.seen
        /\ wtr'.escalated = wtr.escalated /\ wtr'.block = SetInBlock(b)
    BY Zenon, <1>5, <2>2, <2>3, WtrToUpdate
  <2> QED
    BY Zenon, <1>2, <1>3, <2>1, <2>2, <2>4 DEF ReadReturns
<1>7. CASE ~(b # Failed /\ b.kind = "kb")
  <2>1. wtr' = WtrIdle("dirty")
    BY Zenon, <1>4, <1>7
  <2>2. wtr' \in WtrRecords /\ wtr'.pc = "dirty" /\ "dirty" # "wentry"
    BY Zenon, <2>1, WtrIdles
  <2> QED
    BY Zenon, <1>2, <1>3, <2>2 DEF ReadReturns
<1> QED
  BY Zenon, <1>6, <1>7

Appended == Issue(wtr.id, wtr.tok, 0, FALSE, wtr.sb.total)

LEMMA AppendWrittenStep ==
    ASSUME IoInv, AppendWritten
    PROVE  /\ ReadReturns /\ wtr' \in WtrRecords
           /\ \/ wtr'.pc = "dirty" /\ table' = table
              \/ /\ wtr.pc = "wsb" /\ wtr'.pc = "dirty" /\ disk[0] = PlanSuperblock
                 /\ table' = Install(table, Appended)
              \/ /\ \/ wtr.pc = "wdata" /\ wtr'.pc = "wdir"
                    \/ wtr.pc = "wdir" /\ wtr'.pc = "wsb"
                 /\ wtr'.tok = wtr.tok /\ wtr'.id = wtr.id /\ wtr'.sb = wtr.sb /\ wtr'.dir = wtr.dir
                 /\ WriterTarget \in Blocks /\ disk[WriterTarget] = Outgoing /\ table' = table
<1>0. KbType /\ LocalInv /\ wtr.pc \in {"wdata", "wdir", "wsb"} /\ wtr.pc \in WtrWrites
  BY DEF IoInv, AppendWritten, WtrWrites
<1>1. /\ FsWriteDone("writer") /\ disk' = disk /\ ldr' = ldr /\ novel' = novel /\ patient' = patient
  BY Zenon DEF AppendWritten, patientVars
<1>2. /\ req' \in [Clients -> Requests \cup {Nil}] /\ req'["loader"] = req["loader"] /\ ldr.pc = "release"
      /\ page' \in Contents /\ cached' \in Nat \cup {Nil} /\ RequestInv'
      /\ req["writer"].st = "ok" => WriterTarget \in Blocks /\ disk[WriterTarget] = Outgoing
  BY Zenon, <1>0, <1>1, WriteDone
<1>3. ReadReturns
  BY Zenon, <1>1, <1>2 DEF ReadReturns
<1> DEFINE next == AppendOrder(wtr.pc)
<1>4. /\ wtr.pc = "wdata" => next = "wdir"
      /\ wtr.pc = "wdir" => next = "wsb"
      /\ wtr.pc = "wsb" => next = "dirty"
  BY Zenon DEF AppendOrder
<1>5. IF req["writer"].st = "ok" /\ next # "dirty"
      THEN wtr' = WtrAtWrite(wtr, next) /\ table' = table
      ELSE /\ wtr' = WtrIdle("dirty")
           /\ table' = IF req["writer"].st = "ok" THEN Install(table, Appended) ELSE table
  BY Zenon DEF AppendWritten, WtrAtWrite, Appended
<1>6. wtr \in WtrRecords
  BY Zenon, <1>0 DEF KbType
<1> HIDE DEF next
<1>7. CASE req["writer"].st = "ok" /\ next # "dirty"
  <2>1. wtr' = WtrAtWrite(wtr, next) /\ table' = table
    BY Zenon, <1>5, <1>7
  <2>2. next \in {"wdir", "wsb"}
    BY <1>0, <1>4, <1>7
  <2>3. /\ wtr' \in WtrRecords /\ wtr'.pc = next /\ wtr'.tok = wtr.tok /\ wtr'.id = wtr.id
        /\ wtr'.sb = wtr.sb /\ wtr'.dir = wtr.dir
    BY Zenon, <1>6, <2>1, <2>2, WtrToWrite
  <2>4. (wtr.pc = "wdata" /\ wtr'.pc = "wdir") \/ (wtr.pc = "wdir" /\ wtr'.pc = "wsb")
    BY <1>0, <1>4, <1>7, <2>3
  <2> QED
    BY Zenon, <1>2, <1>3, <1>7, <2>1, <2>3, <2>4
<1>8. CASE req["writer"].st = "ok" /\ next = "dirty"
  <2>1. wtr' = WtrIdle("dirty") /\ table' = Install(table, Appended)
    BY Zenon, <1>5, <1>8
  <2>2. wtr.pc = "wsb"
    BY <1>0, <1>4, <1>8
  <2>3. disk[0] = PlanSuperblock
    BY Zenon, <1>0, <1>2, <1>8, <2>2, WriterBlockFacts
  <2>4. wtr' \in WtrRecords /\ wtr'.pc = "dirty"
    BY Zenon, <2>1, WtrIdles
  <2> QED
    BY Zenon, <1>3, <2>1, <2>2, <2>3, <2>4
<1>9. CASE req["writer"].st # "ok"
  <2>1. wtr' = WtrIdle("dirty") /\ table' = table
    BY Zenon, <1>5, <1>9
  <2>2. wtr' \in WtrRecords /\ wtr'.pc = "dirty"
    BY Zenon, <2>1, WtrIdles
  <2> QED
    BY Zenon, <1>3, <2>1, <2>2
<1> QED
  BY Zenon, <1>7, <1>8, <1>9

LEMMA PersistWrittenStep ==
    ASSUME IoInv, PersistWritten
    PROVE  ReadReturns /\ wtr' \in WtrRecords /\ wtr'.pc = "dirty" /\ table' = table
<1>0. wtr.pc \in WtrWrites
  BY DEF PersistWritten, WtrWrites
<1>1. /\ FsWriteDone("writer") /\ disk' = disk /\ ldr' = ldr /\ novel' = novel /\ patient' = patient
      /\ table' = table /\ wtr' = WtrIdle("dirty")
  BY Zenon DEF PersistWritten, patientVars, healVars
<1>2. ReadReturns
  BY Zenon, <1>0, <1>1, WriteDone DEF ReadReturns
<1> QED
  BY Zenon, <1>1, <1>2, WtrIdles

(* dirty_entry copies the counter and clears the mark, which moves no      *)
(* entry; before the load is done it finds nothing marked.                 *)
LEMMA DirtyEntryStep ==
    ASSUME IoInv, DirtyEntry
    PROVE  /\ UNCHANGED <<disk, ioVars, ldr>> /\ novel' = novel /\ patient' = patient
           /\ wtr' \in WtrRecords /\ table' \in Seq(Issues)
           /\ DOMAIN table' = DOMAIN table
           /\ \A k \in DOMAIN table : /\ table'[k].start = table[k].start
                                      /\ table'[k].seen = table[k].seen
                                      /\ table'[k].escalated = table[k].escalated
           /\ \/ wtr'.pc = "take" /\ wtr'.tok = Nil /\ table' = table
              \/ /\ wtr'.pc = "flag" /\ wtr'.slot \in DOMAIN table /\ ldr.pc = "release"
                 /\ wtr'.seen = table[wtr'.slot].seen
<1>0. KbType /\ TurnInv /\ table \in Seq(Issues) /\ wtr \in WtrRecords
  BY Zenon DEF IoInv, KbType
<1>1. UNCHANGED <<disk, ioVars, ldr>> /\ novel' = novel /\ patient' = patient
  BY Zenon DEF DirtyEntry, patientVars
<1>2. CASE DirtySlot = 0
  <2>1. wtr' = WtrIdle("take") /\ table' = table
    BY Zenon, <1>2 DEF DirtyEntry
  <2>2. wtr' \in WtrRecords /\ wtr'.pc = "take" /\ wtr'.tok = Nil
    BY Zenon, <2>1, WtrIdles
  <2> QED
    BY Zenon, <1>0, <1>1, <2>1, <2>2
<1>3. CASE DirtySlot # 0
  <2> DEFINE S == {k \in DOMAIN table : table[k].dirty}
             k == DirtySlot
             v == [table[k] EXCEPT !.dirty = FALSE]
  <2>1. S \subseteq Nat \ {0}
    BY Zenon, <1>0, TableUpdates
  <2>2. k \in S
    <3>1. DirtySlot = First(S)
      BY Zenon DEF DirtySlot
    <3> HIDE DEF S
    <3> QED
      BY Zenon, <1>3, <2>1, <3>1, FirstFacts
  <2>3. k \in DOMAIN table /\ table[k].dirty
    BY Zenon, <2>2
  <2>4. ldr.pc = "release"
    <3>1. table[k].dirty # FALSE
      BY Zenon, <2>3
    <3> QED
      BY Zenon, <1>0, <2>3, <3>1 DEF TurnInv
  <2>5. /\ table' = [table EXCEPT ![k] = v]
        /\ wtr' = WtrAtFlag(wtr, k, table[k].seen)
    BY Zenon, <1>3 DEF DirtyEntry, WtrAtFlag
  <2>6. table[k] \in Issues /\ k \in Nat /\ table[k].seen \in Nat
    BY Zenon, <1>0, <2>1, <2>2, <2>3, TableUpdates, IssueUpdates
  <2>7. /\ v \in Issues /\ v.start = table[k].start /\ v.seen = table[k].seen
        /\ v.escalated = table[k].escalated
    BY Zenon, <2>6, IssueUpdates
  <2> HIDE DEF v, k
  <2>8. /\ table' \in Seq(Issues) /\ DOMAIN table' = DOMAIN table /\ table'[k] = v
        /\ \A l \in DOMAIN table : l # k => table'[l] = table[l]
    BY Zenon, <1>0, <2>3, <2>5, <2>7, TableUpdates
  <2>9. wtr' \in WtrRecords /\ wtr'.pc = "flag" /\ wtr'.slot = k /\ wtr'.seen = table[k].seen
    <3>1. wtr \in WtrRecords /\ k \in Nat /\ table[k].seen \in Nat
      BY Zenon, <1>0, <2>6
    <3>2. LET u == WtrAtFlag(wtr, k, table[k].seen) IN
          u \in WtrRecords /\ u.pc = "flag" /\ u.slot = k /\ u.seen = table[k].seen
      BY ZenonT(60), <3>1, WtrToFlag
    <3> QED
      BY Zenon, <2>5, <3>2
  <2>10. \A l \in DOMAIN table : /\ table'[l].start = table[l].start
                                 /\ table'[l].seen = table[l].seen
                                 /\ table'[l].escalated = table[l].escalated
    BY Zenon, <2>7, <2>8
  <2> QED
    BY Zenon, <1>1, <2>3, <2>4, <2>8, <2>9, <2>10
<1> QED
  BY Zenon, <1>2, <1>3

LEMMA DirtyFlagStep ==
    ASSUME IoInv, DirtyFlag
    PROVE  /\ UNCHANGED <<disk, ioVars, ldr>> /\ novel' = novel /\ patient' = patient /\ table' = table
           /\ wtr' \in WtrRecords /\ wtr'.pc = "entry" /\ wtr'.slot = wtr.slot /\ wtr'.seen = wtr.seen
           /\ wtr'.escalated = table[wtr.slot].escalated /\ wtr.slot \in DOMAIN table
<1>0. wtr \in WtrRecords /\ wtr.slot \in DOMAIN table /\ table \in Seq(Issues)
  BY DEF IoInv, KbType, LocalInv, WriterLocals, DirtyFlag
<1>1. /\ UNCHANGED <<disk, ioVars, ldr>> /\ novel' = novel /\ patient' = patient /\ table' = table
      /\ wtr' = WtrAtEntry(wtr, table[wtr.slot].escalated)
  BY Zenon DEF DirtyFlag, healVars, patientVars, WtrAtEntry
<1>2. table[wtr.slot].escalated \in Flags
  BY Zenon, <1>0, TableUpdates, IssueUpdates
<1>3. LET u == WtrAtEntry(wtr, table[wtr.slot].escalated) IN
      /\ u \in WtrRecords /\ u.pc = "entry" /\ u.slot = wtr.slot /\ u.seen = wtr.seen
      /\ u.escalated = table[wtr.slot].escalated
  <2>1. wtr \in WtrRecords
    BY <1>0
  <2> QED
    BY <1>2, <2>1, WtrToEntry
<1> QED
  BY Zenon, <1>0, <1>1, <1>3

LEMMA IoReturn ==
    ASSUME IoInv, ReadReturns, wtr' \in WtrRecords, table' \in Seq(Issues), WriterLocals' PROVE IoInv'
<1>1. /\ UNCHANGED <<disk, ldr, patient>> /\ page' \in Contents /\ cached' \in Nat \cup {Nil}
      /\ req' \in [Clients -> Requests \cup {Nil}] /\ req'["loader"] = req["loader"] /\ RequestInv'
      /\ ldr.pc = "release" /\ novel' \in Causes \cup {Nil}
  BY Zenon DEF IoInv, KbType, ReadReturns
<1> QED
  BY Zenon, <1>1, WriterTurn

LEMMA IoWriterReturns ==
    ASSUME IoInv, AppendSuperblock \/ AppendDirectory \/ PersistRead \/ AppendWritten \/ PersistWritten
    PROVE  IoInv'
<1>0. KbType /\ LocalInv /\ table \in Seq(Issues)
  BY Zenon DEF IoInv, KbType
<1>1. CASE AppendSuperblock
  <2>1. wtr.tok \in Causes
    BY <1>0, <1>1 DEF LocalInv, WriterLocals, AppendSuperblock
  <2>2. /\ wtr'.pc \in {"dir", "dirty"} /\ (wtr'.pc = "dir" => wtr'.tok = wtr.tok /\ wtr'.sb \in Superblocks)
    BY Zenon, <1>1, AppendSuperblockStep
  <2>3. WriterLocals'
    BY <2>1, <2>2 DEF WriterLocals
  <2> QED
    BY Zenon, <1>0, <1>1, <2>3, AppendSuperblockStep, IoReturn
<1>2. CASE AppendDirectory
  <2>1. wtr.tok \in Causes /\ wtr.sb \in Superblocks
    BY <1>0, <1>2 DEF LocalInv, WriterLocals, AppendDirectory
  <2>2. /\ wtr'.pc \in {"wdata", "dirty"}
        /\ wtr'.pc = "wdata" => /\ wtr'.tok = wtr.tok /\ wtr'.sb = wtr.sb
                                /\ wtr.sb.entries < DIRENTS_PER_BLOCK /\ wtr'.dir \in DirMaps
    BY Zenon, <1>2, AppendDirectoryStep
  <2>3. WriterLocals'
    BY <2>1, <2>2 DEF WriterLocals
  <2> QED
    BY Zenon, <1>0, <1>2, <2>3, AppendDirectoryStep, IoReturn
<1>3. CASE PersistRead
  <2>1. wtr.slot \in DOMAIN table
    BY <1>0, <1>3 DEF LocalInv, WriterLocals, PersistRead
  <2>2. /\ wtr'.pc \in {"wentry", "dirty"} /\ table' = table
        /\ wtr'.pc = "wentry" => wtr'.slot = wtr.slot /\ wtr'.block \in Records
    BY Zenon, <1>3, PersistReadStep
  <2>3. WriterLocals'
    BY <2>1, <2>2 DEF WriterLocals
  <2> QED
    BY Zenon, <1>0, <1>3, <2>3, PersistReadStep, IoReturn
<1>4. CASE AppendWritten
  <2>1. /\ wtr.tok \in Causes /\ wtr.sb \in Superblocks /\ wtr.dir \in DirMaps
        /\ wtr.sb.entries < DIRENTS_PER_BLOCK
    BY <1>0, <1>4 DEF LocalInv, WriterLocals, AppendWritten
  <2>2. /\ ReadReturns /\ wtr' \in WtrRecords
        /\ \/ wtr'.pc = "dirty"
           \/ /\ wtr'.pc \in {"wdir", "wsb"}
              /\ wtr'.tok = wtr.tok /\ wtr'.sb = wtr.sb /\ wtr'.dir = wtr.dir
    BY Zenon, <1>4, AppendWrittenStep
  <2>3. WriterLocals'
    BY <2>1, <2>2 DEF WriterLocals
  <2>4. table' \in Seq(Issues)
    <3>1. Appended \in Issues
      <4>1. wtr.id \in Nat /\ wtr.sb.total \in Nat
        BY Zenon, <1>0, <2>1, ContentsFacts DEF KbType, WtrRecords
      <4> QED
        BY <2>1, <4>1 DEF Appended, Issue, Issues, Flags
    <3>2. table' = table \/ table' = Install(table, Appended)
      BY Zenon, <1>4, AppendWrittenStep
    <3> QED
      BY Zenon, <1>0, <3>1, <3>2, InstallFacts
  <2> QED
    BY Zenon, <2>2, <2>3, <2>4, IoReturn
<1>5. CASE PersistWritten
  <2>1. ReadReturns /\ wtr' \in WtrRecords /\ wtr'.pc = "dirty" /\ table' = table
    BY Zenon, <1>5, PersistWrittenStep
  <2>2. WriterLocals'
    BY <2>1 DEF WriterLocals
  <2> QED
    BY Zenon, <1>0, <2>1, <2>2, IoReturn
<1> QED
  BY Zenon, <1>1, <1>2, <1>3, <1>4, <1>5

LEMMA IoDirty == ASSUME IoInv, DirtyEntry \/ DirtyFlag PROVE IoInv'
<1>0. KbType /\ RequestInv /\ LocalInv /\ TurnInv
  BY Zenon DEF IoInv
<1>1. /\ UNCHANGED <<disk, ioVars, ldr>> /\ novel' = novel /\ patient' = patient
      /\ wtr' \in WtrRecords /\ table' \in Seq(Issues)
  BY Zenon, <1>0, DirtyEntryStep, DirtyFlagStep DEF KbType
<1>2. wtr.pc \in WtrRests
  BY DEF DirtyEntry, DirtyFlag, WtrRests
<1>3. req["writer"] = Nil
  BY Zenon, <1>2, WriterRests
<1>4. RequestInv'
  BY Zenon, <1>0, <1>1, <1>3, KeptRequests
<1>5. /\ UNCHANGED <<disk, ldr, patient>> /\ page' \in Contents /\ cached' \in Nat \cup {Nil}
      /\ req' \in [Clients -> Requests \cup {Nil}] /\ req'["loader"] = req["loader"]
      /\ novel' \in Causes \cup {Nil} /\ req'["writer"] = Nil
  BY Zenon, <1>0, <1>1, <1>3 DEF KbType, ioVars
<1>6. CASE DirtyEntry
  <2>1. \/ wtr'.pc = "take" /\ wtr'.tok = Nil /\ table' = table
        \/ /\ wtr'.pc = "flag" /\ wtr'.slot \in DOMAIN table' /\ ldr.pc = "release"
    BY Zenon, <1>6, DirtyEntryStep
  <2>2. WriterLocals'
    BY <2>1 DEF WriterLocals
  <2>3. ldr.pc # "release" =>
           /\ novel' = Nil /\ \A k \in DOMAIN table' : table'[k].dirty = FALSE
           /\ wtr'.pc \in {"take", "clear", "dirty"} /\ wtr'.tok = Nil
    BY Zenon, <1>0, <1>1, <2>1 DEF TurnInv
  <2> QED
    BY Zenon, <1>1, <1>4, <1>5, <2>2, <2>3, WriterTurn
<1>7. CASE DirtyFlag
  <2>1. wtr'.pc = "entry" /\ wtr'.slot \in DOMAIN table'
    BY Zenon, <1>7, DirtyFlagStep
  <2>2. WriterLocals'
    BY <2>1 DEF WriterLocals
  <2>3. wtr.pc \notin {"take", "clear", "dirty"}
    BY <1>7 DEF DirtyFlag
  <2>4. ldr.pc = "release"
    BY Zenon, <2>3, WriterActive
  <2> QED
    BY Zenon, <1>1, <1>4, <1>5, <2>2, <2>4, WriterTurn
<1> QED
  BY Zenon, <1>6, <1>7

-----------------------------------------------------------------------------
(* The server: the client it serves is the only one with a request, and    *)
(* all it ever puts on the disk is what the writer sends, where the writer *)
(* sends it.                                                               *)
WriteLands ==
    /\ wtr.pc \in WtrWrites /\ WriterTarget \in Blocks /\ Outgoing \in Contents
    /\ disk' = [disk EXCEPT ![WriterTarget] = Outgoing]

LEMMA ServeStep ==
    ASSUME IoInv, NEW c \in Clients, Serve(c)
    PROVE  /\ cached' = cached /\ ldr' = ldr /\ wtr' = wtr
           /\ table' = table /\ novel' = novel /\ patient' = patient
           /\ \A o \in Clients \ {c} : req[o] = Nil
           /\ \E s \in {"ok", "error"} :
                 /\ req' = [req EXCEPT ![c] = [req[c] EXCEPT !.st = s]]
                 /\ s = "ok" => req[c].blk \in Blocks /\ page' = disk'[req[c].blk]
           /\ \/ req[c].op = "read" /\ disk' = disk /\ (page' = page \/ page' = disk[req[c].blk])
              \/ req[c].op = "write" /\ page' = page /\ (disk' = disk \/ WriteLands)
           /\ page' \in Contents /\ req[c] \in Requests
<1>0. KbType /\ TurnInv /\ RequestInv /\ LocalInv
  BY Zenon DEF IoInv
<1>1. /\ cached' = cached /\ ldr' = ldr /\ wtr' = wtr
      /\ table' = table /\ novel' = novel /\ patient' = patient /\ req[c] # Nil
  BY Zenon DEF Serve, healVars, patientVars
<1>2. c \in {"loader", "writer"} /\ req[c] \in Requests
  BY Zenon, <1>0, <1>1 DEF KbType, Clients
<1>3. \A o \in Clients \ {c} : req[o] = Nil
  <2>1. CASE c = "loader"
    <3>1. ldr.pc # "release"
      <4>1. LoaderReads
        BY Zenon, <1>0, <1>1, <2>1 DEF RequestInv, LoaderAsks
      <4> QED
        BY <4>1 DEF LoaderReads
    <3>2. req["writer"] = Nil
      BY Zenon, <1>0, <3>1 DEF TurnInv
    <3> QED
      BY Zenon, <2>1, <3>2, RequestFacts
  <2>2. CASE c = "writer"
    <3>1. req["loader"] = Nil
      BY Zenon, <1>0, <1>1, <2>2 DEF TurnInv
    <3> QED
      BY Zenon, <2>2, <3>1, RequestFacts
  <2> QED
    BY Zenon, <1>2, <2>1, <2>2
<1> DEFINE n == req[c].blk
<1>4. /\ disk \in [Blocks -> Contents] /\ page \in Contents /\ req[c].op \in {"read", "write"}
      /\ "read" # "write"
  BY Zenon, <1>0, <1>2, RequestFacts DEF KbType
<1>5. req[c].op = "write" => /\ c = "writer" /\ wtr.pc \in WtrWrites /\ n = WriterTarget
                             /\ page = Outgoing /\ Outgoing \in Contents
  <2>1. CASE c = "loader"
    BY Zenon, <1>0, <1>1, <1>4, <2>1 DEF RequestInv, LoaderAsks
  <2>2. CASE c = "writer"
    <3>1. req["writer"].op = "write" => WriterWrites
      BY Zenon, <1>0, <1>1, <1>4, <2>2 DEF RequestInv, WriterReads
    <3> QED
      BY Zenon, <1>0, <2>2, <3>1, WriterBlockFacts DEF WriterWrites
  <2> QED
    BY Zenon, <1>2, <2>1, <2>2
<1>6. CASE /\ n \in Blocks
           /\ req' = [req EXCEPT ![c].st = "ok"]
           /\ req[c].op = "read" /\ page' = disk[n] /\ disk' = disk
  <2>1. page' \in Contents /\ page' = disk'[n] /\ disk' = disk /\ page' = disk[n]
    BY Zenon, <1>4, <1>6
  <2>2. req' = [req EXCEPT ![c] = [req[c] EXCEPT !.st = "ok"]]
    BY Zenon, <1>6
  <2>3. \E s \in {"ok", "error"} :
           /\ req' = [req EXCEPT ![c] = [req[c] EXCEPT !.st = s]]
           /\ s = "ok" => req[c].blk \in Blocks /\ page' = disk'[req[c].blk]
    BY Zenon, <1>6, <2>1, <2>2
  <2> QED
    BY Zenon, <1>1, <1>2, <1>3, <1>6, <2>1, <2>3
<1>7. CASE /\ n \in Blocks
           /\ req' = [req EXCEPT ![c].st = "ok"]
           /\ req[c].op = "write" /\ disk' = [disk EXCEPT ![n] = page] /\ page' = page
  <2>1. page' \in Contents /\ page' = disk'[n] /\ WriteLands
    BY Zenon, <1>4, <1>5, <1>7 DEF WriteLands
  <2>2. req' = [req EXCEPT ![c] = [req[c] EXCEPT !.st = "ok"]]
    BY Zenon, <1>7
  <2>3. \E s \in {"ok", "error"} :
           /\ req' = [req EXCEPT ![c] = [req[c] EXCEPT !.st = s]]
           /\ s = "ok" => req[c].blk \in Blocks /\ page' = disk'[req[c].blk]
    BY Zenon, <1>7, <2>1, <2>2
  <2> QED
    BY Zenon, <1>1, <1>2, <1>3, <1>7, <2>1, <2>3
<1>8. CASE /\ req' = [req EXCEPT ![c].st = "error"] /\ page' = page
           /\ \/ disk' = disk
              \/ n \in Blocks /\ req[c].op = "write" /\ disk' = [disk EXCEPT ![n] = page]
  <2>1. req' = [req EXCEPT ![c] = [req[c] EXCEPT !.st = "error"]]
    BY Zenon, <1>8
  <2>2. \E s \in {"ok", "error"} :
           /\ req' = [req EXCEPT ![c] = [req[c] EXCEPT !.st = s]]
           /\ s = "ok" => req[c].blk \in Blocks /\ page' = disk'[req[c].blk]
    <3>1. "error" # "ok"
      OBVIOUS
    <3> QED
      BY Zenon, <2>1, <3>1
  <2>3. \/ req[c].op = "read" /\ disk' = disk
        \/ req[c].op = "write" /\ (disk' = disk \/ WriteLands)
    BY Zenon, <1>4, <1>5, <1>8 DEF WriteLands
  <2> QED
    BY Zenon, <1>1, <1>2, <1>3, <1>4, <1>8, <2>2, <2>3
<1> QED
  BY Zenon, <1>4, <1>6, <1>7, <1>8 DEF Serve

LEMMA IoServe == ASSUME IoInv, NEW c \in Clients, Serve(c) PROVE IoInv'
<1>0. KbType /\ TurnInv /\ RequestInv /\ LocalInv
  BY Zenon DEF IoInv
<1>1. /\ cached' = cached /\ ldr' = ldr /\ wtr' = wtr
      /\ table' = table /\ novel' = novel /\ patient' = patient
      /\ page' \in Contents /\ \A o \in Clients \ {c} : req[o] = Nil
  BY Zenon, ServeStep
<1>2. PICK s \in {"ok", "error"} :
         /\ req' = [req EXCEPT ![c] = [req[c] EXCEPT !.st = s]]
         /\ s = "ok" => req[c].blk \in Blocks /\ page' = disk'[req[c].blk]
  BY Zenon, ServeStep
<1> DEFINE r == [req[c] EXCEPT !.st = s]
<1>3. /\ r \in Requests /\ r.op = req[c].op /\ r.blk = req[c].blk /\ r.st = s
      /\ r # Nil /\ s # "sent" /\ req[c] # Nil
  <2>1. req[c] \in Requests
    BY Zenon, ServeStep
  <2>2. r \in Requests /\ r.op = req[c].op /\ r.blk = req[c].blk /\ r.st = s
    BY <2>1 DEF Requests
  <2>3. s # "sent" /\ Nil \notin Requests
    BY RequestFacts
  <2> HIDE DEF r
  <2> QED
    BY Zenon, <2>1, <2>2, <2>3
<1>4. req' = [req EXCEPT ![c] = r] /\ req \in [Clients -> Requests \cup {Nil}]
  BY Zenon, <1>0, <1>2 DEF KbType
<1> HIDE DEF r
<1>5. /\ req' \in [Clients -> Requests \cup {Nil}] /\ req'[c] = r
      /\ \A o \in Clients \ {c} : req'[o] = Nil /\ req[o] = Nil
  BY Zenon, <1>1, <1>3, <1>4
<1>6. disk' \in [Blocks -> Contents]
  <2>1. disk \in [Blocks -> Contents]
    BY Zenon, <1>0 DEF KbType
  <2>2. disk' = disk \/ WriteLands
    BY Zenon, ServeStep
  <2> QED
    BY Zenon, <2>1, <2>2 DEF WriteLands
<1>7. KbType'
  BY Zenon, <1>0, <1>1, <1>5, <1>6 DEF KbType
<1>8. TurnInv'
  <2>1. \A o \in Clients : req[o] = Nil => req'[o] = Nil
    BY Zenon, <1>3, <1>5
  <2>2. /\ req["loader"] = Nil => req'["loader"] = Nil
        /\ req["writer"] = Nil => req'["writer"] = Nil
    BY Zenon, <2>1, RequestFacts
  <2> QED
    BY Zenon, <1>0, <1>1, <2>2 DEF TurnInv
<1>9. LocalInv'
  BY Zenon, <1>0, <1>1 DEF LocalInv, LoaderLocals, WriterLocals
<1>10. RequestInv'
  <2>1. req'["loader"] # Nil => LoaderAsks'
    <3>1. ASSUME req'["loader"] # Nil PROVE c = "loader"
      BY <1>5, <3>1 DEF Clients
    <3>2. c = "loader" => LoaderAsks'
      <4>1. LoaderReads' = LoaderReads /\ LoaderBlock' = LoaderBlock
        BY Zenon, <1>1 DEF LoaderReads, LoaderBlock, LoaderEntry
      <4> QED
        BY Zenon, <1>0, <1>3, <1>5, <4>1 DEF RequestInv, LoaderAsks
    <3> QED
      BY Zenon, <3>1, <3>2
  <2>2. req'["writer"] # Nil => WriterReads' \/ WriterWrites'
    <3>1. ASSUME req'["writer"] # Nil PROVE c = "writer"
      BY <1>5, <3>1 DEF Clients
    <3>2. c = "writer" => WriterReads' \/ WriterWrites'
      <4>1. WriterReadBlock' = WriterReadBlock /\ WriterTarget' = WriterTarget /\ Outgoing' = Outgoing
        BY Zenon, <1>1 DEF WriterReadBlock, WriterTarget, Outgoing, PlanDirectory, PlanSuperblock
      <4>2. ASSUME c = "writer", WriterReads PROVE WriterReads'
        BY Zenon, <1>1, <1>3, <1>5, <4>1, <4>2 DEF WriterReads
      <4>3. ASSUME c = "writer", WriterWrites PROVE WriterWrites'
        <5>1. req[c].op = "write" /\ "read" # "write"
          BY Zenon, <4>3 DEF WriterWrites
        <5>2. page' = page
          BY Zenon, <5>1, ServeStep
        <5> QED
          BY Zenon, <1>1, <1>3, <1>5, <4>1, <4>3, <5>2 DEF WriterWrites
      <4> QED
        BY Zenon, <1>0, <1>3, <4>2, <4>3 DEF RequestInv
    <3> QED
      BY Zenon, <3>1, <3>2
  <2>3. ASSUME NEW o \in Clients, req'[o] # Nil, req'[o].st = "ok"
        PROVE  req'[o].blk \in Blocks /\ page' = disk'[req'[o].blk]
    <3>1. o = c
      BY Zenon, <1>5, <2>3
    <3> QED
      BY Zenon, <1>2, <1>3, <1>5, <2>3, <3>1
  <2>4. ~(\A o \in Clients : req'[o] = Nil \/ req'[o].st = "sent")
    BY Zenon, <1>3, <1>5
  <2> QED
    BY Zenon, <2>1, <2>2, <2>3, <2>4 DEF RequestInv
<1> QED
  BY Zenon, <1>7, <1>8, <1>9, <1>10 DEF IoInv

LEMMA IoInvNext == IoInv /\ [Next]_vars => IoInv'
<1> SUFFICES ASSUME IoInv, [Next]_vars PROVE IoInv'
  OBVIOUS
<1>0. "loader" \in Clients /\ "writer" \in Clients
  BY DEF Clients
<1>1. CASE Loader
  BY Zenon, <1>0, <1>1, IoLoaderIssue, IoLoaderSuperblock, IoLoaderDirectory, IoLoaderHead,
     IoLoaderScanned, IoPatients, IoCalls DEF Loader
<1>2. CASE Writer
  BY Zenon, <1>0, <1>2, IoTakeNovelRead, IoTakeNovelClear, IoWriterReadIssue, IoWriterWriteIssue,
     IoWriterReturns, IoDirty, IoCalls DEF Writer
<1>3. CASE Server
  BY Zenon, <1>3, IoServe, IoCalls DEF Server
<1>4. CASE \E p \in Patients : Patient(p) \/ Crash(p) \/ Heal(p)
  BY Zenon, <1>4, IoCrash, IoPatients
<1>5. CASE PowerLoss
  BY <1>5, IoPowerLoss
<1>6. CASE UNCHANGED vars
  <2>1. /\ disk' = disk /\ page' = page /\ cached' = cached /\ req' = req /\ ldr' = ldr /\ wtr' = wtr
        /\ table' = table /\ novel' = novel /\ patient' = patient
        /\ UNCHANGED <<disk, ioVars, ldr, wtr>> /\ DOMAIN table' = DOMAIN table
        /\ \A k \in DOMAIN table : table'[k].start = table[k].start
    BY Zenon, <1>6 DEF vars, ioVars
  <2>2. KbType' /\ TurnInv'
    BY Zenon, <2>1 DEF IoInv, KbType, TurnInv
  <2>3. RequestInv' /\ LocalInv'
    BY Zenon, <2>1, SameStarts DEF IoInv
  <2> QED
    BY Zenon, <2>2, <2>3 DEF IoInv
<1> QED
  BY Zenon, <1>1, <1>2, <1>3, <1>4, <1>5, <1>6 DEF Next

(* While a write is outstanding the DMA page holds what the writer put     *)
(* there (fs_write_block), whatever the loader and the server do.          *)
THEOREM OutgoingAlwaysIntact == Spec => []OutgoingIntact
<1>1. IoInv => OutgoingIntact
  BY Zenon DEF IoInv, RequestInv, WriterReads, WriterWrites, OutgoingIntact
<1> QED
  BY <1>1, IoInvInit, IoInvNext, PTL DEF Spec

(* The block FS_CACHED_BLOCK names is on the page as it is on the disk     *)
(* whenever no request is outstanding (fs_read_block, fs_write_block).     *)
THEOREM CacheAlwaysCoherent == Spec => []CacheCoherent
<1>1. IoInv => CacheCoherent
  BY Zenon DEF IoInv, RequestInv, CacheCoherent
<1> QED
  BY <1>1, IoInvInit, IoInvNext, PTL DEF Spec
=============================================================================
