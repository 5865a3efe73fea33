-------------------------- MODULE KbVolumeProofs ---------------------------
(***************************************************************************)
(* The volume: what the disk holds at every moment, and what no step takes *)
(* away, from the invariant of KbStoreProofs strengthened with what the    *)
(* loader and the writer know of the disk.                                 *)
(***************************************************************************)
EXTENDS KbStoreProofs

-----------------------------------------------------------------------------
(* The volume a disk d holds.                                              *)
Disks == [Blocks -> Contents]
CommittedIn(d) == 0 .. (d[0].entries - 1)
DirIn(d, i) == d[DIR_BLOCK].ents[i]
RecordIn(d, i) == d[DirIn(d, i).start]

SoundIn(d, i) ==
    /\ DirIn(d, i).start >= DATA_START_BLOCK /\ DirIn(d, i).len >= 1
    /\ DirIn(d, i).start + DirIn(d, i).len <= d[0].total
    /\ RecordIn(d, i) \in Records /\ RecordIn(d, i).id = DirIn(d, i).name
    /\ RecordIn(d, i).seen <= SEEN_MAX
    /\ \A j \in CommittedIn(d) : j < i => DirIn(d, j).start + DirIn(d, j).len <= DirIn(d, i).start

VolumeIn(d) ==
    /\ d[0] \in Superblocks /\ d[DIR_BLOCK] \in Directories
    /\ d[0].entries <= DIRENTS_PER_BLOCK
    /\ d[0].total >= DATA_START_BLOCK /\ d[0].total - 1 \in Blocks
    /\ \A i \in CommittedIn(d) : SoundIn(d, i)

VolumeInv == VolumeIn(disk)

(* Every committed entry of d is one of e, with no less in its record.     *)
KeptIn(d, e) ==
    /\ e[0].entries >= d[0].entries
    /\ \A i \in CommittedIn(d) :
          /\ DirIn(e, i) = DirIn(d, i)
          /\ RecordIn(e, i).cause = RecordIn(d, i).cause
          /\ RecordIn(e, i).seen >= RecordIn(d, i).seen
          /\ RecordIn(d, i).escalated => RecordIn(e, i).escalated

(* What the loader has read is what the disk holds.                        *)
LoadInv ==
    /\ ldr.pc \in {"dir", "head"} => ldr.entries = disk[0].entries
    /\ ldr.pc = "head" => /\ ldr.dir = disk[DIR_BLOCK].ents
                          /\ ldr.j # 0 => LoaderReads /\ ldr.head = disk[LoaderEntry.start]

(* Every issue of the table is a committed entry of its own, at least as   *)
(* far along as the disk; the loader has not yet installed the ones ahead. *)
Backs(d, i, v) ==
    /\ v.start = DirIn(d, i).start
    /\ v.seen >= RecordIn(d, i).seen
    /\ RecordIn(d, i).escalated => v.escalated

TableInv ==
    /\ \A k \in DOMAIN table : \E i \in CommittedIn(disk) :
          Backs(disk, i, table[k]) /\ (ldr.pc = "head" => i < ldr.i)
    /\ ldr.pc \in {"sb", "dir"} => DOMAIN table = {}
    /\ \A k, l \in DOMAIN table : table[k].start = table[l].start => k = l

(* The writer's plans: what it has read of the volume is still so, except  *)
(* for its own writes, each of which is on the disk before the next.       *)
AppendInv ==
    /\ wtr.pc \in {"dir", "wdata", "wdir"} => wtr.sb = disk[0]
    /\ wtr.pc = "wsb" => /\ disk[0] \in {wtr.sb, PlanSuperblock}
                         /\ wtr.sb.total >= DATA_START_BLOCK
                         /\ \A k \in DOMAIN table : table[k].start < wtr.sb.total
                         /\ disk[DIR_BLOCK] = PlanDirectory
    /\ wtr.pc = "wdata" => disk[DIR_BLOCK] = Directory(wtr.dir)
    /\ wtr.pc = "wdir" => disk[DIR_BLOCK] \in {Directory(wtr.dir), PlanDirectory}
    /\ wtr.pc \in {"wdir", "wsb"} => /\ wtr.sb.total \in Blocks
                                     /\ disk[wtr.sb.total] = Entry(wtr.id, wtr.tok, 0, FALSE)

UpdateInv ==
    /\ wtr.pc \in {"flag", "entry", "wentry"} =>
          disk[table[wtr.slot].start].seen <= wtr.seen /\ wtr.seen <= table[wtr.slot].seen
    /\ wtr.pc \in {"entry", "wentry"} =>
          /\ disk[table[wtr.slot].start].escalated => wtr.escalated
          /\ wtr.escalated => table[wtr.slot].escalated
    /\ wtr.pc = "wentry" =>
          /\ wtr.block.id = disk[table[wtr.slot].start].id
          /\ wtr.block.cause = disk[table[wtr.slot].start].cause
          /\ wtr.block.seen <= SEEN_MAX /\ wtr.block.seen <= wtr.seen
          /\ wtr.block.escalated = wtr.escalated
          /\ wtr.block.seen >= disk[table[wtr.slot].start].seen

DiskInv == VolumeInv /\ LoadInv /\ TableInv /\ AppendInv /\ UpdateInv

KbInv == IoInv /\ DiskInv

-----------------------------------------------------------------------------
(* The volume, write by write.                                             *)
LEMMA EntryFacts ==
    ASSUME NEW d \in Disks, VolumeIn(d)
    PROVE  /\ d[0].entries \in Nat /\ d[0].total \in Nat /\ d[0].total >= 2
           /\ d[DIR_BLOCK].ents \in DirMaps /\ DIRENTS_PER_BLOCK \in Nat
           /\ \A i \in Nat : i \in CommittedIn(d) <=> i < d[0].entries
           /\ \A i \in CommittedIn(d) :
                 /\ i \in Nat /\ i \in Slots
                 /\ DirIn(d, i).start \in Nat /\ DirIn(d, i).len \in Nat /\ DirIn(d, i).name \in Nat
                 /\ DirIn(d, i).start \in Blocks /\ DirIn(d, i).start >= 2
                 /\ DirIn(d, i).start # 0 /\ DirIn(d, i).start # DIR_BLOCK
                 /\ DirIn(d, i).start < d[0].total
                 /\ RecordIn(d, i) \in Records /\ RecordIn(d, i).seen \in Nat
<1>1. /\ d[0].entries \in Nat /\ d[0].total \in Nat /\ d[DIR_BLOCK].ents \in DirMaps
      /\ DIRENTS_PER_BLOCK \in Nat
  BY Zenon, ContentsFacts, FilesFacts DEF VolumeIn
<1>2. d[0].total >= 2 /\ \A i \in Nat : i \in CommittedIn(d) <=> i < d[0].entries
  BY <1>1 DEF VolumeIn, CommittedIn, DATA_START_BLOCK
<1>3. ASSUME NEW i \in CommittedIn(d)
      PROVE  /\ i \in Nat /\ i \in Slots
             /\ DirIn(d, i).start \in Nat /\ DirIn(d, i).len \in Nat /\ DirIn(d, i).name \in Nat
             /\ DirIn(d, i).start \in Blocks /\ DirIn(d, i).start >= 2
             /\ DirIn(d, i).start # 0 /\ DirIn(d, i).start # DIR_BLOCK
             /\ DirIn(d, i).start < d[0].total
             /\ RecordIn(d, i) \in Records /\ RecordIn(d, i).seen \in Nat
  <2>1. i \in Nat /\ i \in Slots
    BY <1>1 DEF CommittedIn, Slots, VolumeIn
  <2>2. DirIn(d, i) \in [name : Nat, start : Nat, len : Nat]
    BY Zenon, <1>1, <2>1 DEF DirIn, DirMaps
  <2>3. DirIn(d, i).start \in Nat /\ DirIn(d, i).len \in Nat /\ DirIn(d, i).name \in Nat
    BY <2>2
  <2>4. SoundIn(d, i)
    BY Zenon DEF VolumeIn
  <2>5. /\ DirIn(d, i).start >= 2 /\ DirIn(d, i).len >= 1
        /\ DirIn(d, i).start + DirIn(d, i).len <= d[0].total /\ RecordIn(d, i) \in Records
    BY <2>4 DEF SoundIn, DATA_START_BLOCK
  <2>6. /\ DirIn(d, i).start < d[0].total /\ DirIn(d, i).start <= d[0].total - 1
        /\ DirIn(d, i).start # 0 /\ DirIn(d, i).start # 1
    BY <1>1, <2>3, <2>5
  <2>7. DirIn(d, i).start \in Blocks
    <3>1. d[0].total - 1 \in Blocks
      BY Zenon DEF VolumeIn
    <3> QED
      BY Zenon, <2>3, <2>6, <3>1, BlocksFacts
  <2>8. RecordIn(d, i).seen \in Nat
    BY Zenon, <2>5, ContentsFacts
  <2> QED
    BY <2>1, <2>3, <2>5, <2>6, <2>7, <2>8 DEF DIR_BLOCK
<1> QED
  BY <1>1, <1>2, <1>3

LEMMA StartsDiffer ==
    ASSUME NEW d \in Disks, VolumeIn(d), NEW i \in CommittedIn(d), NEW j \in CommittedIn(d),
           DirIn(d, i).start = DirIn(d, j).start
    PROVE  i = j
<1>1. ASSUME NEW k \in CommittedIn(d), NEW l \in CommittedIn(d), k < l
      PROVE  DirIn(d, k).start # DirIn(d, l).start
  <2>1. DirIn(d, k).start + DirIn(d, k).len <= DirIn(d, l).start /\ DirIn(d, k).len >= 1
    BY Zenon, <1>1 DEF VolumeIn, SoundIn
  <2>2. DirIn(d, k).start \in Nat /\ DirIn(d, k).len \in Nat /\ DirIn(d, l).start \in Nat
    BY Zenon, EntryFacts
  <2> QED
    BY <2>1, <2>2
<1>2. i \in Nat /\ j \in Nat
  BY Zenon, EntryFacts
<1>3. ~(i < j) /\ ~(j < i)
  BY Zenon, <1>1
<1> QED
  BY <1>2, <1>3

(* A write that leaves the superblock, the committed part of the directory *)
(* and the committed records alone.                                        *)
Unharmed(d, e) ==
    /\ VolumeIn(e) /\ KeptIn(d, e) /\ CommittedIn(e) = CommittedIn(d)
    /\ \A i \in CommittedIn(d) : DirIn(e, i) = DirIn(d, i) /\ RecordIn(e, i) = RecordIn(d, i)

LEMMA SameVolume ==
    ASSUME NEW d \in Disks, VolumeIn(d), NEW e \in Disks, e[0] = d[0],
           e[DIR_BLOCK] \in Directories,
           \A i \in CommittedIn(d) : DirIn(e, i) = DirIn(d, i) /\ RecordIn(e, i) = RecordIn(d, i)
    PROVE  Unharmed(d, e)
<1>1. CommittedIn(e) = CommittedIn(d)
  BY Zenon DEF CommittedIn
<1>2. ASSUME NEW i \in CommittedIn(e) PROVE SoundIn(e, i)
  <2>1. SoundIn(d, i)
    BY Zenon, <1>1 DEF VolumeIn
  <2>2. DirIn(e, i) = DirIn(d, i) /\ RecordIn(e, i) = RecordIn(d, i) /\ d[0].total = e[0].total
    BY Zenon, <1>1
  <2>3. ASSUME NEW j \in CommittedIn(e), j < i
        PROVE  DirIn(e, j).start + DirIn(e, j).len <= DirIn(e, i).start
    <3>1. DirIn(d, j).start + DirIn(d, j).len <= DirIn(d, i).start
      BY Zenon, <1>1, <2>1, <2>3 DEF SoundIn
    <3>2. DirIn(e, j) = DirIn(d, j)
      BY Zenon, <1>1
    <3> QED
      BY <2>2, <3>1, <3>2
  <2> QED
    BY <2>1, <2>2, <2>3 DEF SoundIn
<1>3. VolumeIn(e)
  BY Zenon, <1>2 DEF VolumeIn
<1>4. d[0].entries >= d[0].entries
  BY EntryFacts
<1>5. \A i \in CommittedIn(d) : RecordIn(d, i).seen >= RecordIn(d, i).seen
  BY EntryFacts
<1>6. KeptIn(d, e)
  BY Zenon, <1>4, <1>5 DEF KeptIn
<1> QED
  BY Zenon, <1>1, <1>3, <1>6 DEF Unharmed

(* fs_append_file, the data: a block past the last extent.                 *)
LEMMA WriteData ==
    ASSUME NEW d \in Disks, VolumeIn(d), NEW b \in Blocks, b >= d[0].total, NEW x \in Contents,
           NEW e, e = [d EXCEPT ![b] = x]
    PROVE  Unharmed(d, e) /\ e[0] = d[0] /\ e[DIR_BLOCK] = d[DIR_BLOCK]
<1>1. /\ e \in Disks /\ \A a \in Blocks : a # b => e[a] = d[a]
  BY Zenon DEF Disks
<1>2. b \in Nat /\ d[0].total \in Nat /\ d[0].total >= 2 /\ 0 \in Blocks /\ DIR_BLOCK \in Blocks
  BY BlocksFacts, EntryFacts
<1>3. b # 0 /\ b # DIR_BLOCK
  BY <1>2 DEF DIR_BLOCK
<1>4. e[0] = d[0] /\ e[DIR_BLOCK] = d[DIR_BLOCK]
  BY Zenon, <1>1, <1>2, <1>3
<1>5. ASSUME NEW i \in CommittedIn(d) PROVE DirIn(e, i) = DirIn(d, i) /\ RecordIn(e, i) = RecordIn(d, i)
  <2>1. DirIn(e, i) = DirIn(d, i)
    BY Zenon, <1>4 DEF DirIn
  <2>2. DirIn(d, i).start \in Nat /\ DirIn(d, i).start \in Blocks /\ DirIn(d, i).start < d[0].total
    BY Zenon, EntryFacts
  <2>3. DirIn(d, i).start # b
    BY <1>2, <2>2
  <2> QED
    BY Zenon, <1>1, <2>1, <2>2, <2>3 DEF RecordIn
<1>6. e[DIR_BLOCK] \in Directories
  BY Zenon, <1>4 DEF VolumeIn
<1> QED
  BY Zenon, <1>1, <1>4, <1>5, <1>6, SameVolume

(* The directory: entries the superblock does not count yet.               *)
Agrees(d, x) == \A i \in CommittedIn(d) : x.ents[i] = DirIn(d, i)

LEMMA WriteDirectory ==
    ASSUME NEW d \in Disks, VolumeIn(d), NEW x \in Directories, Agrees(d, x),
           NEW e, e = [d EXCEPT ![DIR_BLOCK] = x]
    PROVE  Unharmed(d, e)
<1>0. 0 \in Blocks /\ DIR_BLOCK \in Blocks /\ DIR_BLOCK # 0 /\ x \in Contents
  BY BlocksFacts DEF Contents
<1>1. /\ e \in Disks /\ e[DIR_BLOCK] = x /\ \A a \in Blocks : a # DIR_BLOCK => e[a] = d[a]
  BY Zenon, <1>0 DEF Disks
<1>2. ASSUME NEW i \in CommittedIn(d) PROVE DirIn(e, i) = DirIn(d, i) /\ RecordIn(e, i) = RecordIn(d, i)
  <2>1. DirIn(e, i) = DirIn(d, i)
    BY Zenon, <1>1 DEF DirIn, Agrees
  <2>2. DirIn(d, i).start \in Blocks /\ DirIn(d, i).start # DIR_BLOCK
    BY Zenon, EntryFacts
  <2> QED
    BY Zenon, <1>1, <2>1, <2>2 DEF RecordIn
<1>3. e[0] = d[0]
  BY Zenon, <1>0, <1>1
<1> QED
  BY Zenon, <1>1, <1>2, <1>3, SameVolume

(* The superblock, last: it counts the entry that is already there.        *)
Commits(d, n, t, r, x) ==
    /\ d \in Disks /\ VolumeIn(d) /\ n = d[0].entries /\ n < DIRENTS_PER_BLOCK
    /\ t \in Blocks /\ t = d[0].total /\ r \in Records /\ d[t] = r /\ r.seen <= SEEN_MAX
    /\ DirIn(d, n) = DirEntry(r.id, t, 1)
    /\ x \in Superblocks /\ x.entries = n + 1 /\ x.total = t + 1

LEMMA WriteSuperblock ==
    ASSUME NEW d, NEW n, NEW t, NEW r, NEW x, Commits(d, n, t, r, x),
           NEW e, e = [d EXCEPT ![0] = x]
    PROVE  /\ VolumeIn(e) /\ KeptIn(d, e) /\ CommittedIn(d) \subseteq CommittedIn(e)
           /\ e[0] = x /\ \A a \in Blocks : a # 0 => e[a] = d[a]
           /\ \A i \in CommittedIn(d) : DirIn(e, i) = DirIn(d, i) /\ RecordIn(e, i) = RecordIn(d, i)
<1> USE DEF Commits
<1>0. 0 \in Blocks /\ DIR_BLOCK \in Blocks /\ DIR_BLOCK # 0 /\ x \in Contents
  BY BlocksFacts DEF Contents
<1>1. /\ e \in Disks /\ e[0] = x /\ \A a \in Blocks : a # 0 => e[a] = d[a]
  BY Zenon, <1>0 DEF Disks
<1>2. n \in Nat /\ t \in Nat /\ t >= 2 /\ DIRENTS_PER_BLOCK \in Nat
  BY EntryFacts
<1>3. e[DIR_BLOCK] = d[DIR_BLOCK] /\ \A i : DirIn(e, i) = DirIn(d, i)
  BY Zenon, <1>0, <1>1 DEF DirIn
<1>4. \A i \in CommittedIn(d) : DirIn(e, i) = DirIn(d, i) /\ RecordIn(e, i) = RecordIn(d, i)
  BY Zenon, <1>1, <1>3, EntryFacts DEF RecordIn
<1>5. /\ CommittedIn(d) \subseteq CommittedIn(e)
      /\ \A i \in CommittedIn(e) : i \in CommittedIn(d) \/ i = n
      /\ \A i \in CommittedIn(d) : i < n
  BY <1>1, <1>2 DEF CommittedIn
<1>6. /\ DirIn(e, n).start = t /\ DirIn(e, n).len = 1 /\ DirIn(e, n).name = r.id /\ RecordIn(e, n) = r
  <2>1. DirIn(e, n) = DirEntry(r.id, t, 1)
    BY Zenon, <1>3
  <2>2. DirIn(e, n).start = t /\ DirIn(e, n).len = 1 /\ DirIn(e, n).name = r.id
    BY <2>1 DEF DirEntry
  <2>3. t # 0
    BY <1>2
  <2> QED
    BY Zenon, <1>1, <2>2, <2>3 DEF RecordIn
<1>7. ASSUME NEW i \in CommittedIn(d)
      PROVE  /\ SoundIn(d, i) /\ DirIn(d, i).start \in Nat /\ DirIn(d, i).len \in Nat
             /\ DirIn(d, i).start + DirIn(d, i).len <= t /\ i < n /\ i \in Nat
  BY <1>5, EntryFacts DEF VolumeIn, SoundIn
<1>8. ASSUME NEW i \in CommittedIn(e) PROVE SoundIn(e, i)
  <2>1. CASE i \in CommittedIn(d)
    <3>1. /\ SoundIn(d, i) /\ DirIn(d, i).start + DirIn(d, i).len <= t + 1
      BY <1>2, <1>7, <2>1
    <3>2. DirIn(e, i) = DirIn(d, i) /\ RecordIn(e, i) = RecordIn(d, i)
      BY Zenon, <1>4, <2>1
    <3>3. ASSUME NEW j \in CommittedIn(e), j < i
          PROVE  DirIn(e, j).start + DirIn(e, j).len <= DirIn(e, i).start
      <4>1. j \in CommittedIn(d)
        <5>1. i < n /\ i \in Nat
          BY Zenon, <1>7, <2>1
        <5>2. j # n
          BY <1>2, <3>3, <5>1
        <5> QED
          BY Zenon, <1>5, <5>2
      <4>2. DirIn(d, j).start + DirIn(d, j).len <= DirIn(d, i).start
        BY Zenon, <3>1, <3>3, <4>1 DEF SoundIn
      <4> QED
        BY <1>3, <4>2
    <3> QED
      BY <1>1, <3>1, <3>2, <3>3 DEF SoundIn
  <2>2. CASE i = n
    <3>1. ASSUME NEW j \in CommittedIn(e), j < i
          PROVE  DirIn(e, j).start + DirIn(e, j).len <= DirIn(e, i).start
      <4>1. j \in CommittedIn(d)
        <5>1. j # n
          BY <1>2, <2>2, <3>1
        <5> QED
          BY Zenon, <1>5, <5>1
      <4>2. DirIn(d, j).start + DirIn(d, j).len <= t
        BY Zenon, <1>7, <4>1
      <4> QED
        BY <1>3, <1>6, <2>2, <4>2
    <3>2. /\ DirIn(e, i).start >= DATA_START_BLOCK /\ DirIn(e, i).len >= 1
          /\ DirIn(e, i).start + DirIn(e, i).len <= e[0].total
      BY <1>1, <1>2, <1>6, <2>2 DEF DATA_START_BLOCK
    <3> QED
      BY <1>6, <2>2, <3>1, <3>2 DEF SoundIn
  <2> QED
    BY Zenon, <1>5, <2>1, <2>2
<1>9. VolumeIn(e)
  <2>1. e[0] \in Superblocks /\ e[DIR_BLOCK] \in Directories
    BY Zenon, <1>1, <1>3 DEF VolumeIn
  <2>2. /\ e[0].entries <= DIRENTS_PER_BLOCK
        /\ e[0].total >= DATA_START_BLOCK /\ e[0].total - 1 = t
    BY <1>1, <1>2 DEF DATA_START_BLOCK
  <2> QED
    BY Zenon, <1>8, <2>1, <2>2 DEF VolumeIn
<1>10. KeptIn(d, e)
  <2>1. e[0].entries >= d[0].entries
    BY <1>1, <1>2
  <2>2. \A i \in CommittedIn(d) : RecordIn(d, i).seen >= RecordIn(d, i).seen
    BY EntryFacts
  <2> QED
    BY Zenon, <1>4, <2>1, <2>2 DEF KeptIn
<1> QED
  BY Zenon, <1>1, <1>4, <1>5, <1>9, <1>10

(* set_seen_in_block and the write back: one record, in place.             *)
Updates(d, i, b, x) ==
    /\ d \in Disks /\ VolumeIn(d) /\ i \in CommittedIn(d) /\ b = DirIn(d, i).start /\ x \in Records
    /\ x.id = RecordIn(d, i).id /\ x.cause = RecordIn(d, i).cause
    /\ x.seen >= RecordIn(d, i).seen /\ x.seen <= SEEN_MAX
    /\ RecordIn(d, i).escalated => x.escalated

Updated(d, i, x, e) ==
    /\ VolumeIn(e) /\ KeptIn(d, e) /\ CommittedIn(e) = CommittedIn(d) /\ RecordIn(e, i) = x
    /\ \A j \in CommittedIn(d) : DirIn(e, j) = DirIn(d, j) /\ (j # i => RecordIn(e, j) = RecordIn(d, j))

LEMMA WriteRecord ==
    ASSUME NEW d, NEW i, NEW b, NEW x, Updates(d, i, b, x),
           NEW e, e = [d EXCEPT ![b] = x]
    PROVE  Updated(d, i, x, e)
<1> USE DEF Updates
<1>0. b \in Blocks /\ b # 0 /\ b # DIR_BLOCK /\ x \in Contents /\ 0 \in Blocks /\ DIR_BLOCK \in Blocks
  BY EntryFacts, BlocksFacts DEF Contents
<1>1. /\ e \in Disks /\ e[b] = x /\ \A a \in Blocks : a # b => e[a] = d[a]
  BY Zenon, <1>0 DEF Disks
<1>2. /\ e[0] = d[0] /\ e[DIR_BLOCK] = d[DIR_BLOCK]
      /\ CommittedIn(e) = CommittedIn(d) /\ \A j : DirIn(e, j) = DirIn(d, j)
  BY Zenon, <1>0, <1>1 DEF CommittedIn, DirIn
<1>3. RecordIn(e, i) = x
  BY Zenon, <1>1, <1>2 DEF RecordIn
<1>4. ASSUME NEW j \in CommittedIn(d), j # i PROVE RecordIn(e, j) = RecordIn(d, j)
  <2>1. DirIn(d, j).start # b /\ DirIn(d, j).start \in Blocks
    BY Zenon, <1>4, StartsDiffer, EntryFacts
  <2> QED
    BY Zenon, <1>1, <1>2, <2>1 DEF RecordIn
<1>5. ASSUME NEW j \in CommittedIn(e) PROVE SoundIn(e, j)
  <2>1. SoundIn(d, j)
    BY Zenon, <1>2 DEF VolumeIn
  <2>2. /\ RecordIn(e, j) \in Records /\ RecordIn(e, j).id = DirIn(e, j).name
        /\ RecordIn(e, j).seen <= SEEN_MAX
    <3>1. CASE j = i
      <4>1. RecordIn(d, i).id = DirIn(d, i).name
        BY Zenon, <2>1, <3>1 DEF SoundIn
      <4> QED
        BY Zenon, <1>2, <1>3, <3>1, <4>1
    <3>2. CASE j # i
      BY Zenon, <1>2, <1>4, <2>1, <3>2 DEF SoundIn
    <3> QED
      BY <3>1, <3>2
  <2>3. ASSUME NEW k \in CommittedIn(e), k < j
        PROVE  DirIn(e, k).start + DirIn(e, k).len <= DirIn(e, j).start
    <3>1. DirIn(d, k).start + DirIn(d, k).len <= DirIn(d, j).start
      BY Zenon, <1>2, <2>1, <2>3 DEF SoundIn
    <3> QED
      BY <1>2, <3>1
  <2>4. /\ DirIn(e, j).start >= DATA_START_BLOCK /\ DirIn(e, j).len >= 1
        /\ DirIn(e, j).start + DirIn(e, j).len <= e[0].total
    BY <1>2, <2>1 DEF SoundIn
  <2> QED
    BY <2>2, <2>3, <2>4 DEF SoundIn
<1>6. VolumeIn(e)
  BY Zenon, <1>2, <1>5 DEF VolumeIn
<1>7. KeptIn(d, e)
  <2>1. d[0].entries >= d[0].entries /\ \A j \in CommittedIn(d) : RecordIn(d, j).seen >= RecordIn(d, j).seen
    BY EntryFacts
  <2>2. ASSUME NEW j \in CommittedIn(d)
        PROVE  /\ DirIn(e, j) = DirIn(d, j)
               /\ RecordIn(e, j).cause = RecordIn(d, j).cause
               /\ RecordIn(e, j).seen >= RecordIn(d, j).seen
               /\ RecordIn(d, j).escalated => RecordIn(e, j).escalated
    <3>1. CASE j = i
      BY Zenon, <1>2, <1>3, <3>1
    <3>2. CASE j # i
      BY Zenon, <1>2, <1>4, <2>1, <3>2
    <3> QED
      BY Zenon, <3>1, <3>2
  <2> QED
    BY Zenon, <1>2, <2>1, <2>2 DEF KeptIn
<1> QED
  BY Zenon, <1>2, <1>3, <1>4, <1>6, <1>7 DEF Updated

(* The volume mkfs packs is sound.                                         *)
LEMMA ImageSound == VolumeIn(BuildImage)
<1> DEFINE n == Len(Files)
           d == BuildImage
<1>0. /\ n \in Nat /\ n <= DIRENTS_PER_BLOCK /\ DIRENTS_PER_BLOCK \in Nat /\ n \in 0 .. n
      /\ \A i \in 0 .. n : Start[i] \in Nat /\ Start[i] >= 2
      /\ SEEN_MAX \in Nat
  <2>1. n \in Nat /\ n <= DIRENTS_PER_BLOCK /\ DIRENTS_PER_BLOCK \in Nat
    BY Zenon, FilesFacts
  <2>2. \A i \in 0 .. n : Start[i] \in Nat
    BY Zenon, StartFacts
  <2>3. \A i \in 0 .. n : Start[i] >= 2
    BY Zenon, BlocksFacts
  <2>4. SEEN_MAX \in Nat
    BY KbAssumption
  <2> HIDE DEF n
  <2>5. n \in 0 .. n
    BY <2>1
  <2> QED
    BY Zenon, <2>1, <2>2, <2>3, <2>4, <2>5
<1>1. /\ d[0] \in Superblocks /\ d[0].entries = n /\ d[0].total = Start[n]
  <2>1. d[0] = Superblock(n, Start[n]) /\ Start[n] \in Nat
    BY Zenon, <1>0, ImageFacts
  <2> QED
    BY <1>0, <2>1 DEF Superblock, Superblocks
<1>2. PICK m \in DirMaps :
         /\ d[DIR_BLOCK] = Directory(m)
         /\ \A i \in 0 .. (n - 1) : m[i] = DirEntry(Files[i + 1].id, Start[i], Files[i + 1].len)
  BY Zenon, ImageFacts
<1> HIDE DEF d
<1>3. d[DIR_BLOCK] \in Directories /\ d[DIR_BLOCK].ents = m
  BY <1>2 DEF Directory, Directories
<1>4. CommittedIn(d) = 0 .. (n - 1)
  BY Zenon, <1>1 DEF CommittedIn
<1>5. ASSUME NEW i \in 0 .. (n - 1)
      PROVE  /\ DirIn(d, i).start = Start[i] /\ DirIn(d, i).len = Files[i + 1].len
             /\ DirIn(d, i).name = Files[i + 1].id
             /\ i \in 0 .. n /\ i + 1 \in 0 .. n /\ i + 1 \in 1 .. n
             /\ Start[i] + Files[i + 1].len = Start[i + 1]
             /\ Files[i + 1].len \in Nat /\ Files[i + 1].len >= 1 /\ Files[i + 1].id \in Nat
             /\ Files[i + 1].cause \in Causes
  <2>1. DirIn(d, i) = DirEntry(Files[i + 1].id, Start[i], Files[i + 1].len)
    BY Zenon, <1>2, <1>3 DEF DirIn
  <2>2. i \in 0 .. n /\ i + 1 \in 0 .. n /\ i + 1 \in 1 .. n
    BY <1>0
  <2>3. /\ Start[i] + Files[i + 1].len = Start[i + 1] /\ Files[i + 1].len \in Nat
        /\ Files[i + 1].len >= 1 /\ Files[i + 1].id \in Nat /\ Files[i + 1].cause \in Causes
    BY <2>2, BlocksFacts, FilesFacts
  <2> QED
    BY <2>1, <2>2, <2>3 DEF DirEntry
<1>6. ASSUME NEW i \in 0 .. (n - 1) PROVE SoundIn(d, i)
  <2>1. RecordIn(d, i) = Entry(Files[i + 1].id, Files[i + 1].cause, 0, FALSE)
    BY Zenon, <1>5, ImageFacts DEF RecordIn, d
  <2>2. RecordIn(d, i) \in Records /\ RecordIn(d, i).id = Files[i + 1].id /\ RecordIn(d, i).seen = 0
    <3>1. Files[i + 1].id \in Nat /\ Files[i + 1].cause \in Causes /\ 0 \in Nat /\ FALSE \in Flags
      BY <1>5 DEF Flags
    <3>2. LET r == Entry(Files[i + 1].id, Files[i + 1].cause, 0, FALSE) IN
          r \in Records /\ r.id = Files[i + 1].id /\ r.seen = 0
      <4> DEFINE f == Files[i + 1]
      <4>1. f.id \in Nat /\ f.cause \in Causes
        BY <3>1
      <4> HIDE DEF f
      <4>2. LET r == Entry(f.id, f.cause, 0, FALSE) IN
            /\ r \in Records /\ r.id = f.id /\ r.cause = f.cause
            /\ r.seen = 0 /\ r.escalated = FALSE
        BY ZenonT(60), <4>1, NewEntry
      <4> QED
        BY <4>2 DEF f
    <3> QED
      BY Zenon, <2>1, <3>2
  <2>3. Start[i] \in Nat /\ Start[i] >= 2 /\ Start[i + 1] <= Start[n]
    <3>1. i \in 0 .. n /\ i + 1 \in 0 .. n /\ i + 1 <= n /\ n \in 0 .. n
      BY <1>0
    <3> QED
      BY <1>0, <3>1, StartIncreases
  <2>4. ASSUME NEW j \in CommittedIn(d), j < i
        PROVE  DirIn(d, j).start + DirIn(d, j).len <= DirIn(d, i).start
    <3>1. j \in 0 .. (n - 1) /\ j + 1 <= i /\ i \in 0 .. n
      BY <1>0, <1>4, <2>4
    <3>2. Start[j] + Files[j + 1].len = Start[j + 1] /\ j + 1 \in 0 .. n
      BY Zenon, <1>5, <3>1
    <3>3. Start[j + 1] <= Start[i]
      BY Zenon, <3>1, <3>2, StartIncreases
    <3> QED
      BY <1>5, <3>1, <3>2, <3>3
  <2>5. /\ DirIn(d, i).start >= DATA_START_BLOCK /\ DirIn(d, i).len >= 1
        /\ DirIn(d, i).start + DirIn(d, i).len <= d[0].total
    BY <1>1, <1>5, <2>3 DEF DATA_START_BLOCK
  <2>6. RecordIn(d, i).id = DirIn(d, i).name /\ RecordIn(d, i).seen <= SEEN_MAX
    BY <1>0, <1>5, <2>2
  <2> QED
    BY <2>2, <2>4, <2>5, <2>6 DEF SoundIn
<1>7. d[0].total >= DATA_START_BLOCK /\ d[0].total - 1 \in Blocks /\ d[0].entries <= DIRENTS_PER_BLOCK
  <2>1. Start[n] \in Nat /\ Start[n] >= 2 /\ Start[n] - 1 \in Nat /\ Start[n] - 1 < Start[n]
    BY <1>0
  <2>2. Start[n] - 1 \in Blocks
    BY Zenon, <1>0, <2>1, BlocksFacts
  <2> QED
    BY <1>0, <1>1, <2>1, <2>2 DEF DATA_START_BLOCK
<1> QED
  BY Zenon, <1>1, <1>3, <1>4, <1>6, <1>7 DEF VolumeIn, d

-----------------------------------------------------------------------------
(* The table against the disk, step by step.                               *)
Grown ==
    /\ DOMAIN table' = DOMAIN table
    /\ \A k \in DOMAIN table : /\ table'[k].start = table[k].start
                               /\ table'[k].seen >= table[k].seen
                               /\ table[k].escalated => table'[k].escalated

LEMMA SameGrown == ASSUME KbType, table' = table PROVE Grown
<1>1. \A k \in DOMAIN table : table[k].seen \in Nat
  BY Zenon, TableUpdates, IssueUpdates DEF KbType
<1>2. \A k \in DOMAIN table : table[k].seen >= table[k].seen
  BY <1>1
<1> QED
  BY Zenon, <1>2 DEF Grown

LEMMA IssueBacked ==
    ASSUME KbType, VolumeInv, TableInv, NEW k \in DOMAIN table
    PROVE  \E i \in CommittedIn(disk) :
              /\ Backs(disk, i, table[k]) /\ (ldr.pc = "head" => i < ldr.i)
              /\ disk[table[k].start] = RecordIn(disk, i)
              /\ table[k].start \in Blocks /\ table[k].start # 0 /\ table[k].start # DIR_BLOCK
              /\ table[k].start < disk[0].total /\ table[k].start \in Nat
<1>1. PICK i \in CommittedIn(disk) : Backs(disk, i, table[k]) /\ (ldr.pc = "head" => i < ldr.i)
  BY Zenon DEF TableInv
<1>2. table[k].start = DirIn(disk, i).start
  BY Zenon, <1>1 DEF Backs
<1>3. /\ DirIn(disk, i).start \in Blocks /\ DirIn(disk, i).start # 0 /\ DirIn(disk, i).start # DIR_BLOCK
      /\ DirIn(disk, i).start < disk[0].total /\ DirIn(disk, i).start \in Nat
  <2>1. disk \in Disks /\ VolumeIn(disk)
    BY Zenon DEF KbType, Disks, VolumeInv
  <2> QED
    BY Zenon, <2>1, EntryFacts
<1>4. disk[table[k].start] = RecordIn(disk, i)
  BY Zenon, <1>2 DEF RecordIn
<1> QED
  BY Zenon, <1>1, <1>2, <1>3, <1>4

LEMMA TableKept ==
    ASSUME KbType, KbType', VolumeInv, TableInv, disk' = disk, Grown,
           ldr'.pc \in {"sb", "dir"} => DOMAIN table = {},
           ldr'.pc = "head" => DOMAIN table = {} \/ (ldr.pc = "head" /\ ldr.i <= ldr'.i)
    PROVE  TableInv'
<1>1. ASSUME NEW k \in DOMAIN table'
      PROVE  \E i \in CommittedIn(disk') : Backs(disk', i, table'[k]) /\ (ldr'.pc = "head" => i < ldr'.i)
  <2>1. k \in DOMAIN table
    BY Zenon DEF Grown
  <2>2. PICK i \in CommittedIn(disk) : Backs(disk, i, table[k]) /\ (ldr.pc = "head" => i < ldr.i)
    BY Zenon, <2>1 DEF TableInv
  <2>3. /\ table[k].seen \in Nat /\ table'[k].seen \in Nat
        /\ RecordIn(disk, i).seen \in Nat /\ i \in Nat /\ ldr.i \in Nat /\ ldr'.i \in Nat
    <3>1. disk \in Disks /\ VolumeIn(disk)
      BY Zenon DEF KbType, Disks, VolumeInv
    <3>2. i \in Nat /\ RecordIn(disk, i).seen \in Nat
      BY Zenon, <3>1, EntryFacts
    <3>3. table[k].seen \in Nat /\ table'[k].seen \in Nat
      BY Zenon, <2>1, TableUpdates, IssueUpdates DEF KbType
    <3>4. ldr.i \in Nat /\ ldr'.i \in Nat
      BY Zenon DEF KbType, LdrRecords
    <3> QED
      BY <3>2, <3>3, <3>4
  <2>4. Backs(disk, i, table'[k])
    BY <2>1, <2>2, <2>3 DEF Backs, Grown
  <2>5. ldr'.pc = "head" => i < ldr'.i
    BY <2>1, <2>2, <2>3
  <2> QED
    BY Zenon, <2>2, <2>4, <2>5
<1>2. \A k, l \in DOMAIN table' : table'[k].start = table'[l].start => k = l
  BY Zenon DEF TableInv, Grown
<1>3. ldr'.pc \in {"sb", "dir"} => DOMAIN table' = {}
  BY Zenon DEF Grown
<1> QED
  BY Zenon, <1>1, <1>2, <1>3 DEF TableInv

LEMMA WriterKept ==
    ASSUME KbType, KbType', LocalInv, AppendInv, UpdateInv, disk' = disk, wtr' = wtr, Grown
    PROVE  AppendInv' /\ UpdateInv'
<1>1. PlanDirectory' = PlanDirectory /\ PlanSuperblock' = PlanSuperblock
  BY Zenon DEF PlanDirectory, PlanSuperblock
<1>2. \A k \in DOMAIN table' : k \in DOMAIN table /\ table'[k].start = table[k].start
  BY Zenon DEF Grown
<1>3. AppendInv'
  <2>1. wtr.pc = "wsb" => \A k \in DOMAIN table' : table'[k].start < wtr.sb.total
    BY Zenon, <1>2 DEF AppendInv
  <2> QED
    BY Zenon, <1>1, <2>1 DEF AppendInv
<1>4. wtr.pc \in {"flag", "entry", "wentry"} =>
         /\ table'[wtr.slot].start = table[wtr.slot].start
         /\ table'[wtr.slot].seen >= table[wtr.slot].seen
         /\ table[wtr.slot].escalated => table'[wtr.slot].escalated
         /\ table[wtr.slot].seen \in Nat /\ table'[wtr.slot].seen \in Nat /\ wtr.seen \in Nat
  <2>1. wtr.pc \in {"flag", "entry", "wentry"} => wtr.slot \in DOMAIN table
    BY Zenon DEF LocalInv, WriterLocals
  <2>2. /\ wtr.slot \in DOMAIN table => wtr.slot \in DOMAIN table'
        /\ table \in Seq(Issues) /\ table' \in Seq(Issues) /\ wtr.seen \in Nat
    BY Zenon DEF Grown, KbType, WtrRecords
  <2>3. wtr.slot \in DOMAIN table => table[wtr.slot].seen \in Nat /\ table'[wtr.slot].seen \in Nat
    BY ZenonT(60), <2>2, TableUpdates, IssueUpdates
  <2> QED
    BY Zenon, <2>1, <2>2, <2>3 DEF Grown
<1>5. UpdateInv'
  <2>1. ASSUME wtr.pc \in {"flag", "entry", "wentry"} PROVE wtr.seen <= table'[wtr.slot].seen
    <3>1. wtr.seen <= table[wtr.slot].seen
      BY Zenon, <2>1 DEF UpdateInv
    <3> QED
      BY <1>4, <2>1, <3>1
  <2>2. wtr.pc = "entry" \/ wtr.pc = "wentry" => wtr.pc \in {"flag", "entry", "wentry"}
    OBVIOUS
  <2> QED
    BY Zenon, <1>4, <2>1, <2>2 DEF UpdateInv
<1> QED
  BY <1>3, <1>5

(* Steps that leave the disk and the loader where they are.                *)
LEMMA WriterDisk ==
    ASSUME KbInv, IoInv', disk' = disk, ldr' = ldr, Grown, AppendInv', UpdateInv'
    PROVE  DiskInv'
<1>0. KbType /\ KbType' /\ LocalInv /\ DiskInv
  BY Zenon DEF KbInv, IoInv
<1>1. VolumeInv' /\ LoadInv'
  BY Zenon, <1>0 DEF DiskInv, VolumeInv, LoadInv, LoaderReads, LoaderEntry
<1>2. TableInv'
  <2>1. ldr.pc \in {"sb", "dir"} => DOMAIN table = {}
    BY Zenon, <1>0 DEF DiskInv, TableInv
  <2>2. ldr.i <= ldr.i
    <3>1. ldr.i \in Nat
      BY Zenon, <1>0 DEF KbType, LdrRecords
    <3> QED
      BY <3>1
  <2> QED
    BY Zenon, <1>0, <2>1, <2>2, TableKept DEF DiskInv
<1> QED
  BY Zenon, <1>1, <1>2 DEF DiskInv

LEMMA DiskKept ==
    ASSUME KbInv, IoInv', disk' = disk, ldr' = ldr, wtr' = wtr, Grown
    PROVE  DiskInv'
<1>1. AppendInv' /\ UpdateInv'
  BY Zenon, WriterKept DEF KbInv, IoInv, DiskInv
<1> QED
  BY Zenon, <1>1, WriterDisk

LEMMA WriterIdles ==
    ASSUME wtr'.pc \in {"take", "clear", "sb", "dirty"}
    PROVE  AppendInv' /\ UpdateInv'
BY DEF AppendInv, UpdateInv

LEMMA DiskBoot == Booted /\ VolumeInv => DiskInv
<1> SUFFICES ASSUME Booted, VolumeInv PROVE DiskInv
  OBVIOUS
<1>1. ldr.pc \in {"sb", "release"} /\ DOMAIN table = {}
  BY DEF Booted, LdrStart
<1>2. wtr.pc \in {"take", "absent"}
  BY DEF Booted, WtrStart, WtrIdle
<1>3. LoadInv
  BY <1>1 DEF LoadInv
<1>4. TableInv
  BY Zenon, <1>1 DEF TableInv
<1>5. AppendInv /\ UpdateInv
  BY <1>2 DEF AppendInv, UpdateInv
<1> QED
  BY <1>3, <1>4, <1>5 DEF DiskInv

LEMMA DiskInit == Init => DiskInv
<1>1. Init => Booted /\ VolumeInv
  BY Zenon, ImageFacts, ImageSound DEF Init, Booted, VolumeInv
<1> QED
  BY <1>1, DiskBoot

LEMMA DiskPowerLoss == KbInv /\ PowerLoss => DiskInv'
<1>1. KbInv /\ PowerLoss => Booted' /\ VolumeInv'
  BY Zenon DEF KbInv, IoInv, KbType, DiskInv, VolumeInv, PowerLoss, Booted
<1> QED
  BY <1>1, DiskBoot, PTL

LEMMA LoaderDisk ==
    ASSUME KbInv, ldr.pc # "release", disk' = disk, wtr' = wtr, LoadInv', TableInv'
    PROVE  DiskInv'
<1>1. wtr.pc \in {"take", "clear", "dirty"}
  BY Zenon DEF KbInv, IoInv, TurnInv
<1>2. VolumeInv'
  BY Zenon DEF KbInv, DiskInv, VolumeInv
<1>3. AppendInv' /\ UpdateInv'
  BY <1>1 DEF AppendInv, UpdateInv
<1> QED
  BY Zenon, <1>2, <1>3 DEF DiskInv

LEMMA DiskLoaderSuperblock == ASSUME KbInv, IoInv', LoaderSuperblock PROVE DiskInv'
<1>0. /\ IoInv /\ KbType /\ KbType' /\ VolumeInv /\ TableInv /\ LocalInv
      /\ ldr.pc = "sb" /\ ldr.pc # "release" /\ LoaderReads
  BY DEF KbInv, IoInv, DiskInv, LoaderSuperblock, LoaderReads
<1>1. /\ FsReadDone("loader", LoaderBlock) /\ disk' = disk /\ wtr' = wtr /\ table' = table
  BY Zenon DEF LoaderSuperblock, healVars
<1> DEFINE b == Result("loader")
<1>2. b # Failed => b \in Contents /\ b = disk[LoaderBlock]
  BY Zenon, <1>0, <1>1, LoaderRead
<1>3. ldr' = IF b # Failed /\ b.kind = "sb" THEN LdrAtDirectory(ldr, b.entries) ELSE LdrAtRelease(ldr)
  BY Zenon DEF LoaderSuperblock, LdrAtDirectory, LdrAtRelease
<1> HIDE DEF b
<1>4. ldr \in LdrRecords /\ LoaderBlock = 0
  BY Zenon, <1>0, LoaderBlockFacts DEF KbType
<1>5. /\ ldr'.pc \in {"dir", "release"}
      /\ ldr'.pc = "dir" => ldr'.entries = disk[0].entries
  <2>1. CASE b # Failed /\ b.kind = "sb"
    <3>1. b.entries \in Nat /\ b = disk[0]
      BY Zenon, <1>2, <1>4, <2>1, ContentsFacts
    <3>2. ldr' = LdrAtDirectory(ldr, b.entries)
      BY Zenon, <1>3, <2>1
    <3>3. ldr \in LdrRecords
      BY <1>4
    <3>4. ldr'.pc = "dir" /\ ldr'.entries = b.entries
      BY <3>1, <3>2, <3>3, LdrToDirectory
    <3> QED
      BY <3>1, <3>4
  <2>2. CASE ~(b # Failed /\ b.kind = "sb")
    <3>1. ldr' = LdrAtRelease(ldr)
      BY Zenon, <1>3, <2>2
    <3>2. ldr'.pc = "release"
      BY Zenon, <1>4, <3>1, LdrToRelease
    <3> QED
      BY <3>2
  <2> QED
    BY Zenon, <2>1, <2>2
<1>6. LoadInv'
  BY <1>1, <1>5 DEF LoadInv
<1>7. TableInv'
  <2>1. DOMAIN table = {}
    BY <1>0 DEF TableInv
  <2>2. Grown
    BY Zenon, <1>0, <1>1, SameGrown
  <2> QED
    BY Zenon, <1>0, <1>1, <2>1, <2>2, TableKept
<1> QED
  BY Zenon, <1>0, <1>1, <1>6, <1>7, LoaderDisk

LEMMA DiskLoaderDirectory == ASSUME KbInv, IoInv', LoaderDirectory PROVE DiskInv'
<1>0. /\ IoInv /\ KbType /\ KbType' /\ VolumeInv /\ TableInv /\ LocalInv
      /\ ldr.pc = "dir" /\ ldr.pc # "release" /\ LoaderReads
  BY DEF KbInv, IoInv, DiskInv, LoaderDirectory, LoaderReads
<1>1. /\ FsReadDone("loader", LoaderBlock) /\ disk' = disk /\ wtr' = wtr /\ table' = table
  BY Zenon DEF LoaderDirectory, healVars
<1> DEFINE b == Result("loader")
<1>2. b # Failed => b \in Contents /\ b = disk[LoaderBlock]
  BY Zenon, <1>0, <1>1, LoaderRead
<1>3. ldr' = IF b # Failed THEN LdrAtHead(ldr, Entries(b)) ELSE LdrAtRelease(ldr)
  BY Zenon DEF LoaderDirectory, LdrAtHead, LdrAtRelease
<1> HIDE DEF b
<1>4. ldr \in LdrRecords /\ LoaderBlock = DIR_BLOCK
  BY Zenon, <1>0, LoaderBlockFacts DEF KbType
<1>5. ldr.j = 0 /\ ldr.entries = disk[0].entries
  BY <1>0 DEF LocalInv, LoaderLocals, KbInv, DiskInv, LoadInv
<1>6. /\ ldr'.pc \in {"head", "release"}
      /\ ldr'.pc = "head" => /\ ldr'.entries = disk[0].entries /\ ldr'.j = 0
                             /\ ldr'.dir = disk[DIR_BLOCK].ents
  <2>1. CASE b # Failed
    <3>1. Entries(b) \in DirMaps /\ Entries(b) = disk[DIR_BLOCK].ents
      <4>1. b \in Contents /\ b = disk[DIR_BLOCK] /\ disk[DIR_BLOCK] \in Directories
        BY Zenon, <1>0, <1>2, <1>4, <2>1 DEF VolumeInv, VolumeIn
      <4> QED
        BY Zenon, <4>1, EntriesType
    <3>2. ldr' = LdrAtHead(ldr, Entries(b))
      BY Zenon, <1>3, <2>1
    <3>3. ldr \in LdrRecords /\ Entries(b) \in DirMaps
      BY <1>4, <3>1
    <3>4. ldr'.pc = "head" /\ ldr'.dir = Entries(b) /\ ldr'.entries = ldr.entries /\ ldr'.j = ldr.j
      BY <3>2, <3>3, LdrToHead
    <3> QED
      BY <1>5, <3>1, <3>4
  <2>2. CASE b = Failed
    <3>1. ldr' = LdrAtRelease(ldr)
      BY Zenon, <1>3, <2>2
    <3>2. ldr'.pc = "release"
      BY Zenon, <1>4, <3>1, LdrToRelease
    <3> QED
      BY <3>2
  <2> QED
    BY Zenon, <2>1, <2>2
<1>7. LoadInv'
  BY <1>1, <1>6 DEF LoadInv
<1>8. TableInv'
  <2>1. DOMAIN table = {}
    BY <1>0 DEF TableInv
  <2>2. Grown
    BY Zenon, <1>0, <1>1, SameGrown
  <2> QED
    BY Zenon, <1>0, <1>1, <2>1, <2>2, TableKept
<1> QED
  BY Zenon, <1>0, <1>1, <1>7, <1>8, LoaderDisk

LEMMA DiskLoaderHead == ASSUME KbInv, IoInv', LoaderHead PROVE DiskInv'
<1>0. /\ IoInv /\ KbType /\ KbType' /\ VolumeInv /\ TableInv /\ LocalInv /\ LoadInv
      /\ ldr.pc = "head" /\ ldr.pc # "release" /\ LoaderReads
  BY DEF KbInv, IoInv, DiskInv, LoaderHead
<1>1. /\ ldr'.pc = "head" /\ ldr'.entries = ldr.entries /\ ldr'.dir = ldr.dir
      /\ disk' = disk /\ wtr' = wtr
      /\ \/ ldr'.i = ldr.i /\ ldr'.head = HeadRecord /\ table' = table
         \/ /\ ldr'.i = ldr.i + 1 /\ ldr'.j = 0
            /\ \/ table' = table
               \/ HeadRecord \in Records /\ table' = Install(table, Loaded(HeadRecord))
  <2>1. UNCHANGED <<disk, page, wtr, novel, patient>>
    BY Zenon, <1>0, LoaderHeadStep
  <2>2. disk' = disk /\ wtr' = wtr
    BY <2>1
  <2> QED
    BY Zenon, <1>0, <2>2, LoaderHeadStep
<1>2. HeadRecord = disk[LoaderEntry.start]
  BY Zenon, <1>0 DEF LoadInv, HeadRecord
<1>3. ldr.i \in Nat /\ ldr'.i \in Nat /\ ldr.entries \in Nat
  BY Zenon, <1>0 DEF KbType, LdrRecords
<1>4. ldr.entries = disk[0].entries /\ ldr.dir = disk[DIR_BLOCK].ents
  BY <1>0 DEF LoadInv
<1>5. LoadInv'
  <2>1. ASSUME ldr'.j # 0 PROVE LoaderReads' /\ ldr'.head = disk'[(LoaderEntry').start]
    <3>1. ldr'.i = ldr.i /\ ldr'.head = HeadRecord
      BY Zenon, <1>1, <2>1
    <3>2. LoaderReads'
      BY Zenon, <1>0, <1>1, <3>1 DEF LoaderReads
    <3>3. LoaderEntry' = LoaderEntry
      BY Zenon, <1>1, <3>1 DEF LoaderEntry
    <3> QED
      BY Zenon, <1>1, <1>2, <3>1, <3>2, <3>3
  <2> QED
    BY Zenon, <1>1, <1>4, <2>1 DEF LoadInv
<1>6. CASE table' = table
  <2>1. Grown
    BY Zenon, <1>0, <1>6, SameGrown
  <2>2. ldr.i <= ldr'.i
    BY <1>1, <1>3
  <2>3. ldr'.pc \notin {"sb", "dir"}
    BY <1>1
  <2>4. TableInv'
    BY Zenon, <1>0, <1>1, <2>1, <2>2, <2>3, TableKept
  <2> QED
    BY Zenon, <1>0, <1>1, <1>5, <2>4, LoaderDisk
<1>7. CASE table' # table
  <2> DEFINE v == Loaded(HeadRecord)
             m == ldr.i
  <2>1. ldr'.i = m + 1 /\ HeadRecord \in Records /\ table' = Install(table, v)
    BY Zenon, <1>1, <1>7
  <2>2. /\ v \in Issues /\ v.start = LoaderEntry.start /\ v.seen = HeadRecord.seen
        /\ v.escalated = HeadRecord.escalated
    BY Zenon, <1>0, <2>1, LoadedFacts
  <2>3. LoaderEntry = DirIn(disk, m) /\ HeadRecord = RecordIn(disk, m)
    BY Zenon, <1>2, <1>4 DEF LoaderEntry, DirIn, RecordIn
  <2>4. disk \in Disks /\ VolumeIn(disk)
    BY Zenon, <1>0 DEF KbType, Disks, VolumeInv
  <2>5. m \in CommittedIn(disk)
    <3>1. m < ldr.entries
      BY Zenon, <1>0, LoaderBlockFacts
    <3> QED
      BY Zenon, <1>3, <1>4, <2>4, <3>1, EntryFacts
  <2>6. HeadRecord.seen \in Nat
    BY Zenon, <2>1, ContentsFacts
  <2> HIDE DEF v, m
  <2>7. Backs(disk, m, v)
    BY <2>2, <2>3, <2>6 DEF Backs
  <2>8. /\ DOMAIN table \subseteq DOMAIN table'
        /\ \A l \in DOMAIN table : table'[l] = table[l]
        /\ \A l \in DOMAIN table' : l \in DOMAIN table \/ table'[l] = v
        /\ \A k, l \in DOMAIN table' : k \notin DOMAIN table /\ l \notin DOMAIN table => k = l
    <3>1. table \in Seq(Issues)
      BY Zenon, <1>0 DEF KbType
    <3> QED
      BY Zenon, <2>1, <2>2, <3>1, InstallFacts
  <2>9. ASSUME NEW k \in DOMAIN table
        PROVE  \E i \in CommittedIn(disk) : Backs(disk, i, table[k]) /\ i < m + 1 /\ i # m
    <3>1. PICK i \in CommittedIn(disk) : Backs(disk, i, table[k]) /\ i < m
      BY Zenon, <1>0, <2>9 DEF TableInv, m
    <3>2. i \in Nat /\ m \in Nat
      BY Zenon, <1>3, <2>4, EntryFacts DEF m
    <3>3. i < m + 1 /\ i # m
      BY <3>1, <3>2
    <3> QED
      BY Zenon, <3>1, <3>3
  <2>10. ASSUME NEW k \in DOMAIN table PROVE table[k].start # v.start
    <3>1. PICK i \in CommittedIn(disk) : Backs(disk, i, table[k]) /\ i # m
      BY Zenon, <2>9
    <3>2. DirIn(disk, i).start # DirIn(disk, m).start
      BY Zenon, <2>4, <2>5, <3>1, StartsDiffer
    <3> QED
      BY Zenon, <2>7, <3>1, <3>2 DEF Backs
  <2>11. ASSUME NEW k \in DOMAIN table'
         PROVE  \E i \in CommittedIn(disk) : Backs(disk, i, table'[k]) /\ i < ldr'.i
    <3>1. CASE k \in DOMAIN table
      BY Zenon, <2>1, <2>8, <2>9, <3>1
    <3>2. CASE table'[k] = v
      <4>1. m < m + 1
        BY <1>3 DEF m
      <4> QED
        BY Zenon, <2>1, <2>5, <2>7, <3>2, <4>1
    <3> QED
      BY Zenon, <2>8, <3>1, <3>2
  <2>12. ASSUME NEW k \in DOMAIN table', NEW l \in DOMAIN table', table'[k].start = table'[l].start
         PROVE  k = l
    <3>1. CASE k \in DOMAIN table /\ l \in DOMAIN table
      BY Zenon, <1>0, <2>8, <2>12, <3>1 DEF TableInv
    <3>2. CASE k \in DOMAIN table /\ l \notin DOMAIN table
      BY Zenon, <2>8, <2>10, <2>12, <3>2
    <3>3. CASE k \notin DOMAIN table /\ l \in DOMAIN table
      BY Zenon, <2>8, <2>10, <2>12, <3>3
    <3>4. CASE k \notin DOMAIN table /\ l \notin DOMAIN table
      BY Zenon, <2>8, <3>4
    <3> QED
      BY Zenon, <3>1, <3>2, <3>3, <3>4
  <2>13. TableInv'
    <3>1. ldr'.pc \notin {"sb", "dir"}
      BY <1>1
    <3> QED
      BY Zenon, <1>1, <2>11, <2>12, <3>1 DEF TableInv
  <2> QED
    BY Zenon, <1>0, <1>1, <1>5, <2>13, LoaderDisk
<1> QED
  BY Zenon, <1>6, <1>7

LEMMA DiskLoaderScanned == ASSUME KbInv, IoInv', LoaderScanned PROVE DiskInv'
<1>0. KbType /\ KbType' /\ VolumeInv /\ TableInv /\ ldr.pc # "release"
  BY DEF KbInv, IoInv, DiskInv, LoaderScanned
<1>1. disk' = disk /\ wtr' = wtr /\ table' = table /\ ldr' = LdrAtScanned(ldr)
  BY Zenon DEF LoaderScanned, healVars, LdrAtScanned
<1>2. ldr'.pc = "release"
  BY Zenon, <1>0, <1>1, LdrToScanned DEF KbType
<1>3. ldr'.pc \notin {"sb", "dir"} /\ ldr'.pc # "head"
  BY <1>2
<1>4. LoadInv'
  BY <1>2 DEF LoadInv
<1>5. Grown
  BY Zenon, <1>0, <1>1, SameGrown
<1>6. TableInv'
  BY Zenon, <1>0, <1>1, <1>3, <1>5, TableKept
<1> QED
  BY Zenon, <1>0, <1>1, <1>4, <1>6, LoaderDisk

LEMMA DiskTakes == ASSUME KbInv, IoInv', TakeNovelRead \/ TakeNovelClear PROVE DiskInv'
<1>0. KbType /\ wtr \in WtrRecords
  BY Zenon DEF KbInv, IoInv, KbType
<1>1. disk' = disk /\ ldr' = ldr /\ table' = table
  BY Zenon DEF TakeNovelRead, TakeNovelClear, healVars
<1>2. wtr'.pc \in {"clear", "sb", "dirty"}
  <2>1. CASE TakeNovelRead
    <3>1. wtr'.pc = "clear"
      BY Zenon, <1>0, <2>1 DEF TakeNovelRead, WtrRecords
    <3> QED
      BY <3>1
  <2>2. CASE TakeNovelClear
    <3>1. wtr'.pc = "dirty" \/ wtr'.pc = "sb"
      BY Zenon, <1>0, <2>2, WtrIdles DEF TakeNovelClear, WtrRecords
    <3> QED
      BY <3>1
  <2> QED
    BY <2>1, <2>2
<1>3. wtr'.pc \in {"take", "clear", "sb", "dirty"}
  BY <1>2
<1> QED
  BY Zenon, <1>0, <1>1, <1>3, SameGrown, WriterIdles, WriterDisk

LEMMA DiskAppendReads == ASSUME KbInv, IoInv', AppendSuperblock \/ AppendDirectory PROVE DiskInv'
<1>0. IoInv /\ KbType /\ LocalInv /\ VolumeInv /\ AppendInv
  BY Zenon DEF KbInv, IoInv, DiskInv
<1>1. disk' = disk /\ ldr' = ldr /\ table' = table
  BY Zenon, <1>0, AppendSuperblockStep, AppendDirectoryStep DEF ReadReturns
<1>2. AppendInv' /\ UpdateInv'
  <2>1. CASE wtr'.pc = "dirty"
    BY <2>1, WriterIdles
  <2>2. CASE AppendSuperblock /\ wtr'.pc = "dir"
    <3>1. wtr'.sb = disk'[0]
      BY Zenon, <1>0, <1>1, <2>2, AppendSuperblockStep
    <3> QED
      BY <2>2, <3>1 DEF AppendInv, UpdateInv
  <2>3. CASE AppendDirectory /\ wtr'.pc = "wdata"
    <3>1. wtr'.sb = disk'[0]
      <4>1. wtr.pc = "dir"
        BY <2>3 DEF AppendDirectory
      <4>2. wtr.sb = disk[0]
        BY Zenon, <1>0, <4>1 DEF AppendInv
      <4> QED
        BY Zenon, <1>0, <1>1, <2>3, <4>2, AppendDirectoryStep
    <3>2. disk'[DIR_BLOCK] = Directory(wtr'.dir)
      <4>1. disk[DIR_BLOCK] \in Directories /\ disk[DIR_BLOCK] \in Contents
        BY Zenon, <1>0, ContentsFacts DEF VolumeInv, VolumeIn
      <4>2. Entries(disk[DIR_BLOCK]) = disk[DIR_BLOCK].ents
        BY Zenon, <4>1, EntriesType
      <4>3. disk[DIR_BLOCK] = Directory(disk[DIR_BLOCK].ents)
        BY Zenon, <4>1, ContentsFacts
      <4>4. wtr'.dir = Entries(disk[DIR_BLOCK])
        BY Zenon, <1>0, <2>3, AppendDirectoryStep
      <4> QED
        BY Zenon, <1>1, <4>2, <4>3, <4>4
    <3> QED
      BY <2>3, <3>1, <3>2 DEF AppendInv, UpdateInv
  <2>4. wtr'.pc = "dirty" \/ (AppendSuperblock /\ wtr'.pc = "dir") \/ (AppendDirectory /\ wtr'.pc = "wdata")
    <3>1. AppendSuperblock => wtr'.pc \in {"dir", "dirty"}
      BY Zenon, <1>0, AppendSuperblockStep
    <3>2. AppendDirectory => wtr'.pc \in {"wdata", "dirty"}
      BY Zenon, <1>0, AppendDirectoryStep
    <3> QED
      BY <3>1, <3>2
  <2> QED
    BY Zenon, <2>1, <2>2, <2>3, <2>4
<1> QED
  BY Zenon, <1>0, <1>1, <1>2, SameGrown, WriterDisk

LEMMA DiskDirty == ASSUME KbInv, IoInv', DirtyEntry \/ DirtyFlag PROVE DiskInv'
<1>0. IoInv /\ KbType /\ LocalInv /\ VolumeInv /\ TableInv /\ UpdateInv /\ table \in Seq(Issues)
  BY Zenon DEF KbInv, IoInv, DiskInv, KbType
<1>1. /\ disk' = disk /\ ldr' = ldr /\ DOMAIN table' = DOMAIN table
      /\ \A k \in DOMAIN table : /\ table'[k].start = table[k].start /\ table'[k].seen = table[k].seen
                                 /\ table'[k].escalated = table[k].escalated
  <2>1. UNCHANGED <<disk, ioVars, ldr>>
    BY Zenon, <1>0, DirtyEntryStep, DirtyFlagStep
  <2>2. disk' = disk /\ ldr' = ldr
    BY <2>1
  <2> QED
    BY Zenon, <1>0, <2>2, DirtyEntryStep, DirtyFlagStep
<1>2. \A k \in DOMAIN table : table[k].seen \in Nat
  BY Zenon, <1>0, TableUpdates, IssueUpdates
<1>3. \A k \in DOMAIN table : /\ disk[table[k].start].seen \in Nat
                              /\ disk[table[k].start].seen <= table[k].seen
                              /\ disk[table[k].start].escalated => table[k].escalated
  <2> TAKE k \in DOMAIN table
  <2>1. PICK i \in CommittedIn(disk) : Backs(disk, i, table[k]) /\ disk[table[k].start] = RecordIn(disk, i)
    BY Zenon, <1>0, IssueBacked
  <2>2. RecordIn(disk, i).seen \in Nat
    BY Zenon, <1>0, EntryFacts DEF VolumeInv, KbType, Disks
  <2> QED
    BY <1>2, <2>1, <2>2 DEF Backs
<1>4. Grown
  <2>1. \A k \in DOMAIN table : table'[k].seen >= table[k].seen
    BY <1>1, <1>2
  <2> QED
    BY Zenon, <1>1, <2>1 DEF Grown
<1>5. AppendInv' /\ UpdateInv'
  <2>1. CASE wtr'.pc = "take"
    BY <2>1, WriterIdles
  <2>2. CASE DirtyEntry /\ wtr'.pc = "flag"
    <3>1. wtr'.slot \in DOMAIN table /\ wtr'.seen = table[wtr'.slot].seen
      <4>1. wtr'.pc # "take"
        BY <2>2
      <4> QED
        BY Zenon, <1>0, <2>2, <4>1, DirtyEntryStep
    <3>2. disk'[table'[wtr'.slot].start].seen <= wtr'.seen /\ wtr'.seen <= table'[wtr'.slot].seen
      BY <1>1, <1>2, <1>3, <3>1
    <3> QED
      BY <2>2, <3>2 DEF AppendInv, UpdateInv
  <2>3. CASE DirtyFlag
    <3>1. /\ wtr'.pc = "entry" /\ wtr'.slot = wtr.slot /\ wtr'.seen = wtr.seen /\ wtr.slot \in DOMAIN table
          /\ wtr'.escalated = table[wtr.slot].escalated /\ table' = table
      BY Zenon, <1>0, <2>3, DirtyFlagStep
    <3>2. disk[table[wtr.slot].start].seen <= wtr.seen /\ wtr.seen <= table[wtr.slot].seen
      BY <1>0, <2>3 DEF UpdateInv, DirtyFlag
    <3>3. /\ disk'[table'[wtr'.slot].start].seen <= wtr'.seen /\ wtr'.seen <= table'[wtr'.slot].seen
          /\ disk'[table'[wtr'.slot].start].escalated => wtr'.escalated
          /\ wtr'.escalated => table'[wtr'.slot].escalated
      BY Zenon, <1>1, <1>3, <3>1, <3>2
    <3> QED
      BY <3>1, <3>3 DEF AppendInv, UpdateInv
  <2>4. DirtyEntry => wtr'.pc = "take" \/ wtr'.pc = "flag"
    BY Zenon, <1>0, DirtyEntryStep
  <2> QED
    BY Zenon, <2>1, <2>2, <2>3, <2>4
<1> QED
  BY Zenon, <1>1, <1>4, <1>5, WriterDisk

LEMMA DiskPersist == ASSUME KbInv, IoInv', PersistRead \/ PersistWritten PROVE DiskInv'
<1>0. /\ IoInv /\ KbType /\ LocalInv /\ VolumeInv /\ TableInv /\ UpdateInv /\ wtr \in WtrRecords
      /\ disk \in Disks /\ VolumeIn(disk)
  BY Zenon DEF KbInv, IoInv, DiskInv, KbType, Disks, VolumeInv
<1>1. disk' = disk /\ ldr' = ldr /\ table' = table
  BY Zenon, <1>0, PersistReadStep, PersistWrittenStep DEF ReadReturns
<1>2. AppendInv' /\ UpdateInv'
  <2>1. CASE wtr'.pc = "dirty"
    BY <2>1, WriterIdles
  <2>2. CASE PersistRead /\ wtr'.pc = "wentry"
    <3> DEFINE b == disk[table[wtr.slot].start]
    <3>1. /\ wtr'.slot = wtr.slot /\ wtr'.seen = wtr.seen /\ wtr'.escalated = wtr.escalated
          /\ b \in Records /\ wtr'.block = SetInBlock(b)
      BY Zenon, <1>0, <2>2, PersistReadStep
    <3>2. wtr.pc = "entry" /\ wtr.slot \in DOMAIN table
      BY <1>0, <2>2 DEF PersistRead, LocalInv, WriterLocals
    <3>3. /\ b.seen <= wtr.seen /\ wtr.seen <= table[wtr.slot].seen
          /\ b.escalated => wtr.escalated
          /\ wtr.escalated => table[wtr.slot].escalated
      BY <1>0, <3>2 DEF UpdateInv
    <3>4. b.seen <= SEEN_MAX
      <4>1. PICK i \in CommittedIn(disk) : disk[table[wtr.slot].start] = RecordIn(disk, i)
        BY Zenon, <1>0, <3>2, IssueBacked
      <4> QED
        BY Zenon, <1>0, <4>1 DEF VolumeIn, SoundIn
    <3>5. LET r == SetInBlock(b) IN
          /\ r.id = b.id /\ r.cause = b.cause /\ r.escalated = wtr.escalated
          /\ r.seen <= SEEN_MAX /\ r.seen <= wtr.seen /\ r.seen >= b.seen
      <4> HIDE DEF b
      <4> QED
        BY Zenon, <1>0, <3>1, <3>3, <3>4, SetInBlockFacts
    <3>6. disk'[table'[wtr'.slot].start] = b /\ table'[wtr'.slot] = table[wtr.slot]
      BY Zenon, <1>1, <3>1
    <3> HIDE DEF b
    <3>7. AppendInv'
      BY <2>2 DEF AppendInv
    <3>8. UpdateInv'
      BY Zenon, <3>1, <3>3, <3>5, <3>6 DEF UpdateInv
    <3> QED
      BY <3>7, <3>8
  <2>3. wtr'.pc = "dirty" \/ (PersistRead /\ wtr'.pc = "wentry")
    <3>1. PersistRead => wtr'.pc \in {"wentry", "dirty"}
      BY Zenon, <1>0, PersistReadStep
    <3>2. PersistWritten => wtr'.pc = "dirty"
      BY Zenon, <1>0, PersistWrittenStep
    <3> QED
      BY <3>1, <3>2
  <2> QED
    BY Zenon, <2>1, <2>2, <2>3
<1> QED
  BY Zenon, <1>0, <1>1, <1>2, SameGrown, WriterDisk

(* The issue the writer installs once the superblock has committed it.     *)
LEMMA AppendedBacked ==
    ASSUME KbInv, wtr.pc = "wsb", disk[0] = PlanSuperblock
    PROVE  /\ wtr.sb.entries \in CommittedIn(disk) /\ Backs(disk, wtr.sb.entries, Appended)
           /\ Appended \in Issues /\ \A k \in DOMAIN table : table[k].start # Appended.start
<1>0. /\ KbType /\ LocalInv /\ AppendInv /\ disk \in Disks /\ VolumeIn(disk) /\ wtr.tok \in Causes
      /\ wtr.pc \in {"wdata", "wdir", "wsb"} /\ table \in Seq(Issues)
  BY DEF KbInv, IoInv, DiskInv, KbType, Disks, VolumeInv, LocalInv, WriterLocals
<1> DEFINE n == wtr.sb.entries
           t == wtr.sb.total
<1>1. /\ n \in Slots /\ t \in Nat /\ wtr.id \in Nat
      /\ PlanDirectory.ents[n] = DirEntry(wtr.id, t, 1) /\ PlanSuperblock.entries = n + 1
  BY Zenon, <1>0, PlanFacts
<1>2. /\ disk[DIR_BLOCK] = PlanDirectory /\ disk[t] = Entry(wtr.id, wtr.tok, 0, FALSE)
      /\ \A k \in DOMAIN table : table[k].start < t
  BY Zenon, <1>0 DEF AppendInv
<1> HIDE DEF n, t
<1>3. n \in CommittedIn(disk)
  BY <1>1 DEF CommittedIn, Slots
<1>4. DirIn(disk, n) = DirEntry(wtr.id, t, 1)
  BY Zenon, <1>1, <1>2 DEF DirIn
<1>5. DirIn(disk, n).start = t
  BY <1>4 DEF DirEntry
<1>6. RecordIn(disk, n).seen = 0 /\ RecordIn(disk, n).escalated = FALSE
  <2>1. RecordIn(disk, n) = Entry(wtr.id, wtr.tok, 0, FALSE)
    BY Zenon, <1>2, <1>5 DEF RecordIn
  <2>2. LET r == Entry(wtr.id, wtr.tok, 0, FALSE) IN r.seen = 0 /\ r.escalated = FALSE
    BY DEF Entry
  <2> QED
    BY Zenon, <2>1, <2>2
<1>7. Appended \in Issues /\ Appended.start = t /\ Appended.seen = 0
  BY <1>0, <1>1 DEF Appended, Issue, Issues, Flags, t
<1>8. Backs(disk, n, Appended)
  BY <1>5, <1>6, <1>7 DEF Backs
<1>9. ASSUME NEW k \in DOMAIN table PROVE table[k].start # Appended.start
  <2>1. table[k].start \in Nat
    BY Zenon, <1>0, TableUpdates, IssueUpdates
  <2>2. table[k].start < t
    BY <1>2
  <2> QED
    BY <1>1, <1>7, <2>1, <2>2
<1> QED
  BY Zenon, <1>3, <1>7, <1>8, <1>9 DEF n

LEMMA DiskInstalled ==
    ASSUME KbInv, IoInv', wtr.pc = "wsb", wtr'.pc = "dirty", disk[0] = PlanSuperblock,
           disk' = disk, ldr' = ldr, ldr.pc = "release", table' = Install(table, Appended)
    PROVE  DiskInv'
<1>0. TableInv /\ VolumeInv /\ table \in Seq(Issues)
  BY Zenon DEF KbInv, IoInv, DiskInv, KbType
<1>1. \E i \in CommittedIn(disk) : Backs(disk, i, Appended)
  BY Zenon, AppendedBacked
<1>2. Appended \in Issues /\ \A k \in DOMAIN table : table[k].start # Appended.start
  BY Zenon, AppendedBacked
<1>3. /\ DOMAIN table \subseteq DOMAIN table'
      /\ \A l \in DOMAIN table : table'[l] = table[l]
      /\ \A l \in DOMAIN table' : l \in DOMAIN table \/ table'[l] = Appended
      /\ \A k, l \in DOMAIN table' : k \notin DOMAIN table /\ l \notin DOMAIN table => k = l
  BY ZenonT(60), <1>0, <1>2, InstallFacts
<1>4. ldr'.pc \notin {"sb", "dir"} /\ ldr'.pc # "head"
  OBVIOUS
<1>5. TableInv'
  <2>1. \A k \in DOMAIN table' : \E i \in CommittedIn(disk') : Backs(disk', i, table'[k])
    BY ZenonT(60), <1>0, <1>1, <1>3 DEF TableInv
  <2>2. ASSUME NEW k \in DOMAIN table', NEW l \in DOMAIN table', table'[k].start = table'[l].start
        PROVE  k = l
    BY Zenon, <1>0, <1>2, <1>3, <2>2 DEF TableInv
  <2> QED
    BY Zenon, <1>4, <2>1, <2>2 DEF TableInv
<1>6. LoadInv'
  BY <1>4 DEF LoadInv
<1>7. VolumeInv'
  BY Zenon, <1>0 DEF VolumeInv
<1>8. AppendInv' /\ UpdateInv'
  BY WriterIdles
<1> QED
  BY Zenon, <1>5, <1>6, <1>7, <1>8 DEF DiskInv

LEMMA DiskAppendWritten == ASSUME KbInv, IoInv', AppendWritten PROVE DiskInv'
<1>0. /\ IoInv /\ KbType /\ KbType' /\ LocalInv /\ VolumeInv /\ TableInv /\ AppendInv
      /\ disk \in Disks /\ VolumeIn(disk)
  BY Zenon DEF KbInv, IoInv, DiskInv, KbType, Disks, VolumeInv
<1>1. disk' = disk /\ ldr' = ldr /\ ldr.pc = "release"
  BY Zenon, <1>0, AppendWrittenStep DEF ReadReturns
<1>2. CASE wtr'.pc = "dirty" /\ table' = table
  <2>1. AppendInv' /\ UpdateInv'
    BY <1>2, WriterIdles
  <2> QED
    BY Zenon, <1>0, <1>1, <1>2, <2>1, SameGrown, WriterDisk
<1>3. CASE /\ wtr.pc = "wsb" /\ wtr'.pc = "dirty" /\ disk[0] = PlanSuperblock
           /\ table' = Install(table, Appended)
  BY Zenon, <1>1, <1>3, DiskInstalled
<1>4. CASE /\ \/ wtr.pc = "wdata" /\ wtr'.pc = "wdir"
              \/ wtr.pc = "wdir" /\ wtr'.pc = "wsb"
           /\ wtr'.tok = wtr.tok /\ wtr'.id = wtr.id /\ wtr'.sb = wtr.sb /\ wtr'.dir = wtr.dir
           /\ WriterTarget \in Blocks /\ disk[WriterTarget] = Outgoing /\ table' = table
  <2>1. PlanDirectory' = PlanDirectory /\ PlanSuperblock' = PlanSuperblock
    BY Zenon, <1>4 DEF PlanDirectory, PlanSuperblock
  <2>2. wtr.sb = disk[0]
    BY <1>0, <1>4 DEF AppendInv
  <2>3. ASSUME wtr.pc = "wdata" /\ wtr'.pc = "wdir" PROVE AppendInv'
    <3>1. wtr.sb.total \in Blocks /\ disk[wtr.sb.total] = Entry(wtr.id, wtr.tok, 0, FALSE)
      BY Zenon, <1>0, <1>4, <2>3, WriterBlockFacts
    <3>2. disk[DIR_BLOCK] = Directory(wtr.dir)
      BY Zenon, <1>0, <2>3 DEF AppendInv
    <3>3. wtr'.pc # "wdata" /\ wtr'.pc # "wsb"
      BY <2>3
    <3> QED
      BY Zenon, <1>1, <1>4, <2>2, <2>3, <3>1, <3>2, <3>3 DEF AppendInv
  <2>4. ASSUME wtr.pc = "wdir" /\ wtr'.pc = "wsb" PROVE AppendInv'
    <3>1. wtr.sb.total \in Blocks /\ disk[wtr.sb.total] = Entry(wtr.id, wtr.tok, 0, FALSE)
      BY <1>0, <2>4 DEF AppendInv
    <3>2. disk[DIR_BLOCK] = PlanDirectory
      BY Zenon, <1>0, <1>4, <2>4, WriterBlockFacts
    <3>3. wtr.sb.total >= DATA_START_BLOCK
      BY Zenon, <1>0, <2>2 DEF VolumeIn
    <3>4. \A k \in DOMAIN table : table[k].start < wtr.sb.total
      BY Zenon, <1>0, <2>2, IssueBacked
    <3>5. wtr'.pc \notin {"dir", "wdata", "wdir"} /\ wtr'.pc # "wdata" /\ wtr'.pc # "wdir"
      BY <2>4
    <3> QED
      BY Zenon, <1>1, <1>4, <2>1, <2>2, <2>4, <3>1, <3>2, <3>3, <3>4, <3>5 DEF AppendInv
  <2>5. AppendInv' /\ UpdateInv'
    <3>1. wtr'.pc \in {"wdir", "wsb"}
      BY <1>4
    <3>2. UpdateInv'
      BY <3>1 DEF UpdateInv
    <3> QED
      BY Zenon, <1>4, <2>3, <2>4, <3>2
  <2> QED
    BY Zenon, <1>0, <1>1, <1>4, <2>5, SameGrown, WriterDisk
<1> QED
  BY Zenon, <1>0, <1>2, <1>3, <1>4, AppendWrittenStep

-----------------------------------------------------------------------------
(* A write that reaches the medium.                                        *)
LEMMA KeptSame == ASSUME NEW d \in Disks, VolumeIn(d) PROVE KeptIn(d, d)
<1>1. d[0].entries \in Nat /\ \A i \in CommittedIn(d) : RecordIn(d, i).seen \in Nat
  BY Zenon, EntryFacts
<1>2. d[0].entries >= d[0].entries /\ \A i \in CommittedIn(d) : RecordIn(d, i).seen >= RecordIn(d, i).seen
  BY <1>1
<1> QED
  BY Zenon, <1>2 DEF KeptIn

LEMMA TableOnDisk ==
    ASSUME TableInv, table' = table, ldr'.pc = "release", CommittedIn(disk) \subseteq CommittedIn(disk'),
           \A k \in DOMAIN table : \A i \in CommittedIn(disk) :
              Backs(disk, i, table[k]) => Backs(disk', i, table[k])
    PROVE  TableInv'
<1>1. ldr'.pc \notin {"sb", "dir"} /\ ldr'.pc # "head"
  OBVIOUS
<1>2. \A k \in DOMAIN table' : \E i \in CommittedIn(disk') : Backs(disk', i, table'[k])
  BY Zenon DEF TableInv
<1>3. \A k, l \in DOMAIN table' : table'[k].start = table'[l].start => k = l
  BY Zenon DEF TableInv
<1> QED
  BY Zenon, <1>1, <1>2, <1>3 DEF TableInv

LEMMA TableUnharmed ==
    ASSUME TableInv, table' = table, ldr'.pc = "release", Unharmed(disk, disk') PROVE TableInv'
<1>1. \A k \in DOMAIN table : \A i \in CommittedIn(disk) :
         Backs(disk, i, table[k]) => Backs(disk', i, table[k])
  BY Zenon DEF Backs, Unharmed
<1>2. CommittedIn(disk) \subseteq CommittedIn(disk')
  BY Zenon DEF Unharmed
<1> QED
  BY Zenon, <1>1, <1>2, TableOnDisk

(* What one write has to show, and what it gives.                          *)
Landing == KbInv /\ WriteLands /\ IoInv' /\ ldr' = ldr /\ wtr' = wtr /\ table' = table

LEMMA LandingFacts ==
    ASSUME Landing
    PROVE  /\ KbType /\ LocalInv /\ TableInv /\ AppendInv /\ UpdateInv /\ disk \in Disks /\ VolumeIn(disk)
           /\ ldr.pc = "release" /\ LoadInv' /\ wtr.pc \in WtrWrites
           /\ WriterTarget \in Blocks /\ Outgoing \in Contents
           /\ disk' = [disk EXCEPT ![WriterTarget] = Outgoing]
           /\ PlanDirectory' = PlanDirectory /\ PlanSuperblock' = PlanSuperblock
           /\ disk[0].entries \in Nat /\ disk[0].total \in Nat /\ disk[0].total >= 2
<1>1. wtr.pc \in WtrWrites
  BY Zenon DEF Landing, WriteLands
<1>2. wtr.pc \notin {"take", "clear", "dirty"}
  BY <1>1 DEF WtrWrites
<1>3. ldr.pc = "release"
  BY Zenon, <1>2, WriterActive DEF Landing, KbInv
<1>4. ldr'.pc \notin {"dir", "head"} /\ ldr'.pc # "head"
  BY <1>3 DEF Landing
<1>5. LoadInv'
  BY Zenon, <1>4 DEF LoadInv
<1>6. PlanDirectory' = PlanDirectory /\ PlanSuperblock' = PlanSuperblock
  BY Zenon DEF PlanDirectory, PlanSuperblock, Landing
<1>7. KbType /\ LocalInv /\ TableInv /\ AppendInv /\ UpdateInv /\ disk \in Disks /\ VolumeIn(disk)
  BY Zenon DEF Landing, KbInv, IoInv, DiskInv, KbType, Disks, VolumeInv
<1>8. disk[0].entries \in Nat /\ disk[0].total \in Nat /\ disk[0].total >= 2
  BY Zenon, <1>7, EntryFacts
<1> QED
  BY Zenon, <1>1, <1>3, <1>5, <1>6, <1>7, <1>8 DEF Landing, WriteLands

LEMMA DataLands == ASSUME Landing, wtr.pc = "wdata" PROVE DiskInv' /\ KeptIn(disk, disk')
<1>0. /\ KbType /\ LocalInv /\ TableInv /\ AppendInv /\ disk \in Disks /\ VolumeIn(disk)
      /\ ldr.pc = "release" /\ LoadInv' /\ WriterTarget \in Blocks /\ Outgoing \in Contents
      /\ disk' = [disk EXCEPT ![WriterTarget] = Outgoing] /\ disk[0].total \in Nat
      /\ ldr' = ldr /\ wtr' = wtr /\ table' = table
  BY Zenon, LandingFacts DEF Landing
<1>1. wtr.sb = disk[0] /\ disk[DIR_BLOCK] = Directory(wtr.dir)
  BY <1>0 DEF AppendInv
<1>2. WriterTarget = disk[0].total
  BY Zenon, <1>0, <1>1, WriterBlockFacts
<1>3. WriterTarget >= disk[0].total
  BY <1>0, <1>2
<1>4. Unharmed(disk, disk') /\ disk'[0] = disk[0] /\ disk'[DIR_BLOCK] = disk[DIR_BLOCK]
  BY ZenonT(60), <1>0, <1>3, WriteData
<1>5. TableInv'
  BY Zenon, <1>0, <1>4, TableUnharmed
<1>6. AppendInv' /\ UpdateInv'
  <2>1. wtr'.sb = disk'[0] /\ disk'[DIR_BLOCK] = Directory(wtr'.dir) /\ wtr'.pc = "wdata"
    BY Zenon, <1>0, <1>1, <1>4
  <2> QED
    BY <2>1 DEF AppendInv, UpdateInv
<1> QED
  BY Zenon, <1>0, <1>4, <1>5, <1>6 DEF DiskInv, VolumeInv, Unharmed

LEMMA DirectoryLands == ASSUME Landing, wtr.pc = "wdir" PROVE DiskInv' /\ KeptIn(disk, disk')
<1>0. /\ KbType /\ LocalInv /\ TableInv /\ AppendInv /\ disk \in Disks /\ VolumeIn(disk)
      /\ ldr.pc = "release" /\ LoadInv'
      /\ disk' = [disk EXCEPT ![WriterTarget] = Outgoing] /\ disk[0].total \in Nat /\ disk[0].total >= 2
      /\ ldr' = ldr /\ wtr' = wtr /\ table' = table
      /\ PlanDirectory' = PlanDirectory /\ PlanSuperblock' = PlanSuperblock
  BY Zenon, LandingFacts DEF Landing
<1>1. /\ wtr.sb = disk[0] /\ disk[DIR_BLOCK] \in {Directory(wtr.dir), PlanDirectory}
      /\ wtr.sb.total \in Blocks /\ disk[wtr.sb.total] = Entry(wtr.id, wtr.tok, 0, FALSE)
  BY <1>0 DEF AppendInv
<1>2. WriterTarget = DIR_BLOCK /\ Outgoing = PlanDirectory
  BY Zenon, <1>0, WriterBlockFacts
<1>3. /\ wtr.dir \in DirMaps /\ PlanDirectory \in Directories
      /\ \A i \in Slots : i # wtr.sb.entries => PlanDirectory.ents[i] = wtr.dir[i]
  <2>1. wtr.pc \in {"wdata", "wdir", "wsb"}
    OBVIOUS
  <2> QED
    BY Zenon, <1>0, <2>1, PlanFacts
<1>4. ASSUME NEW i \in CommittedIn(disk) PROVE PlanDirectory.ents[i] = DirIn(disk, i)
  <2>1. i \in Slots /\ i \in Nat /\ i < disk[0].entries /\ disk[0].entries \in Nat
    BY Zenon, <1>0, EntryFacts
  <2>2. i # wtr.sb.entries
    BY <1>1, <2>1
  <2>3. CASE disk[DIR_BLOCK] = Directory(wtr.dir)
    <3>1. disk[DIR_BLOCK].ents = wtr.dir
      BY <2>3 DEF Directory
    <3> QED
      BY Zenon, <1>3, <2>1, <2>2, <3>1 DEF DirIn
  <2>4. CASE disk[DIR_BLOCK] = PlanDirectory
    BY Zenon, <2>4 DEF DirIn
  <2> QED
    BY <1>1, <2>3, <2>4
<1>5. /\ Unharmed(disk, disk') /\ disk'[DIR_BLOCK] = PlanDirectory
      /\ \A a \in Blocks : a # DIR_BLOCK => disk'[a] = disk[a]
  <2>1. disk' = [disk EXCEPT ![DIR_BLOCK] = PlanDirectory]
    BY Zenon, <1>0, <1>2
  <2>2. disk \in Disks /\ VolumeIn(disk) /\ PlanDirectory \in Directories
    BY <1>0, <1>3
  <2>3. Agrees(disk, PlanDirectory)
    BY Zenon, <1>4 DEF Agrees
  <2>4. Unharmed(disk, disk')
    BY Zenon, <2>1, <2>2, <2>3, WriteDirectory
  <2>5. DIR_BLOCK \in Blocks
    BY BlocksFacts
  <2> QED
    BY Zenon, <2>1, <2>2, <2>4, <2>5 DEF Disks
<1>6. TableInv'
  BY Zenon, <1>0, <1>5, TableUnharmed
<1>7. AppendInv' /\ UpdateInv'
  <2>1. disk'[0] = disk[0] /\ disk'[wtr.sb.total] = disk[wtr.sb.total]
    <3>1. 0 \in Blocks /\ 0 # DIR_BLOCK /\ wtr.sb.total # DIR_BLOCK
      BY <1>0, <1>1, BlocksFacts
    <3> QED
      BY Zenon, <1>1, <1>5, <3>1
  <2>2. /\ wtr'.sb = disk'[0] /\ disk'[DIR_BLOCK] = PlanDirectory' /\ wtr'.pc = "wdir"
        /\ wtr'.sb.total \in Blocks /\ disk'[wtr'.sb.total] = Entry(wtr'.id, wtr'.tok, 0, FALSE)
    BY Zenon, <1>0, <1>1, <1>5, <2>1
  <2>3. AppendInv'
    <3>1. wtr'.pc # "wdata" /\ wtr'.pc # "wsb"
      BY <2>2
    <3> QED
      BY Zenon, <2>2, <3>1 DEF AppendInv
  <2> QED
    BY <2>2, <2>3 DEF UpdateInv
<1> QED
  BY Zenon, <1>0, <1>5, <1>6, <1>7 DEF DiskInv, VolumeInv, Unharmed

LEMMA SuperblockLands == ASSUME Landing, wtr.pc = "wsb" PROVE DiskInv' /\ KeptIn(disk, disk')
<1>0. /\ KbInv /\ IoInv' /\ KbType /\ LocalInv /\ TableInv /\ AppendInv /\ disk \in Disks /\ VolumeIn(disk)
      /\ ldr.pc = "release" /\ LoadInv'
      /\ disk' = [disk EXCEPT ![WriterTarget] = Outgoing]
      /\ ldr' = ldr /\ wtr' = wtr /\ table' = table
      /\ PlanDirectory' = PlanDirectory /\ PlanSuperblock' = PlanSuperblock
  BY Zenon, LandingFacts DEF Landing
<1>1. disk' = [disk EXCEPT ![0] = PlanSuperblock]
  BY Zenon, <1>0, WriterBlockFacts
<1>2. CASE disk[0] = PlanSuperblock
  <2>1. disk' = disk
    BY Zenon, <1>0, <1>1, <1>2 DEF Disks
  <2> QED
    BY Zenon, <1>0, <2>1, SameGrown, DiskKept, KeptSame
<1>3. CASE disk[0] = wtr.sb
  <2> DEFINE n == wtr.sb.entries
             t == wtr.sb.total
             r == Entry(wtr.id, wtr.tok, 0, FALSE)
             x == PlanSuperblock
  <2>1. /\ n \in Slots /\ t \in Nat /\ wtr.id \in Nat /\ wtr.tok \in Causes
        /\ PlanDirectory.ents[n] = DirEntry(wtr.id, t, 1)
        /\ x \in Superblocks /\ x.entries = n + 1 /\ x.total = t + 1
    <3>1. wtr.pc \in {"wdata", "wdir", "wsb"}
      OBVIOUS
    <3>2. wtr.tok \in Causes
      BY <1>0, <3>1 DEF LocalInv, WriterLocals
    <3> QED
      BY Zenon, <1>0, <3>1, <3>2, PlanFacts
  <2>2. /\ t >= DATA_START_BLOCK /\ disk[DIR_BLOCK] = PlanDirectory /\ t \in Blocks /\ disk[t] = r
        /\ \A k \in DOMAIN table : table[k].start < t
    BY Zenon, <1>0 DEF AppendInv
  <2>3. r \in Records /\ r.id = wtr.id /\ r.seen <= SEEN_MAX
    <3>1. r \in Records /\ r.id = wtr.id /\ r.seen = 0
      BY <2>1, NewEntry
    <3> HIDE DEF r
    <3> QED
      BY <3>1, KbAssumption
  <2>4. n = disk[0].entries /\ t = disk[0].total /\ n < DIRENTS_PER_BLOCK
    <3>1. n = disk[0].entries /\ t = disk[0].total
      BY Zenon, <1>3
    <3>2. n < DIRENTS_PER_BLOCK
      BY <2>1, KbAssumption DEF Slots
    <3> QED
      BY <3>1, <3>2
  <2>5. DirIn(disk, n) = DirEntry(r.id, t, 1)
    BY Zenon, <2>1, <2>2, <2>3 DEF DirIn
  <2>6. disk' = [disk EXCEPT ![0] = x]
    BY <1>1
  <2> HIDE DEF n, t, r, x
  <2>7. \A e : e = [disk EXCEPT ![0] = x] =>
           /\ VolumeIn(e) /\ KeptIn(disk, e) /\ CommittedIn(disk) \subseteq CommittedIn(e)
           /\ e[0] = x /\ \A a \in Blocks : a # 0 => e[a] = disk[a]
           /\ \A i \in CommittedIn(disk) : DirIn(e, i) = DirIn(disk, i) /\ RecordIn(e, i) = RecordIn(disk, i)
    <3>1. /\ disk \in Disks /\ VolumeIn(disk) /\ t \in Blocks /\ r \in Records /\ x \in Superblocks
          /\ disk[t] = r /\ r.seen <= SEEN_MAX /\ x.entries = n + 1 /\ x.total = t + 1
      BY Zenon, <1>0, <2>1, <2>2, <2>3
    <3>2. Commits(disk, n, t, r, x)
      BY Zenon, <2>4, <2>5, <3>1 DEF Commits
    <3> QED
      BY Zenon, <3>2, WriteSuperblock
  <2>8. /\ VolumeIn(disk') /\ KeptIn(disk, disk') /\ CommittedIn(disk) \subseteq CommittedIn(disk')
        /\ disk'[0] = x /\ \A a \in Blocks : a # 0 => disk'[a] = disk[a]
        /\ \A i \in CommittedIn(disk) : DirIn(disk', i) = DirIn(disk, i) /\ RecordIn(disk', i) = RecordIn(disk, i)
    BY Zenon, <2>6, <2>7
  <2>9. TableInv'
    <3>1. \A k \in DOMAIN table : \A i \in CommittedIn(disk) :
             Backs(disk, i, table[k]) => Backs(disk', i, table[k])
      BY Zenon, <2>8 DEF Backs
    <3> QED
      BY Zenon, <1>0, <2>8, <3>1, TableOnDisk
  <2>10. AppendInv' /\ UpdateInv'
    <3>1. DIR_BLOCK \in Blocks /\ DIR_BLOCK # 0 /\ t # 0
      BY <2>1, <2>2, BlocksFacts
    <3>2. /\ wtr'.pc = "wsb" /\ disk'[0] = PlanSuperblock' /\ disk'[DIR_BLOCK] = PlanDirectory'
          /\ wtr'.sb.total >= DATA_START_BLOCK /\ wtr'.sb.total \in Blocks
          /\ disk'[wtr'.sb.total] = Entry(wtr'.id, wtr'.tok, 0, FALSE)
          /\ \A k \in DOMAIN table' : table'[k].start < wtr'.sb.total
      BY Zenon, <1>0, <2>2, <2>8, <3>1 DEF t, r, x
    <3>3. wtr'.pc \notin {"dir", "wdata", "wdir"} /\ wtr'.pc # "wdata" /\ wtr'.pc # "wdir"
      BY <3>2
    <3>4. AppendInv'
      BY Zenon, <3>2, <3>3 DEF AppendInv
    <3> QED
      BY <3>2, <3>4 DEF UpdateInv
  <2> QED
    BY Zenon, <1>0, <2>8, <2>9, <2>10 DEF DiskInv, VolumeInv
<1> QED
  BY <1>0, <1>2, <1>3 DEF AppendInv

LEMMA RecordLands == ASSUME Landing, wtr.pc = "wentry" PROVE DiskInv' /\ KeptIn(disk, disk')
<1>0. /\ KbType /\ LocalInv /\ TableInv /\ UpdateInv /\ disk \in Disks /\ VolumeIn(disk) /\ VolumeInv
      /\ ldr.pc = "release" /\ LoadInv' /\ wtr \in WtrRecords /\ table \in Seq(Issues)
      /\ disk' = [disk EXCEPT ![WriterTarget] = Outgoing]
      /\ ldr' = ldr /\ wtr' = wtr /\ table' = table
  BY Zenon, LandingFacts DEF Landing, KbType, VolumeInv
<1> DEFINE k == wtr.slot
           x == wtr.block
           s == table[k].start
<1>1. k \in DOMAIN table /\ x \in Records
  BY <1>0 DEF LocalInv, WriterLocals
<1>2. disk' = [disk EXCEPT ![s] = x]
  BY Zenon, <1>0, WriterBlockFacts
<1>3. PICK i \in CommittedIn(disk) : Backs(disk, i, table[k]) /\ disk[s] = RecordIn(disk, i)
  BY Zenon, <1>0, <1>1, IssueBacked
<1>4. s = DirIn(disk, i).start
  BY Zenon, <1>3 DEF Backs
<1>5. /\ wtr.seen <= table[k].seen /\ (wtr.escalated => table[k].escalated)
      /\ x.id = disk[s].id /\ x.cause = disk[s].cause /\ x.seen <= SEEN_MAX /\ x.seen <= wtr.seen
      /\ x.escalated = wtr.escalated /\ x.seen >= disk[s].seen
      /\ disk[s].escalated => wtr.escalated
  BY <1>0 DEF UpdateInv
<1>6. x.seen \in Nat /\ wtr.seen \in Nat /\ table[k].seen \in Nat
  BY Zenon, <1>0, <1>1, ContentsFacts, TableUpdates, IssueUpdates DEF WtrRecords
<1>7. x.seen <= table[k].seen /\ x.seen >= x.seen
  BY <1>5, <1>6
<1> HIDE DEF k, x
<1>8. Updated(disk, i, x, disk')
  <2>1. /\ x.id = RecordIn(disk, i).id /\ x.cause = RecordIn(disk, i).cause
        /\ x.seen >= RecordIn(disk, i).seen /\ x.seen <= SEEN_MAX
        /\ RecordIn(disk, i).escalated => x.escalated
    BY Zenon, <1>3, <1>5
  <2>2. disk \in Disks /\ VolumeIn(disk) /\ x \in Records
    BY Zenon, <1>0, <1>1
  <2>3. Updates(disk, i, s, x)
    BY Zenon, <1>4, <2>1, <2>2 DEF Updates
  <2> HIDE DEF s
  <2> QED
    BY Zenon, <1>2, <2>3, WriteRecord
<1>9. /\ VolumeIn(disk') /\ KeptIn(disk, disk') /\ CommittedIn(disk') = CommittedIn(disk)
      /\ RecordIn(disk', i) = x
      /\ \A j \in CommittedIn(disk) : DirIn(disk', j) = DirIn(disk, j)
      /\ \A j \in CommittedIn(disk) : j # i => RecordIn(disk', j) = RecordIn(disk, j)
  BY Zenon, <1>8 DEF Updated
<1>10. TableInv'
  <2>1. ASSUME NEW l \in DOMAIN table, NEW j \in CommittedIn(disk), Backs(disk, j, table[l])
        PROVE  Backs(disk', j, table[l])
    <3>1. CASE j # i
      BY Zenon, <1>9, <2>1, <3>1 DEF Backs
    <3>2. CASE j = i
      <4>1. l = k
        BY Zenon, <1>0, <1>1, <1>4, <2>1, <3>2 DEF Backs, TableInv
      <4>2. DirIn(disk', i).start = s
        BY Zenon, <1>4, <1>9
      <4>3. Backs(disk', i, table[k])
        BY <1>5, <1>6, <1>7, <1>9, <4>2 DEF Backs
      <4> QED
        BY Zenon, <3>2, <4>1, <4>3
    <3> QED
      BY <3>1, <3>2
  <2> QED
    BY Zenon, <1>0, <1>9, <2>1, TableOnDisk
<1>11. AppendInv' /\ UpdateInv'
  <2>1. disk'[s] = x
    BY Zenon, <1>4, <1>9 DEF RecordIn
  <2>2. UpdateInv'
    BY Zenon, <1>0, <1>5, <1>7, <2>1 DEF UpdateInv, k, x
  <2>3. wtr'.pc = "wentry"
    BY <1>0
  <2> QED
    BY <2>2, <2>3 DEF AppendInv
<1> QED
  BY Zenon, <1>0, <1>9, <1>10, <1>11 DEF DiskInv, VolumeInv

LEMMA DiskLands == ASSUME Landing PROVE DiskInv' /\ KeptIn(disk, disk')
<1>1. wtr.pc \in {"wdata", "wdir", "wsb", "wentry"}
  BY Zenon, LandingFacts DEF WtrWrites
<1> QED
  BY <1>1, DataLands, DirectoryLands, SuperblockLands, RecordLands

LEMMA DiskServe ==
    ASSUME KbInv, IoInv', NEW c \in Clients, Serve(c)
    PROVE  DiskInv' /\ (disk' = disk \/ KeptIn(disk, disk'))
<1>1. /\ ldr' = ldr /\ wtr' = wtr /\ table' = table /\ (disk' = disk \/ WriteLands) /\ KbType
  BY Zenon, ServeStep DEF KbInv, IoInv
<1>2. CASE disk' = disk
  BY Zenon, <1>1, <1>2, SameGrown, DiskKept
<1>3. CASE WriteLands
  <2>1. Landing
    BY Zenon, <1>1, <1>3 DEF Landing
  <2> QED
    BY Zenon, <2>1, DiskLands
<1> QED
  BY Zenon, <1>1, <1>2, <1>3

LEMMA DiskCrash == ASSUME KbInv, IoInv', NEW p \in Patients, Crash(p) PROVE DiskInv' /\ disk' = disk
<1>1. disk' = disk /\ ldr' = ldr /\ wtr' = wtr
  BY Zenon DEF Crash
<1>2. Grown
  BY Zenon, CrashFacts DEF KbInv, IoInv, KbType, Grown
<1> QED
  BY Zenon, <1>1, <1>2, DiskKept

(* Only the block server writes, and what it writes keeps the volume.      *)
LEMMA DiskNext ==
    ASSUME KbInv, IoInv', [Next]_vars
    PROVE  DiskInv' /\ (disk' = disk \/ KeptIn(disk, disk'))
<1>0. KbType
  BY Zenon DEF KbInv, IoInv
<1>1. CASE LoaderIssue \/ WriterReadIssue \/ WriterWriteIssue \/ UNCHANGED vars
  <2>1. disk' = disk /\ ldr' = ldr /\ wtr' = wtr /\ table' = table
    BY Zenon, <1>1 DEF LoaderIssue, WriterReadIssue, WriterWriteIssue, healVars, vars
  <2> QED
    BY Zenon, <1>0, <2>1, SameGrown, DiskKept
<1>2. ASSUME \/ CallGate \/ ServerRecv \/ Park("loader") \/ Park("writer")
             \/ \E p \in Patients : Patient(p) \/ Heal(p)
      PROVE  DiskInv' /\ disk' = disk
  <2>1. disk' = disk /\ ldr' = ldr /\ wtr' = wtr /\ table' = table
    BY Zenon, <1>2 DEF CallGate, ServerRecv, Park, Patient, GateRecv, GateReply, Heal, healVars
  <2> QED
    BY Zenon, <1>0, <2>1, SameGrown, DiskKept
<1>3. CASE LoaderSuperblock \/ LoaderDirectory \/ LoaderHead \/ LoaderScanned
  <2>1. disk' = disk
    BY Zenon, <1>3 DEF LoaderSuperblock, LoaderDirectory, LoaderHead, LoaderScanned
  <2> QED
    BY Zenon, <1>3, <2>1, DiskLoaderSuperblock, DiskLoaderDirectory, DiskLoaderHead, DiskLoaderScanned
<1>4. CASE TakeNovelRead \/ TakeNovelClear \/ AppendSuperblock \/ AppendDirectory \/ AppendWritten
  <2>1. disk' = disk
    BY Zenon, <1>4 DEF TakeNovelRead, TakeNovelClear, AppendSuperblock, AppendDirectory, AppendWritten
  <2> QED
    BY Zenon, <1>4, <2>1, DiskTakes, DiskAppendReads, DiskAppendWritten
<1>5. CASE DirtyEntry \/ DirtyFlag \/ PersistRead \/ PersistWritten
  <2>1. disk' = disk
    BY Zenon, <1>5 DEF DirtyEntry, DirtyFlag, PersistRead, PersistWritten
  <2> QED
    BY Zenon, <1>5, <2>1, DiskDirty, DiskPersist
<1>6. CASE PowerLoss
  <2>1. disk' = disk
    BY Zenon, <1>6 DEF PowerLoss
  <2>2. DiskInv'
    BY Zenon, <1>6, DiskPowerLoss
  <2> QED
    BY Zenon, <2>1, <2>2
<1>7. CASE Loader
  BY Zenon, <1>1, <1>2, <1>3, <1>7 DEF Loader
<1>8. CASE Writer
  BY Zenon, <1>1, <1>2, <1>4, <1>5, <1>8 DEF Writer
<1>9. CASE Server
  BY Zenon, <1>2, <1>9, DiskServe DEF Server
<1>10. CASE \E p \in Patients : Patient(p) \/ Crash(p) \/ Heal(p)
  BY Zenon, <1>2, <1>10, DiskCrash
<1> QED
  BY Zenon, <1>1, <1>6, <1>7, <1>8, <1>9, <1>10 DEF Next

LEMMA KbInvNext == KbInv /\ [Next]_vars => KbInv'
<1> SUFFICES ASSUME KbInv, [Next]_vars PROVE KbInv'
  OBVIOUS
<1>1. IoInv'
  BY Zenon, IoInvNext DEF KbInv
<1> QED
  BY Zenon, <1>1, DiskNext DEF KbInv

LEMMA KbInvAlways == Spec => []KbInv
<1>1. Init => KbInv
  BY Zenon, IoInvInit, DiskInit DEF KbInv
<1> QED
  BY <1>1, KbInvNext, PTL DEF Spec

(* Whatever is lost when power fails or a write reports an error, every    *)
(* entry the superblock counts lies inside the volume, overlaps no other   *)
(* and starts with a record of its name whose counter fits its field, for  *)
(* every set of files, patients, tokens and capacities (fs_append_file,    *)
(* set_seen_in_block).                                                     *)
THEOREM VolumeAlwaysSound == Spec => []VolumeSound
<1>1. KbInv => VolumeSound
  <2> SUFFICES ASSUME KbInv PROVE VolumeSound
    OBVIOUS
  <2>1. VolumeIn(disk) /\ disk \in Disks
    BY Zenon DEF KbInv, IoInv, KbType, DiskInv, VolumeInv, Disks
  <2>2. disk[0].kind = "sb" /\ disk[DIR_BLOCK].kind = "dir"
    BY Zenon, <2>1, ContentsFacts DEF VolumeIn
  <2>3. ASSUME NEW i \in Committed
        PROVE  /\ DirOf(i).start >= DATA_START_BLOCK
               /\ DirOf(i).start + DirOf(i).len <= disk[0].total
               /\ RecordOf(i).kind = "kb" /\ RecordOf(i).id = DirOf(i).name
               /\ RecordOf(i).seen <= SEEN_MAX
               /\ \A j \in Committed : j < i => DirOf(j).start + DirOf(j).len <= DirOf(i).start
    <3>1. SoundIn(disk, i)
      BY Zenon, <2>1 DEF VolumeIn, Committed, CommittedIn
    <3>2. RecordOf(i) \in Records
      BY Zenon, <3>1 DEF SoundIn, RecordOf, RecordIn, DirOf, DirIn
    <3>3. RecordOf(i).kind = "kb"
      BY <3>2 DEF Records
    <3> QED
      BY Zenon, <3>1, <3>3 DEF SoundIn, RecordOf, RecordIn, DirOf, DirIn, Committed, CommittedIn
  <2> QED
    BY Zenon, <2>2, <2>3 DEF VolumeSound
<1> QED
  BY <1>1, KbInvAlways, PTL

(* No step un-commits an entry, moves it, changes what it is about, lets   *)
(* its counter go back or takes back an escalation, power losses and       *)
(* failed writes included (fs_append_file, and the in-place update of the  *)
(* writer's dirty_entry loop).                                             *)
THEOREM CommittedAlwaysStays == Spec => CommittedStays
<1> DEFINE Stays ==
       /\ disk'[0].entries >= disk[0].entries
       /\ \A i \in Committed :
            /\ DirOf(i)' = DirOf(i)
            /\ RecordOf(i)'.cause = RecordOf(i).cause
            /\ RecordOf(i)'.seen >= RecordOf(i).seen
            /\ RecordOf(i).escalated => RecordOf(i)'.escalated
<1>1. KbInv /\ KbInv' /\ [Next]_vars => [Stays]_disk
  <2> SUFFICES ASSUME KbInv, KbInv', [Next]_vars, disk' # disk PROVE Stays
    OBVIOUS
  <2>1. KeptIn(disk, disk')
    BY Zenon, DiskNext DEF KbInv
  <2>2. ASSUME NEW i \in Committed
        PROVE  /\ DirOf(i)' = DirOf(i)
               /\ RecordOf(i)'.cause = RecordOf(i).cause
               /\ RecordOf(i)'.seen >= RecordOf(i).seen
               /\ RecordOf(i).escalated => RecordOf(i)'.escalated
    BY Zenon, <2>1 DEF KeptIn, RecordOf, RecordIn, DirOf, DirIn, Committed, CommittedIn
  <2> QED
    BY Zenon, <2>1, <2>2 DEF KeptIn
<1>2. Spec => [][Stays]_disk
  <2> HIDE DEF Stays
  <2> QED
    BY <1>1, KbInvAlways, PTL DEF Spec
<1> QED
  BY <1>2 DEF CommittedStays
=============================================================================
