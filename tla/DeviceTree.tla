---------------------------- MODULE DeviceTree ----------------------------
(***************************************************************************)
(* What the kernel learns from the firmware's flattened device tree: the   *)
(* token walk of parse (arch/riscv64/src/dt.rs) and the lookups of         *)
(* virtio.rs in its result.                                                *)
(*                                                                         *)
(* A blob is a sequence of tokens.  A property keeps what the walk         *)
(* compares: its name, for compatible the device it names, for reg the     *)
(* address and the number of cells of the value.  A reg read with another  *)
(* number of address cells than it was written with is Mangled.            *)
(***************************************************************************)
EXTENDS Naturals, Sequences, SequencesExt, FiniteSetsExt

CONSTANTS
    IS_MEM_LEN,     \* the length of is_mem, by depth
    VIRTIO_SLOTS,   \* the length of virtio_mmio
    Mangled,        \* an address decoded with the wrong number of cells
    None            \* Rust's None

ASSUME DeviceTreeAssumption ==
    /\ IS_MEM_LEN \in Nat \ {0} /\ VIRTIO_SLOTS \in Nat \ {0}
    /\ None \notin Nat /\ Mangled \notin Nat /\ Mangled # None

Begin(name) == [tok |-> "begin", name |-> name]
EndOfNode == [tok |-> "end"]
Prop(name, val) == [tok |-> "prop", name |-> name, val |-> val]
Reg(addr, cells, len) == [addr |-> addr, cells |-> cells, len |-> len]
Nop == [tok |-> "nop"]
EndOfBlob == [tok |-> "finish"]

(* The per-node state the walk buffers until the node closes.              *)
FreshNode == [compatible |-> None, reg |-> None, irq |-> None, shift |-> 0]

ParserStart ==
    [depth |-> 0, isMem |-> {}, addrCells |-> 2, sizeCells |-> 2, node |-> FreshNode,
     ram |-> None, timebase |-> None, uart |-> None, rtc |-> None,
     virtio |-> << >>, plic |-> 0, done |-> FALSE]

UnwrapOr(v, default) == IF v = None THEN default ELSE v

-----------------------------------------------------------------------------
(* Mutant: the buffered state of the previous node is not reset.           *)
BeginNodeKeeps(p, name) ==
    LET d == p.depth + 1
    IN  [p EXCEPT !.depth = d,
                  !.isMem = IF d < IS_MEM_LEN /\ name = "memory" THEN @ \cup {d} ELSE @ \ {d},
                  !.node.compatible = None]

(* FDT_BEGIN_NODE                                                          *)
BeginNode(p, name) ==
    LET d == p.depth + 1
    IN  [p EXCEPT !.depth = d,
                  !.isMem = IF d < IS_MEM_LEN /\ name = "memory" THEN @ \cup {d} ELSE @ \ {d},
                  !.node = FreshNode]

(* FDT_END_NODE: commit the buffered node.  The buffer is not reset, so    *)
(* the end of a parent commits its last child again.                       *)
EndNode(p) ==
    LET n == p.node
        is(device) == n.compatible = device /\ n.reg # None
        slot == [base |-> n.reg, irq |-> UnwrapOr(n.irq, 0)]
    IN  IF p.depth = 0 THEN None
        ELSE [p EXCEPT
                !.depth = @ - 1,
                !.uart = IF is("uart") /\ @ = None
                         THEN [base |-> n.reg, shift |-> n.shift, irq |-> UnwrapOr(n.irq, 0)]
                         ELSE @,
                !.rtc = IF is("rtc") /\ @ = None THEN n.reg ELSE @,
                !.virtio = IF is("virtio") /\ Len(@) < VIRTIO_SLOTS THEN Append(@, slot) ELSE @,
                !.plic = IF is("plic") THEN n.reg ELSE @]

(* reg, decoded with the root's cell counts.                               *)
ReadReg(p, reg) ==
    LET base == IF reg.cells = p.addrCells THEN reg.addr ELSE Mangled
    IN  IF reg.len < p.addrCells THEN p
        ELSE [p EXCEPT !.node.reg = base,
                       !.ram = IF p.depth \in p.isMem /\ reg.len >= p.addrCells + p.sizeCells
                               THEN base ELSE @]

(* FDT_PROP                                                                *)
ReadProp(p, name, val) ==
    CASE name = "#address-cells" /\ p.depth = 1 -> [p EXCEPT !.addrCells = val]
      [] name = "#size-cells" /\ p.depth = 1 -> [p EXCEPT !.sizeCells = val]
      [] name = "timebase-frequency" -> [p EXCEPT !.timebase = val]
      [] name = "reg" -> ReadReg(p, val)
      [] name = "compatible" -> [p EXCEPT !.node.compatible = val]
      [] name = "interrupts" -> [p EXCEPT !.node.irq = val]
      [] name = "reg-shift" -> [p EXCEPT !.node.shift = val]
      [] OTHER -> p

(* One turn of the loop.  Once it has returned or broken out, the rest of  *)
(* the blob is not read.                                                   *)
Turn(p, token) ==
    CASE p = None -> None
      [] p # None /\ p.done -> p
      [] OTHER ->
         CASE token.tok = "begin" -> BeginNode(p, token.name)
           [] token.tok = "end" -> EndNode(p)
           [] token.tok = "prop" -> ReadProp(p, token.name, token.val)
           [] token.tok = "nop" -> p
           [] token.tok = "finish" -> [p EXCEPT !.done = TRUE]
           [] OTHER -> None

(* parse: None also when the blob ends before FDT_END or a required value  *)
(* is missing.  A missing PLIC is not: its base is 0.                      *)
Parse(blob) ==
    LET walk[i \in 0 .. Len(blob)] == IF i = 0 THEN ParserStart ELSE Turn(walk[i - 1], blob[i])
        p == walk[Len(blob)]
    IN  IF p = None \/ ~p.done \/ p.uart = None \/ p.ram = None \/ p.timebase = None \/ p.rtc = None
        THEN None
        ELSE [ram |-> p.ram, timebase |-> p.timebase, uart |-> p.uart, rtc |-> p.rtc,
              virtio |-> p.virtio, plic |-> p.plic]

-----------------------------------------------------------------------------
(* find_device: the base of the first slot that answers with the device's  *)
(* id; ids is what the DeviceID register at each base reads.               *)
FindDevice(virtio, ids, id) ==
    LET found == {i \in DOMAIN virtio : virtio[i].base # 0 /\ ids[virtio[i].base] = id}
    IN  IF found = {} THEN None ELSE virtio[Min(found)].base

(* Mutant: the IRQ of the first slot, whatever the position of the base.   *)
IrqOfFirst(virtio, base) ==
    IF \E i \in DOMAIN virtio : virtio[i].base = base THEN virtio[1].irq ELSE None

(* irq_for_base: the IRQ at the first position the base is found at.       *)
IrqForBase(virtio, base) ==
    LET found == {i \in DOMAIN virtio : virtio[i].base = base}
    IN  IF found = {} THEN None ELSE virtio[Min(found)].irq
=============================================================================
