----------------------------- MODULE MCMemory ------------------------------
(***************************************************************************)
(* An instance of Memory: three levels of four-entry tables, so 64 pages.  *)
(* From the bottom: two devices, the UART, the PLIC, the kernel's text,    *)
(* read-only data and data, the guard page, the boot stack, the user text, *)
(* the user stacks, and RAM.  There is room for two components, of which   *)
(* the third finds no frame: spaces are finished and memory runs out.      *)
(***************************************************************************)
EXTENDS Memory

CONSTANTS rtc, blk, needy, master

Kernel ==
    <<PageRange(8, 9, {"R", "X", "G"}), PageRange(9, 10, {"R", "G"}),
      PageRange(10, 12, {"R", "W", "G"}), PageRange(13, 14, {"R", "W", "G"}),
      PageRange(4, 5, {"R", "W", "G"}),
      PageRange(5, 6, {"R", "W", "G"}), PageRange(7, 8, {"R", "W", "G"})>>
Text == PageRange(14, 15, {})
StackOf ==
    [c \in Components |->
        CASE c = rtc -> PageRange(15, 16, {})
          [] c = blk -> PageRange(16, 18, {})
          [] c = needy -> PageRange(18, 19, {})]
DeviceOf ==
    [c \in Components |->
        CASE c = rtc -> PageRange(1, 2, {})
          [] c = blk -> PageRange(2, 3, {})
          [] c = needy -> PageRange(0, 0, {})]
Leftover == [i \in Indices |-> Pte(RamBase, {"R", "W", "X", "U", "A"})]
=============================================================================
