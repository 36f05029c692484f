---------------------------- MODULE FlashGeometry ----------------------------
(***************************************************************************)
(* The address arithmetic of flash/at91flash.c: erase blocks, positions,   *)
(* and the search for the first good block that the read and the write     *)
(* handler share.  Pure operators; the loop itself is module BlockScan.    *)
(***************************************************************************)
EXTENDS Integers

CONSTANTS
  EraseSize,   \* mtd->erasesize: bytes of one erase block
  EbCnt        \* ebcnt: number of erase blocks, mtd->size / mtd->erasesize

ASSUME GeometryAssumption ==
  /\ EraseSize \in Nat \ {0}
  /\ EbCnt \in Nat \ {0}

Size  == EbCnt * EraseSize
Block == 0 .. EbCnt - 1
Addr  == 0 .. Size - 1

(* do_div(tmp, mtd->erasesize): tmp becomes the quotient, the value of the *)
(* macro is the remainder (blockoffset).                                   *)
BlockOf(p)  == p \div EraseSize
OffsetIn(p) == p % EraseSize

StartOf(b) == b * EraseSize
CellsOf(b) == StartOf(b) .. StartOf(b + 1) - 1

(* The good blocks at or after the one p lies in. *)
GoodFrom(p, bad) == { b \in BlockOf(p) .. EbCnt - 1 : b \notin bad }
Found(p, bad)    == GoodFrom(p, bad) # {}
FirstGood(p, bad) ==
  CHOOSE b \in GoodFrom(p, bad) : \A x \in GoodFrom(p, bad) : b <= x

(* Where the search leaves *ppos: unmoved when p is beyond the device or   *)
(* in a good block, else at the start of the block it stopped at.          *)
Landing(p, bad) ==
  IF BlockOf(p) >= EbCnt THEN p
  ELSE IF ~Found(p, bad) THEN Size
  ELSE IF FirstGood(p, bad) = BlockOf(p) THEN p
  ELSE StartOf(FirstGood(p, bad))

(* The blocks whose bbt entry the search refreshes: every one it looks at. *)
Scanned(p, bad) ==
  BlockOf(p) .. (IF Found(p, bad) THEN FirstGood(p, bad) ELSE EbCnt - 1)
==============================================================================
