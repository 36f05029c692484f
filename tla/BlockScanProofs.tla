--------------------------- MODULE BlockScanProofs ---------------------------
(***************************************************************************)
(* The search loop of at91flash.c computes Landing and FirstGood, for      *)
(* every geometry, every set of bad blocks and every starting position.    *)
(***************************************************************************)
EXTENDS BlockScan, TLAPS

(* The address arithmetic the search rests on. *)

(* Multiplication by a natural number is monotone. *)
LEMMA MulMono ==
  ASSUME NEW a \in Int, NEW b \in Int, NEW e \in Nat, a <= b
  PROVE  a * e <= b * e
  BY SMT

(* A position lies within the block do_div finds for it. *)
LEMMA DivBounds ==
  ASSUME NEW p \in Nat
  PROVE  /\ BlockOf(p) \in Nat
         /\ StartOf(BlockOf(p)) \in Nat
         /\ StartOf(BlockOf(p)) <= p
         /\ p < StartOf(BlockOf(p) + 1)
         /\ StartOf(BlockOf(p) + 1) = StartOf(BlockOf(p)) + EraseSize
  BY GeometryAssumption, SMT DEF BlockOf, StartOf

(* do_div takes the start of a block back to the block. *)
LEMMA BlockOfStart ==
  ASSUME NEW b \in Nat
  PROVE  /\ StartOf(b) \in Nat
         /\ BlockOf(StartOf(b)) = b
  BY GeometryAssumption, SMT DEF BlockOf, StartOf

(* Block numbers and positions are ordered alike. *)
LEMMA BlockOfMono ==
  ASSUME NEW p \in Nat, NEW q \in Nat, p <= q
  PROVE  BlockOf(p) <= BlockOf(q)
<1> DEFINE b == BlockOf(p)
           c == BlockOf(q)
<1>1. /\ b \in Nat /\ c \in Nat
      /\ StartOf(b) <= p
      /\ q < StartOf(c + 1)
  BY DivBounds
<1>2. SUFFICES ASSUME c + 1 <= b
               PROVE  FALSE
  BY <1>1
<1>3. StartOf(c + 1) <= StartOf(b)
  BY <1>1, <1>2, MulMono, GeometryAssumption DEF StartOf
<1> QED
  BY <1>1, <1>3, GeometryAssumption, SMT DEF StartOf

(* ebnum >= ebcnt holds exactly of the positions at or past mtd->size. *)
LEMMA BeyondSize ==
  ASSUME NEW p \in Nat
  PROVE  /\ Size \in Nat
         /\ BlockOf(Size) = EbCnt
         /\ BlockOf(p) >= EbCnt <=> p >= Size
<1>1. Size \in Nat /\ BlockOf(Size) = EbCnt
  BY BlockOfStart, GeometryAssumption DEF Size, StartOf
<1>2. ASSUME BlockOf(p) >= EbCnt PROVE p >= Size
  <2>1. BlockOf(p) \in Nat /\ StartOf(BlockOf(p)) <= p
    BY DivBounds
  <2>2. EbCnt * EraseSize <= BlockOf(p) * EraseSize
    BY <1>2, <2>1, MulMono, GeometryAssumption
  <2> QED
    BY <1>1, <2>1, <2>2, GeometryAssumption, SMT DEF StartOf, Size
<1>3. ASSUME p >= Size PROVE BlockOf(p) >= EbCnt
  BY <1>1, <1>3, BlockOfMono
<1> QED
  BY <1>1, <1>2, <1>3, DivBounds, GeometryAssumption

(* A block that is good and has only bad blocks between it and a position  *)
(* is the one the search is to find.                                       *)
LEMMA FirstGoodIs ==
  ASSUME NEW p \in Nat, NEW B, NEW b \in GoodFrom(p, B),
         \A x \in BlockOf(p) .. b - 1 : x \in B
  PROVE  Found(p, B) /\ FirstGood(p, B) = b
<1>1. \A x \in GoodFrom(p, B) : b <= x
  BY DivBounds, GeometryAssumption DEF GoodFrom
<1>2. \A y \in GoodFrom(p, B) :
        (\A x \in GoodFrom(p, B) : y <= x) => y = b
  BY <1>1, DivBounds, GeometryAssumption DEF GoodFrom
<1> QED
  BY <1>1, <1>2 DEF Found, FirstGood
------------------------------------------------------------------------------
LEMMA ScanInit == Init => ScanInv
<1> SUFFICES ASSUME Init PROVE ScanInv
  OBVIOUS
<1>1. TypeOK
  BY MaxPosAssumption DEF Init, TypeOK
<1>2. Passed
  BY <1>1, DivBounds DEF Init, TypeOK, Passed
<1> QED
  BY <1>1, <1>2 DEF Init, ScanInv

(* A bad block is passed: the position moves on to the start of the next.  *)
LEMMA SkipBadStep == ScanInv /\ SkipBad => ScanInv'
<1> SUFFICES ASSUME ScanInv, SkipBad PROVE ScanInv'
  OBVIOUS
<1> USE DEF ScanInv, TypeOK
<1> DEFINE b == BlockOf(ppos)
<1>1. /\ b \in Block /\ b \in Nat /\ b + 1 \in Nat
      /\ ebnum' = b
      /\ ppos' = StartOf(b + 1)
      /\ UNCHANGED << bad, start >>
  BY DivBounds, GeometryAssumption DEF SkipBad, NextStart, Block
<1>2. /\ ppos' \in Nat
      /\ BlockOf(ppos') = b + 1
      /\ ppos < ppos'
  BY <1>1, BlockOfStart, DivBounds
<1>3. BlockOf(start) \in Nat /\ BlockOf(start) <= b
  BY DivBounds DEF Passed
<1>4. Passed'
  <2>1. start <= ppos' /\ BlockOf(start) < BlockOf(ppos')
    BY <1>1, <1>2, <1>3 DEF Passed
  <2>2. \A x \in BlockOf(start) .. BlockOf(ppos') - 1 : x \in bad
    BY <1>1, <1>2, <1>3 DEF Passed, SkipBad
  <2> QED
    BY <1>1, <1>2, <1>3, <2>1, <2>2 DEF Passed
<1>5. CASE ppos' >= Size
  <2>1. outcome' = "eof"
    BY <1>5 DEF SkipBad
  <2>2. b + 1 >= EbCnt
    BY <1>2, <1>5, BeyondSize
  <2>3. b + 1 = EbCnt
    BY <1>1, <2>2, GeometryAssumption DEF Block
  <2>4. ppos' = Size
    BY <1>1, <2>3 DEF Size, StartOf
  <2> QED
    BY <1>1, <1>2, <1>3, <1>4, <2>1, <2>3, <2>4, GeometryAssumption
<1>6. CASE ~(ppos' >= Size)
  <2>1. outcome' = "run"
    BY <1>6 DEF SkipBad
  <2>2. BlockOf(ppos') < EbCnt
    BY <1>1, <1>2, <1>6, BeyondSize, GeometryAssumption
  <2> QED
    BY <1>1, <1>2, <1>4, <2>1, <2>2
<1> QED
  BY <1>5, <1>6

LEMMA ScanStep == ScanInv /\ [Next]_vars => ScanInv'
<1> SUFFICES ASSUME ScanInv, [Next]_vars PROVE ScanInv'
  OBVIOUS
<1>1. CASE BeyondDevice
  <2>1. BlockOf(ppos) \in Nat
    BY DivBounds DEF ScanInv, TypeOK
  <2>2. ppos = start
    BY <1>1, <2>1, GeometryAssumption DEF ScanInv, BeyondDevice
  <2> QED
    BY <1>1, <2>1, <2>2 DEF ScanInv, TypeOK, Passed, BeyondDevice
<1>2. CASE SkipBad
  BY <1>2, SkipBadStep
<1>3. CASE StopAtGood
  <2>1. BlockOf(ppos) \in Nat
    BY DivBounds DEF ScanInv, TypeOK
  <2> QED
    BY <1>3, <2>1, GeometryAssumption
       DEF ScanInv, TypeOK, Passed, StopAtGood, Block
<1>4. CASE UNCHANGED vars
  BY <1>4 DEF vars, ScanInv, TypeOK, Passed
<1> QED
  BY <1>1, <1>2, <1>3, <1>4 DEF Next

(* What the invariant says of a loop that has ended is the closed form.    *)
LEMMA ScanInvImplies == ScanInv => ScanCorrect
<1> SUFFICES ASSUME ScanInv, outcome # "run"
             PROVE  /\ ppos = Landing(start, bad)
                    /\ (outcome = "found") <=> Found(start, bad)
                    /\ (outcome = "found") => (ebnum = FirstGood(start, bad))
                    /\ (outcome = "beyond") <=> (BlockOf(start) >= EbCnt)
  BY DEF ScanCorrect
<1> USE DEF ScanInv, TypeOK
<1>1. /\ BlockOf(start) \in Nat /\ BlockOf(ppos) \in Nat
      /\ BlockOf(start) <= BlockOf(ppos)
      /\ EbCnt \in Nat
  BY DivBounds, GeometryAssumption DEF Passed
<1>2. CASE outcome = "found"
  <2>1. /\ ebnum = BlockOf(ppos) /\ ebnum \in Nat /\ ebnum < EbCnt
        /\ ebnum \notin bad
    BY <1>1, <1>2 DEF Block
  <2>2. ebnum \in GoodFrom(start, bad)
    BY <1>1, <2>1 DEF GoodFrom
  <2>3. \A x \in BlockOf(start) .. ebnum - 1 : x \in bad
    BY <2>1 DEF Passed
  <2>4. Found(start, bad) /\ FirstGood(start, bad) = ebnum
    BY <2>2, <2>3, FirstGoodIs
  <2>5. BlockOf(start) < EbCnt
    BY <1>1, <2>1
  <2>6. ppos = Landing(start, bad)
    BY <1>1, <2>1, <2>4, <2>5 DEF Landing, Passed
  <2> QED
    BY <1>1, <1>2, <2>4, <2>5, <2>6
<1>3. CASE outcome = "beyond"
  BY <1>1, <1>3 DEF Landing, Found, GoodFrom
<1>4. CASE outcome = "eof"
  <2>1. BlockOf(ppos) = EbCnt
    BY <1>4, BeyondSize
  <2>2. ~ Found(start, bad)
    BY <1>1, <2>1 DEF Passed, Found, GoodFrom
  <2> QED
    BY <1>1, <1>4, <2>2 DEF Landing
<1> QED
  BY <1>2, <1>3, <1>4

(* Every block the loop has passed was bad, and it has moved to the start  *)
(* of a block or not at all: at each iteration, for every geometry.        *)
THEOREM ScanInvariant == Spec => []ScanInv
<1>1. ScanInv /\ [Next]_vars => ScanInv'
  BY ScanStep
<1> QED BY ScanInit, <1>1, PTL DEF Spec

(* Whatever the search starts from, it ends at the least good block at or  *)
(* after it, and moves *ppos over bad blocks only (at91flash.c:152-179,    *)
(* and the three copies of that loop).                                     *)
THEOREM ScanIsCorrect == Spec => []ScanCorrect
<1> QED BY ScanInvariant, ScanInvImplies, PTL
==============================================================================
