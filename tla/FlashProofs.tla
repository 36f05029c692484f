----------------------------- MODULE FlashProofs -----------------------------
(***************************************************************************)
(* The flash driver, for any geometry, clients, lengths, failures and      *)
(* bounds: its invariants, that it implements FlashStore, and what its     *)
(* calls do to the bytes.  NamedInv says which blocks a write may still be *)
(* about, whatever fails; TrackedInv what an undisturbed call has moved at *)
(* each of its points.                                                     *)
(***************************************************************************)
EXTENDS FlashCalls, WellFoundedInduction, TLAPS

(* Facts about the address arithmetic, for every erase size and every      *)
(* number of blocks.                                                       *)

(* Multiplication by a natural number is monotone. *)
LEMMA MulMono ==
  ASSUME NEW a \in Int, NEW b \in Int, NEW e \in Nat, a <= b
  PROVE  a * e <= b * e
  BY SMT

(* A position lies within the block do_div finds for it. *)
LEMMA DivBounds ==
  ASSUME NEW p \in Nat
  PROVE  /\ BlockOf(p) \in Nat
         /\ StartOf(BlockOf(p)) \in Nat
         /\ StartOf(BlockOf(p)) <= p
         /\ p < StartOf(BlockOf(p) + 1)
         /\ StartOf(BlockOf(p) + 1) = StartOf(BlockOf(p)) + EraseSize
  BY GeometryAssumption, SMT DEF BlockOf, StartOf

(* do_div takes the start of a block back to the block. *)
LEMMA BlockOfStart ==
  ASSUME NEW b \in Nat
  PROVE  /\ StartOf(b) \in Nat
         /\ BlockOf(StartOf(b)) = b
  BY GeometryAssumption, SMT DEF BlockOf, StartOf

(* The remainder of do_div is the distance to the start of the block. *)
LEMMA OffsetBounds ==
  ASSUME NEW p \in Nat
  PROVE  /\ OffsetIn(p) \in 0 .. EraseSize - 1
         /\ p = StartOf(BlockOf(p)) + OffsetIn(p)
  BY GeometryAssumption, SMT DEF BlockOf, StartOf, OffsetIn

(* Block numbers and positions are ordered alike. *)
LEMMA BlockOfMono ==
  ASSUME NEW p \in Nat, NEW q \in Nat, p <= q
  PROVE  BlockOf(p) <= BlockOf(q)
<1> DEFINE b == BlockOf(p)
           c == BlockOf(q)
<1>1. /\ b \in Nat /\ c \in Nat
      /\ StartOf(b) <= p
      /\ q < StartOf(c + 1)
  BY DivBounds
<1>2. SUFFICES ASSUME c + 1 <= b
               PROVE  FALSE
  BY <1>1
<1>3. StartOf(c + 1) <= StartOf(b)
  BY <1>1, <1>2, MulMono, GeometryAssumption DEF StartOf
<1> QED
  BY <1>1, <1>3, GeometryAssumption, SMT DEF StartOf

(* ebnum >= ebcnt holds exactly of the positions at or past mtd->size. *)
LEMMA BeyondSize ==
  ASSUME NEW p \in Nat
  PROVE  /\ Size \in Nat
         /\ BlockOf(Size) = EbCnt
         /\ BlockOf(p) >= EbCnt <=> p >= Size
<1>1. Size \in Nat /\ BlockOf(Size) = EbCnt
  BY BlockOfStart, GeometryAssumption DEF Size, StartOf
<1>2. ASSUME BlockOf(p) >= EbCnt PROVE p >= Size
  <2>1. BlockOf(p) \in Nat /\ StartOf(BlockOf(p)) <= p
    BY DivBounds
  <2>2. EbCnt * EraseSize <= BlockOf(p) * EraseSize
    BY <1>2, <2>1, MulMono, GeometryAssumption
  <2> QED
    BY <1>1, <2>1, <2>2, GeometryAssumption, SMT DEF StartOf, Size
<1>3. ASSUME p >= Size PROVE BlockOf(p) >= EbCnt
  BY <1>1, <1>3, BlockOfMono
<1> QED
  BY <1>1, <1>2, <1>3, DivBounds, GeometryAssumption

(* A block that is good and has only bad blocks between it and a position  *)
(* is the one the search is to find.                                       *)
LEMMA FirstGoodIs ==
  ASSUME NEW p \in Nat, NEW B, NEW b \in GoodFrom(p, B),
         \A x \in BlockOf(p) .. b - 1 : x \in B
  PROVE  Found(p, B) /\ FirstGood(p, B) = b
<1>1. \A x \in GoodFrom(p, B) : b <= x
  BY DivBounds, GeometryAssumption DEF GoodFrom
<1>2. \A y \in GoodFrom(p, B) :
        (\A x \in GoodFrom(p, B) : y <= x) => y = b
  BY <1>1, DivBounds, GeometryAssumption DEF GoodFrom
<1> QED
  BY <1>1, <1>2 DEF Found, FirstGood

(* A non-empty set of natural numbers has a least element. *)
LEMMA LeastNat ==
  ASSUME NEW T \in SUBSET Nat, T # {}
  PROVE  \E x \in T : \A y \in T : x <= y
<1> DEFINE R == { ss \in Nat \X Nat : ss[1] < ss[2] }
<1>1. IsWellFoundedOn(R, Nat)
  BY NatLessThanWellFounded DEF OpToRel
<1>2. PICK x \in T : \A y \in T : ~ (<< y, x >> \in R)
  <2> HIDE DEF R
  <2> QED
    BY <1>1, WFMin
<1>3. ASSUME NEW y \in T PROVE x <= y
  <2>1. x \in Nat /\ y \in Nat
    OBVIOUS
  <2>2. y < x => << y, x >> \in R
    BY <2>1
  <2> QED
    BY <1>2, <2>1, <2>2
<1> QED
  BY <1>3

(* When there is a good block at or after p, the CHOOSE of FirstGood is    *)
(* one, and no other is before it.                                         *)
LEMMA FirstGoodExists ==
  ASSUME NEW p \in Nat, NEW B, Found(p, B)
  PROVE  /\ FirstGood(p, B) \in GoodFrom(p, B)
         /\ \A x \in GoodFrom(p, B) : FirstGood(p, B) <= x
<1>1. GoodFrom(p, B) \in SUBSET Nat
  BY DivBounds DEF GoodFrom
<1>2. PICK b \in GoodFrom(p, B) : \A x \in GoodFrom(p, B) : b <= x
  BY <1>1, LeastNat DEF Found
<1> QED
  BY <1>2 DEF FirstGood
------------------------------------------------------------------------------

(* The least of two or three numbers. *)
LEMMA LeastOf ==
  ASSUME NEW S \in SUBSET Int, NEW a \in Int, NEW b \in Int, NEW d \in Int,
         S = {a, b} \/ S = {a, b, d}
  PROVE  /\ Least(S) \in S
         /\ \A y \in S : Least(S) <= y
<1>1. \E x \in S : \A y \in S : x <= y
  <2>1. CASE S = {a, b}
    BY <2>1
  <2>2. CASE S = {a, b, d}
    <3>1. CASE a <= b /\ a <= d
      BY <2>2, <3>1
    <3>2. CASE b <= a /\ b <= d
      BY <2>2, <3>2
    <3>3. CASE d <= a /\ d <= b
      BY <2>2, <3>3
    <3> QED
      BY <3>1, <3>2, <3>3
  <2> QED
    BY <2>1, <2>2
<1> QED
  BY <1>1 DEF Least

(* A position inside the partition lies in one of its blocks, which ends   *)
(* inside the partition.                                                   *)
LEMMA InsideBlock ==
  ASSUME NEW p \in Nat, BlockOf(p) < EbCnt
  PROVE  /\ BlockOf(p) \in Block
         /\ p < Size
         /\ OffsetIn(p) \in InBlock
         /\ p = StartOf(BlockOf(p)) + OffsetIn(p)
         /\ StartOf(BlockOf(p) + 1) = StartOf(BlockOf(p)) + EraseSize
<1>1. BlockOf(p) \in Block
  BY DivBounds, GeometryAssumption DEF Block
<1>2. p < Size
  BY DivBounds, BeyondSize, GeometryAssumption
<1> QED
  BY <1>1, <1>2, DivBounds, OffsetBounds DEF InBlock

(* The search leaves *ppos in the block it found, or past the partition.   *)
LEMMA LandingFacts ==
  ASSUME NEW p \in Nat, NEW B \in SUBSET Block
  PROVE  /\ Landing(p, B) \in Nat
         /\ Found(p, B) => /\ FirstGood(p, B) \in Block
                           /\ BlockOf(Landing(p, B)) = FirstGood(p, B)
                           /\ Landing(p, B) < Size
<1>1. BlockOf(p) \in Nat /\ Size \in Nat
  BY DivBounds, BeyondSize
<1>2. CASE ~ Found(p, B)
  BY <1>1, <1>2 DEF Landing
<1>3. CASE Found(p, B)
  <2> DEFINE b == FirstGood(p, B)
  <2>1. b \in GoodFrom(p, B)
    BY <1>3, FirstGoodExists
  <2>2. b \in Nat /\ b \in Block /\ b < EbCnt /\ BlockOf(p) <= b
    BY <1>1, <2>1, GeometryAssumption DEF GoodFrom, Block
  <2>3. BlockOf(p) < EbCnt
    BY <1>1, <2>2, GeometryAssumption
  <2>4. StartOf(b) \in Nat /\ BlockOf(StartOf(b)) = b
    BY <2>2, BlockOfStart
  <2>5. Landing(p, B) = IF b = BlockOf(p) THEN p ELSE StartOf(b)
    BY <1>1, <1>3, <2>3, GeometryAssumption DEF Landing
  <2>6. Landing(p, B) \in Nat /\ BlockOf(Landing(p, B)) = b
    BY <2>4, <2>5
  <2>7. Landing(p, B) < Size
    BY <2>2, <2>6, BeyondSize, GeometryAssumption
  <2> QED
    BY <2>2, <2>6, <2>7
<1> QED
  BY <1>2, <1>3

LEMMA ScannedBlocks ==
  ASSUME NEW p \in Nat, NEW B \in SUBSET Block
  PROVE  Scanned(p, B) \subseteq Block
<1>1. BlockOf(p) \in Nat
  BY DivBounds
<1>2. Found(p, B) => FirstGood(p, B) \in Block
  BY LandingFacts
<1> QED
  BY <1>1, <1>2, GeometryAssumption DEF Scanned, Block
------------------------------------------------------------------------------
(* The step of one call, whatever its action. *)

Surroundings ==
  /\ cell' \in [Addr -> Byte]
  /\ bad' \in SUBSET Block
  /\ bbt' \in SUBSET Block
  /\ calls' \in 0 .. MaxCalls
  /\ mtdFaults' \in 0 .. MaxMtdFaults
  /\ memFaults' \in 0 .. MaxMemFaults

(* A call that goes on to w with locals k keeps the invariant if it owns   *)
(* its buffer at w exactly when it should, and knows of k what w needs.    *)
LEMMA CallStep ==
  ASSUME FlashInv, NEW c \in Client, NEW k \in Call, NEW p \in Nat, NEW w \in At,
         pc' = [pc EXCEPT ![c] = w],
         pos' = [pos EXCEPT ![c] = p],
         call' = [call EXCEPT ![c] = k],
         heap' = IF w \in OwnsBuffer THEN heap \cup {c} ELSE heap \ {c},
         Knows(w, k, p),
         Surroundings
  PROVE  FlashInv'
<1>1. TypeOK'
  BY DEF FlashInv, TypeOK, Surroundings
<1>2. NoLeak'
  BY DEF FlashInv, TypeOK, NoLeak
<1>3. \A d \in Client : Knows(pc'[d], call'[d], pos'[d])
  BY DEF FlashInv, TypeOK
<1> QED
  BY <1>1, <1>2, <1>3 DEF FlashInv

LEMMA Returns ==
  ASSUME FlashInv, NEW c \in Client, NEW k \in Call, NEW p \in Nat, NEW r \in Int,
         Return(c, k, p, r),
         heap' = heap \ {c},
         Surroundings
  PROVE  FlashInv'
<1> DEFINE j == [k EXCEPT !.ret = r]
<1>1. j \in Call
  BY DEF Call
<1>2. Knows("done", j, p)
  BY DEF Knows, ReadAt, WriteAt
<1>3. "done" \in At /\ "done" \notin OwnsBuffer
  BY DEF At, OwnsBuffer
<1> HIDE DEF j
<1>4. /\ pc' = [pc EXCEPT ![c] = "done"]
      /\ pos' = [pos EXCEPT ![c] = p]
      /\ call' = [call EXCEPT ![c] = j]
  BY DEF Return, Goto, MoveTo, j
<1> QED
  BY <1>1, <1>2, <1>3, <1>4, CallStep

LEMMA FreeReturns ==
  ASSUME FlashInv, NEW c \in Client, NEW k \in Call, NEW p \in Nat, NEW r \in Int,
         FreeReturn(c, k, p, r),
         Surroundings
  PROVE  FlashInv'
<1>1. [k EXCEPT !.buf = [i \in InBlock |-> Junk]] \in Call
  BY DEF Call, Byte, Junk
<1> QED
  BY <1>1, Returns DEF FreeReturn

LEMMA GoesOn ==
  ASSUME FlashInv, NEW c \in Client, NEW k \in Call, NEW p \in Nat, NEW w \in At,
         GoOn(c, k, p, w),
         heap' = IF w \in OwnsBuffer THEN heap \cup {c} ELSE heap \ {c},
         Knows(w, k, p),
         Surroundings
  PROVE  FlashInv'
  BY CallStep DEF GoOn, Goto, MoveTo

(* What no step of a call touches, or only as its bounds allow. *)
LEMMA FaultsTyped ==
  ASSUME FlashInv, NoFault \/ MemFault \/ MtdFault
  PROVE  /\ bad' \in SUBSET Block
         /\ calls' \in 0 .. MaxCalls
         /\ mtdFaults' \in 0 .. MaxMtdFaults
         /\ memFaults' \in 0 .. MaxMemFaults
  BY FlashAssumption DEF FlashInv, TypeOK, NoFault, MemFault, MtdFault, env

LEMMA BegunTyped ==
  ASSUME FlashInv, NEW c \in Client, Begin(c)
  PROVE  /\ bad' \in SUBSET Block
         /\ calls' \in 0 .. MaxCalls
         /\ mtdFaults' \in 0 .. MaxMtdFaults
         /\ memFaults' \in 0 .. MaxMemFaults
<1>1. MaxCalls \in Nat /\ calls \in 0 .. MaxCalls /\ calls < MaxCalls /\ calls' = calls + 1
  BY FlashAssumption DEF FlashInv, TypeOK, Begin
<1>2. calls' \in 0 .. MaxCalls
  BY <1>1
<1> QED
  BY <1>2 DEF FlashInv, TypeOK, Begin

LEMMA RescannedTyped ==
  ASSUME FlashInv, NEW p \in Nat
  PROVE  Rescanned(p) \in SUBSET Block
  BY ScannedBlocks DEF FlashInv, TypeOK, Rescanned

LEMMA NewCallTyped ==
  ASSUME NEW op \in { "read", "write" }, NEW off \in Int, NEW n \in Nat
  PROVE  NewCall(op, off, n) \in Call
  BY DEF NewCall, Call, Phase, Byte, Junk, Untouched

(* The search changes one of the locals. *)
LEMMA AtBlockTyped ==
  ASSUME NEW k \in Call, NEW p, FirstGood(p, bad) \in Block
  PROVE  /\ AtBlock(k, p) \in Call
         /\ AtBlock(k, p).ebnum = FirstGood(p, bad)
         /\ AtBlock(k, p).n = k.n
         /\ AtBlock(k, p).count = k.count
         /\ AtBlock(k, p).boff = k.boff
         /\ AtBlock(k, p).phase = k.phase
         /\ AtBlock(k, p).done = k.done
<1>1. FirstGood(p, bad) \in Nat
  BY GeometryAssumption DEF Block
<1> QED
  BY <1>1 DEF AtBlock, Call

(* The second piece begins: two of the locals change. *)
LEMMA SecondTyped ==
  ASSUME NEW k \in Call, NEW d \in Int
  PROVE  LET j == [k EXCEPT !.phase = "second", !.done = d]
         IN  /\ j \in Call /\ j.phase = "second" /\ j.done = d
             /\ j.n = k.n /\ j.count = k.count /\ j.boff = k.boff
<1> DEFINE i == [k EXCEPT !.phase = "second"]
           j == [i EXCEPT !.done = d]
<1>1. "second" \in Phase
  BY DEF Phase
<1>2. /\ i \in Call /\ i.phase = "second"
      /\ i.n = k.n /\ i.count = k.count /\ i.boff = k.boff
  BY <1>1 DEF Call
<1>3. [k EXCEPT !.phase = "second", !.done = d] = j
  BY DEF Call
<1> HIDE DEF i
<1>4. /\ j \in Call /\ j.phase = i.phase /\ j.done = d
      /\ j.n = i.n /\ j.count = i.count /\ j.boff = i.boff
  BY <1>2 DEF Call
<1> QED
  BY <1>2, <1>3, <1>4

(* The buffer of a client is outstanding as its place in the call says. *)
LEMMA Owning ==
  ASSUME FlashInv, NEW c \in Client
  PROVE  c \in heap <=> pc[c] \in OwnsBuffer
  BY DEF FlashInv, NoLeak

LEMMA Locals ==
  ASSUME FlashInv, NEW c \in Client
  PROVE  /\ call[c] \in Call
         /\ pos[c] \in Nat
         /\ Knows(pc[c], call[c], pos[c])
         /\ cell \in [Addr -> Byte]
         /\ bad \in SUBSET Block
         /\ bbt \in SUBSET Block
         /\ heap \in SUBSET Client
  BY DEF FlashInv, TypeOK
------------------------------------------------------------------------------
(* at91flash_read *)

LEMMA BeginReadStep ==
  ASSUME FlashInv, NEW c \in Client, NEW off \in Int, NEW p \in Nat, NEW n \in Lens,
         BeginRead(c, off, p, n)
  PROVE  FlashInv'
<1> DEFINE land == Landing(p, bad)
           k    == NewCall("read", off, n)
           m    == ReadCount(land, n)
<1>1. n \in 0 .. MaxLen /\ Size \in Nat /\ MaxKmalloc \in 1 .. EraseSize
  BY FlashAssumption, BeyondSize
<1>2. k \in Call
  <2>1. n \in Nat
    <3>1. MaxLen \in Nat
      BY <1>1 DEF MaxLen
    <3> QED
      BY <1>1, <3>1
  <2> QED
    BY <2>1, NewCallTyped
<1>3. land \in Nat /\ (Found(p, bad) =>
                       /\ FirstGood(p, bad) \in Block
                       /\ BlockOf(land) = FirstGood(p, bad)
                       /\ land < Size)
  BY Locals, LandingFacts
<1>4. pc[c] \notin OwnsBuffer /\ heap \ {c} = heap
  BY Owning DEF BeginRead, Begin, OwnsBuffer
<1>5. Surroundings
  <2>1. cell' = cell /\ bbt' = Rescanned(p)
    BY DEF BeginRead
  <2>2. Begin(c)
    BY DEF BeginRead
  <2> QED
    BY <2>1, <2>2, BegunTyped, RescannedTyped, Locals DEF Surroundings
<1>6. EFAULT \in Int /\ 0 \in Int
  BY DEF EFAULT
<1>7. CASE Return(c, k, land, EFAULT)
  BY <1>2, <1>3, <1>4, <1>5, <1>6, <1>7, Returns DEF BeginRead
<1>8. CASE Return(c, k, land, 0)
  BY <1>2, <1>3, <1>4, <1>5, <1>6, <1>8, Returns DEF BeginRead
<1>9. CASE /\ Found(p, bad)
           /\ m > 0
           /\ GoOn(c, AtBlock([k EXCEPT !.count = m], p), land, "r_alloc")
  <2> DEFINE j == AtBlock([k EXCEPT !.count = m], p)
  <2>1. m \in Int /\ m <= n /\ m <= Size - land /\ m <= MaxKmalloc
    BY <1>1, <1>3, LeastOf DEF ReadCount, MaxLen
  <2>2. /\ [k EXCEPT !.count = m] \in Call
        /\ [k EXCEPT !.count = m].n = n
        /\ [k EXCEPT !.count = m].count = m
        /\ [k EXCEPT !.count = m].done = 0
    <3>1. k.n = n /\ k.done = 0
      BY DEF NewCall
    <3> HIDE DEF k, m
    <3> QED
      BY <1>2, <2>1, <3>1 DEF Call
  <2>3. /\ j \in Call /\ j.n = n /\ j.count = m
        /\ j.ebnum = FirstGood(p, bad) /\ j.done = 0
    BY <1>3, <1>9, <2>2, AtBlockTyped
  <2>4. Knows("r_alloc", j, land)
    <3> HIDE DEF j, m, land
    <3> QED
      BY <1>1, <1>3, <1>9, <2>1, <2>3 DEF Knows, ReadAt, WriteAt, MaxLen
  <2>5. "r_alloc" \in At /\ "r_alloc" \notin OwnsBuffer
    BY DEF At, ReadAt, OwnsBuffer
  <2> HIDE DEF j
  <2> QED
    BY <1>3, <1>4, <1>5, <1>9, <2>3, <2>4, <2>5, GoesOn DEF BeginRead, j
<1> QED
  BY <1>7, <1>8, <1>9 DEF BeginRead

LEMMA ReadAllocStep ==
  ASSUME FlashInv, NEW c \in Client, ReadAlloc(c)
  PROVE  FlashInv'
<1> DEFINE k == call[c]
           p == pos[c]
           j == [k EXCEPT !.phase = ReadPhase(k, p)]
<1>1. k \in Call /\ p \in Nat /\ Knows("r_alloc", k, p)
  BY Locals DEF ReadAlloc
<1>2. Surroundings
  BY FaultsTyped, Locals DEF ReadAlloc, Surroundings
<1>3. CASE heap' = heap \cup {c} /\ GoOn(c, j, p, "r_read")
  <2>1. /\ j \in Call /\ j.n = k.n /\ j.count = k.count /\ j.ebnum = k.ebnum
        /\ j.done = k.done
        /\ j.phase = IF p + k.count > StartOf(k.ebnum + 1) THEN "first" ELSE "whole"
    BY <1>1 DEF Call, Phase, ReadPhase
  <2>2. Knows("r_read", j, p)
    <3> HIDE DEF j
    <3> QED
      BY <1>1, <2>1, BeyondSize DEF Knows, ReadAt, WriteAt, Call
  <2>3. "r_read" \in At /\ "r_read" \in OwnsBuffer
    BY DEF At, ReadAt, OwnsBuffer
  <2> HIDE DEF j
  <2> QED
    BY <1>1, <1>2, <1>3, <2>1, <2>2, <2>3, GoesOn
<1>4. CASE Return(c, k, p, ENOMEM) /\ UNCHANGED heap
  <2>1. heap' = heap \ {c} /\ ENOMEM \in Int
    BY <1>4, Owning DEF ReadAlloc, OwnsBuffer, ENOMEM
  <2> QED
    BY <1>1, <1>2, <1>4, <2>1, Returns
<1> QED
  BY <1>3, <1>4 DEF ReadAlloc

(* The search for the second block, and the returns of at91flash_read.     *)
LEMMA AfterPieceStep ==
  ASSUME FlashInv, NEW c \in Client, NEW k \in Call, NEW p \in Nat,
         pc[c] \in OwnsBuffer,
         AfterPiece(c, k, p),
         k.n <= MaxLen, k.count \in 1 .. k.n, k.count <= MaxKmalloc,
         k.phase = "first" => k.len < k.count,
         UNCHANGED cell,
         NoFault \/ MtdFault
  PROVE  FlashInv'
<1>1. /\ Landing(p, bad) \in Nat
      /\ Found(p, bad) => /\ FirstGood(p, bad) \in Block
                          /\ Landing(p, bad) < Size
  BY Locals, LandingFacts
<1>2. Surroundings
  BY FaultsTyped, Locals, RescannedTyped DEF AfterPiece, Surroundings
<1>3. k.len \in Int /\ EFAULT \in Int /\ c \in heap
  BY Owning DEF Call, EFAULT
<1>4. CASE FreeReturn(c, k, p, k.len)
  BY <1>2, <1>3, <1>4, FreeReturns
<1>5. CASE FreeReturn(c, k, Landing(p, bad), IF BlockOf(p) >= EbCnt THEN k.len ELSE EFAULT)
  BY <1>1, <1>2, <1>3, <1>5, FreeReturns
<1>6. CASE /\ k.phase = "first"
           /\ Found(p, bad)
           /\ GoOn(c, AtBlock([k EXCEPT !.phase = "second", !.done = k.len], p),
                   Landing(p, bad), "r_read")
           /\ UNCHANGED heap
  <2> DEFINE j == AtBlock([k EXCEPT !.phase = "second", !.done = k.len], p)
  <2>1. /\ j \in Call /\ j.n = k.n /\ j.count = k.count
        /\ j.ebnum = FirstGood(p, bad) /\ j.done = k.len /\ j.phase = "second"
    <3> DEFINE i == [k EXCEPT !.phase = "second", !.done = k.len]
    <3>1. /\ i \in Call /\ i.n = k.n /\ i.count = k.count
          /\ i.done = k.len /\ i.phase = "second"
      BY <1>3, SecondTyped
    <3> HIDE DEF i
    <3>2. j = AtBlock(i, p)
      BY DEF i
    <3> QED
      BY <1>1, <1>6, <3>1, <3>2, AtBlockTyped
  <2>2. Knows("r_read", j, Landing(p, bad))
    <3> HIDE DEF j
    <3> QED
      BY <1>1, <1>6, <2>1 DEF Knows, ReadAt, WriteAt, Call
  <2>3. "r_read" \in At /\ "r_read" \in OwnsBuffer
    BY DEF At, ReadAt, OwnsBuffer
  <2> HIDE DEF j
  <2> QED
    BY <1>1, <1>2, <1>3, <1>6, <2>1, <2>2, <2>3, GoesOn DEF j
<1> QED
  BY <1>4, <1>5, <1>6 DEF AfterPiece

(* What mtd->read is asked for is positive, and fits in the buffer. *)
LEMMA ReadLenFits ==
  ASSUME NEW k \in Call, NEW p \in Nat, Knows("r_read", k, p)
  PROVE  /\ ReadLen(k, p) \in Nat \ {0}
         /\ k.done + ReadLen(k, p) <= k.count
         /\ k.phase = "first" => ReadLen(k, p) < k.count
         /\ p + ReadLen(k, p) <= Size
<1> DEFINE asked == CASE k.phase = "first"  -> StartOf(k.ebnum + 1) - p
                      [] k.phase = "second" -> k.count - k.done
                      [] OTHER              -> k.count
<1>1. /\ k.count \in Int /\ k.done \in Int /\ Size \in Nat /\ p < Size
      /\ k.done \in 0 .. k.count - 1
      /\ k.phase \in Phase
  BY BeyondSize DEF Knows, ReadAt, Call
<1>2. k.phase = "first" => /\ StartOf(k.ebnum + 1) \in Int
                           /\ StartOf(k.ebnum + 1) - p > 0
                           /\ StartOf(k.ebnum + 1) - p < k.count
                           /\ k.done = 0
  <2> SUFFICES ASSUME k.phase = "first"
               PROVE  /\ StartOf(k.ebnum + 1) \in Int
                      /\ StartOf(k.ebnum + 1) - p > 0
                      /\ StartOf(k.ebnum + 1) - p < k.count
                      /\ k.done = 0
    OBVIOUS
  <2>1. /\ k.ebnum = BlockOf(p)
        /\ p + k.count > StartOf(k.ebnum + 1)
        /\ k.done = 0
    BY DEF Knows
  <2>2. StartOf(k.ebnum + 1) \in Int /\ p < StartOf(k.ebnum + 1)
    BY <2>1, DivBounds, GeometryAssumption
  <2> QED
    BY <1>1, <2>1, <2>2
<1>3. /\ asked \in Int /\ asked > 0 /\ asked <= k.count - k.done
      /\ k.phase = "first" => asked < k.count
  <2>1. CASE k.phase = "first"
    BY <1>1, <1>2, <2>1
  <2>2. CASE k.phase = "second"
    BY <1>1, <2>2
  <2>3. CASE k.phase \notin { "first", "second" }
    <3>1. k.done = 0
      BY <2>3 DEF Knows
    <3> QED
      BY <1>1, <2>3, <3>1
  <2> QED
    BY <2>1, <2>2, <2>3
<1>4. ReadLen(k, p) = Least({ asked, Size - p })
  BY DEF ReadLen
<1> HIDE DEF asked
<1>5. /\ ReadLen(k, p) \in { asked, Size - p }
      /\ ReadLen(k, p) <= asked
      /\ ReadLen(k, p) <= Size - p
  BY <1>1, <1>3, <1>4, LeastOf
<1> QED
  BY <1>1, <1>3, <1>5
LEMMA ReadFlashStep ==
  ASSUME FlashInv, NEW c \in Client, ReadFlash(c)
  PROVE  FlashInv'
<1> DEFINE k    == call[c]
           p    == pos[c]
           full == ReadLen(k, p)
           B(m, good) == [i \in InBlock |->
                            IF i \in 0 .. m - 1
                            THEN IF good THEN cell[p + i] ELSE Junk
                            ELSE k.buf[i]]
<1>1. k \in Call /\ p \in Nat /\ Knows("r_read", k, p) /\ c \in heap
  BY Locals, Owning DEF ReadFlash, OwnsBuffer
<1>2. /\ full \in Nat \ {0} /\ k.done + full <= k.count
      /\ k.phase = "first" => full < k.count
      /\ p + full <= Size
  BY <1>1, ReadLenFits
<1>3. /\ k.n <= MaxLen /\ k.count \in 1 .. k.n /\ k.count <= MaxKmalloc
      /\ k.ebnum \in Block
      /\ k.done \in 0 .. k.count - 1
      /\ k.phase # "second" => k.done = 0
      /\ k.n \in Nat
  BY <1>1 DEF Knows, ReadAt, Call
<1> HIDE DEF full
<1>4. PICK m \in 0 .. full, good \in BOOLEAN :
        /\ Delivered(c, m, good)
        /\ NoFault \/ MtdFault
        /\ UNCHANGED cell
  <2>1. CASE Delivered(c, full, TRUE) /\ NoFault
    <3>1. full \in 0 .. full /\ UNCHANGED cell
      BY <1>2 DEF ReadFlash
    <3> QED
      BY <2>1, <3>1, Zenon
  <2>2. CASE Delivered(c, full, FALSE) /\ MtdFault
    <3>1. full \in 0 .. full /\ UNCHANGED cell
      BY <1>2 DEF ReadFlash
    <3> QED
      BY <2>2, <3>1, Zenon
  <2>3. CASE (\E m \in 0 .. full - 1 : Delivered(c, m, TRUE)) /\ MtdFault
    <3>1. PICK m \in 0 .. full - 1 : Delivered(c, m, TRUE)
      BY <2>3
    <3>2. m \in 0 .. full
      BY <1>2
    <3> QED
      BY <2>3, <3>1, <3>2 DEF ReadFlash
  <2> QED
    BY <2>1, <2>2, <2>3 DEF ReadFlash, full
<1> DEFINE j == Got(k, p, m, good)
<1>5. B(m, good) \in [InBlock -> Byte]
  <2> SUFFICES ASSUME NEW i \in InBlock
               PROVE  (IF i \in 0 .. m - 1
                       THEN IF good THEN cell[p + i] ELSE Junk
                       ELSE k.buf[i]) \in Byte
    OBVIOUS
  <2>1. k.buf[i] \in Byte /\ Junk \in Byte
    BY <1>1 DEF Call, Byte, Junk
  <2>2. ASSUME i \in 0 .. m - 1 PROVE cell[p + i] \in Byte
    <3>1. p + i \in 0 .. Size - 1
      BY <1>1, <1>2, <1>4, <2>2, BeyondSize
    <3> QED
      BY <3>1, Locals DEF Addr
  <2> QED
    BY <2>1, <2>2
<1>6. /\ j \in Call /\ j.len = m /\ j.n = k.n /\ j.count = k.count
      /\ j.done = k.done /\ j.phase = k.phase /\ j.ebnum = k.ebnum
  <2>1. m \in Nat
    BY <1>2, <1>4
  <2>2. j = [k EXCEPT !.len = m, !.buf = B(m, good)]
    BY DEF Got
  <2> HIDE DEF B, j
  <2> QED
    BY <1>1, <1>5, <2>1, <2>2 DEF Call
<1> HIDE DEF j, B
<1>7. CASE m > 0 /\ GoOn(c, j, p + m, "r_copy") /\ UNCHANGED << heap, bbt >>
  <2>1. Surroundings
    BY <1>4, <1>7, FaultsTyped, Locals DEF Surroundings
  <2>2. Knows("r_copy", j, p + m)
    BY <1>2, <1>3, <1>4, <1>6, <1>7 DEF Knows, ReadAt, WriteAt
  <2>3. "r_copy" \in At /\ "r_copy" \in OwnsBuffer /\ p + m \in Nat
    BY <1>1, <1>2, <1>4 DEF At, ReadAt, OwnsBuffer
  <2> QED
    BY <1>1, <1>6, <1>7, <2>1, <2>2, <2>3, GoesOn
<1>8. CASE m = 0 /\ AfterPiece(c, j, p)
  <2>1. j.phase = "first" => j.len < j.count
    BY <1>3, <1>6, <1>8
  <2>2. pc[c] \in OwnsBuffer
    BY <1>1, Owning
  <2> QED
    BY <1>1, <1>3, <1>4, <1>6, <1>8, <2>1, <2>2, AfterPieceStep
<1> QED
  BY <1>4, <1>7, <1>8 DEF Delivered, j

LEMMA CopyOutStep ==
  ASSUME FlashInv, NEW c \in Client, CopyOut(c)
  PROVE  FlashInv'
<1> DEFINE k == call[c]
           p == pos[c]
           O == [i \in InBlock |-> IF i \in k.done .. k.done + k.len - 1
                                   THEN k.buf[i - k.done] ELSE k.out[i]]
           j == [k EXCEPT !.out = O]
<1>1. k \in Call /\ p \in Nat /\ Knows("r_copy", k, p) /\ c \in heap
  BY Locals, Owning DEF CopyOut, OwnsBuffer
<1>2. /\ k.n <= MaxLen /\ k.count \in 1 .. k.n /\ k.count <= MaxKmalloc
      /\ k.phase = "first" => k.len < k.count
      /\ k.done \in Nat /\ k.len \in Nat
  BY <1>1 DEF Knows, ReadAt, Call
<1>3. O \in [InBlock -> Byte]
  <2> SUFFICES ASSUME NEW i \in InBlock
               PROVE  (IF i \in k.done .. k.done + k.len - 1
                       THEN k.buf[i - k.done] ELSE k.out[i]) \in Byte
    OBVIOUS
  <2>1. i \in k.done .. k.done + k.len - 1 => i - k.done \in InBlock
    BY <1>2, GeometryAssumption DEF InBlock
  <2> QED
    BY <1>1, <2>1 DEF Call
<1>4. /\ j \in Call /\ j.len = k.len /\ j.n = k.n /\ j.count = k.count
      /\ j.phase = k.phase
  <2> HIDE DEF O
  <2> QED
    BY <1>1, <1>3 DEF Call
<1>5. pc[c] \in OwnsBuffer
  BY <1>1, Owning
<1>6. UNCHANGED cell
  BY DEF CopyOut
<1>7. CASE AfterPiece(c, j, p) /\ NoFault
  <2> HIDE DEF j, O
  <2> QED
    BY <1>1, <1>2, <1>4, <1>5, <1>6, <1>7, AfterPieceStep
<1>8. CASE FreeReturn(c, k, p, EFAULT) /\ MemFault /\ UNCHANGED bbt
  <2>1. Surroundings
    BY <1>6, <1>8, FaultsTyped, Locals DEF Surroundings
  <2> QED
    BY <1>1, <1>8, <2>1, FreeReturns DEF EFAULT
<1> QED
  BY <1>7, <1>8 DEF CopyOut
------------------------------------------------------------------------------
(* at91flash_write *)

LEMMA BeginWriteStep ==
  ASSUME FlashInv, NEW c \in Client, NEW off \in Int, NEW p \in Nat, NEW n \in Lens,
         BeginWrite(c, off, p, n)
  PROVE  FlashInv'
<1> DEFINE land == Landing(p, bad)
           k    == NewCall("write", off, n)
           m    == WriteCount(p, n)
<1>1. n \in 0 .. MaxLen /\ Size \in Nat
  BY FlashAssumption, BeyondSize
<1>2. k \in Call
  <2>1. n \in Nat
    <3>1. MaxLen \in Nat
      BY <1>1 DEF MaxLen
    <3> QED
      BY <1>1, <3>1
  <2> QED
    BY <2>1, NewCallTyped
<1>3. land \in Nat /\ (Found(p, bad) =>
                       /\ FirstGood(p, bad) \in Block
                       /\ BlockOf(land) = FirstGood(p, bad)
                       /\ land < Size)
  BY Locals, LandingFacts
<1>4. pc[c] \notin OwnsBuffer /\ heap' = heap \ {c}
  BY Owning DEF BeginWrite, Begin, OwnsBuffer
<1>5. Surroundings
  <2>1. cell' = cell /\ (bbt' = bbt \/ bbt' = Rescanned(p))
    BY DEF BeginWrite
  <2>2. Begin(c)
    BY DEF BeginWrite
  <2> QED
    BY <2>1, <2>2, BegunTyped, RescannedTyped, Locals DEF Surroundings
<1>6. EFAULT \in Int /\ 0 \in Int
  BY DEF EFAULT
<1>7. CASE Return(c, k, p, EFAULT) \/ Return(c, k, p, 0) \/ Return(c, k, land, EFAULT)
  BY <1>2, <1>3, <1>4, <1>5, <1>6, <1>7, Returns
<1>8. CASE /\ m # 0
           /\ Found(p, bad)
           /\ GoOn(c, AtBlock([k EXCEPT !.count = m, !.boff = OffsetIn(land)], p),
                   land, "w_alloc")
  <2> DEFINE i == [k EXCEPT !.count = m, !.boff = OffsetIn(land)]
             j == AtBlock(i, p)
  <2>1. p < Size
    <3>1. BlockOf(p) < EbCnt
      BY <1>8, DivBounds, GeometryAssumption DEF Found, GoodFrom
    <3> QED
      BY <3>1, InsideBlock
  <2>2. m \in 1 .. n
    BY <1>1, <1>8, <2>1 DEF WriteCount, MaxLen
  <2>3. /\ OffsetIn(land) \in InBlock /\ OffsetIn(land) \in Nat
        /\ land = StartOf(BlockOf(land)) + OffsetIn(land)
    BY <1>3, OffsetBounds, GeometryAssumption DEF InBlock
  <2>4. /\ i \in Call /\ i.n = n /\ i.count = m /\ i.phase = "whole"
        /\ i.boff = OffsetIn(land)
    <3>1. k.n = n /\ k.phase = "whole"
      BY DEF NewCall
    <3> DEFINE h == [k EXCEPT !.count = m]
    <3>2. /\ h \in Call /\ h.n = n /\ h.phase = "whole" /\ h.count = m
      <4> HIDE DEF k, m
      <4> QED
        BY <1>2, <2>2, <3>1 DEF Call
    <3>3. i = [h EXCEPT !.boff = OffsetIn(land)]
      <4> HIDE DEF k, m, land
      <4> QED
        BY <1>2 DEF Call
    <3> HIDE DEF h, i, land
    <3> QED
      BY <2>3, <3>2, <3>3 DEF Call
  <2> HIDE DEF i
  <2>5. /\ j \in Call /\ j.n = n /\ j.count = m /\ j.ebnum = FirstGood(p, bad)
        /\ j.phase = "whole" /\ j.boff = OffsetIn(land)
    BY <1>3, <1>8, <2>4, AtBlockTyped
  <2>6. Knows("w_alloc", j, land)
    <3> HIDE DEF j, m, land
    <3> QED
      BY <1>1, <1>3, <1>8, <2>2, <2>3, <2>5 DEF Knows, ReadAt, WriteAt, MaxLen
  <2>7. "w_alloc" \in At /\ "w_alloc" \notin OwnsBuffer
    BY DEF At, WriteAt, OwnsBuffer
  <2>8. GoOn(c, j, land, "w_alloc")
    BY <1>8 DEF i
  <2> HIDE DEF j
  <2> QED
    BY <1>3, <1>4, <1>5, <2>5, <2>6, <2>7, <2>8, GoesOn
<1> QED
  BY <1>7, <1>8 DEF BeginWrite

(* A new phase is the only local to change.                                *)
LEMMA PhaseTyped ==
  ASSUME NEW k \in Call, NEW ph \in Phase
  PROVE  LET j == [k EXCEPT !.phase = ph]
         IN  /\ j \in Call /\ j.phase = ph
             /\ j.n = k.n /\ j.count = k.count /\ j.ebnum = k.ebnum
             /\ j.boff = k.boff
  BY DEF Call

LEMMA WriteAllocStep ==
  ASSUME FlashInv, NEW c \in Client, WriteAlloc(c)
  PROVE  FlashInv'
<1> DEFINE k == call[c]
           p == pos[c]
           j == [k EXCEPT !.phase = "head"]
<1>1. k \in Call /\ p \in Nat /\ Knows("w_alloc", k, p)
  BY Locals DEF WriteAlloc
<1>2. Surroundings
  BY FaultsTyped, Locals DEF WriteAlloc, Surroundings
<1>3. /\ { "w_load", "w_fill" } \subseteq At
      /\ { "w_load", "w_fill" } \subseteq OwnsBuffer
  BY DEF At, WriteAt, OwnsBuffer
<1>4. CASE heap' = heap \cup {c} /\ GoOn(c, j, 0, "w_fill")
  <2>1. /\ j \in Call /\ j.n = k.n /\ j.count = k.count /\ j.ebnum = k.ebnum
        /\ j.boff = k.boff /\ j.phase = "head"
    BY <1>1, PhaseTyped DEF Phase
  <2>2. Knows("w_fill", j, 0)
    <3> HIDE DEF j
    <3> QED
      BY <1>1, <2>1 DEF Knows, Pieced, ReadAt, WriteAt
  <2> HIDE DEF j
  <2> QED
    BY <1>2, <1>3, <1>4, <2>1, <2>2, GoesOn
<1>5. CASE heap' = heap \cup {c} /\ GoOn(c, k, p, "w_load")
  <2>1. Knows("w_load", k, p)
    BY <1>1 DEF Knows, ReadAt, WriteAt
  <2> QED
    BY <1>1, <1>2, <1>3, <1>5, <2>1, GoesOn
<1>6. CASE Return(c, k, p, ENOMEM) /\ UNCHANGED heap
  <2>1. heap' = heap \ {c} /\ ENOMEM \in Int
    BY <1>6, Owning DEF WriteAlloc, OwnsBuffer, ENOMEM
  <2> QED
    BY <1>1, <1>2, <1>6, <2>1, Returns
<1> QED
  BY <1>4, <1>5, <1>6 DEF WriteAlloc
(* Where the bytes of a block are. *)
LEMMA BlockCells ==
  ASSUME NEW b \in Block
  PROVE  /\ StartOf(b) \in Nat
         /\ StartOf(b + 1) = StartOf(b) + EraseSize
         /\ StartOf(b + 2) = StartOf(b) + EraseSize + EraseSize
         /\ \A i \in InBlock : StartOf(b) + i \in Addr
         /\ \A a \in CellsOf(b) : a - StartOf(b) \in InBlock
<1>1. b \in Nat /\ b + 1 <= EbCnt
  BY GeometryAssumption DEF Block
<1>2. /\ StartOf(b) \in Nat
      /\ StartOf(b + 1) = StartOf(b) + EraseSize
      /\ StartOf(b + 2) = StartOf(b) + EraseSize + EraseSize
  BY <1>1, GeometryAssumption, SMT DEF StartOf
<1>3. StartOf(b + 1) <= Size
  BY <1>1, MulMono, GeometryAssumption DEF StartOf, Size
<1> QED
  BY <1>2, <1>3, BeyondSize, GeometryAssumption DEF InBlock, Addr, CellsOf

LEMMA LoadStep ==
  ASSUME FlashInv, NEW c \in Client, Load(c)
  PROVE  FlashInv'
<1> DEFINE k == Loaded(call[c])
           p == pos[c]
           j(ph) == [k EXCEPT !.phase = ph]
<1>1. call[c] \in Call /\ p \in Nat /\ Knows("w_load", call[c], p) /\ c \in heap
  BY Locals, Owning DEF Load, OwnsBuffer
<1>2. /\ k \in Call /\ k.n = call[c].n /\ k.count = call[c].count
      /\ k.ebnum = call[c].ebnum /\ k.boff = call[c].boff
      /\ k.phase = call[c].phase
  <2>1. call[c].ebnum \in Block
    BY <1>1 DEF Knows, WriteAt
  <2>2. [i \in InBlock |-> cell[StartOf(call[c].ebnum) + i]] \in [InBlock -> Byte]
    BY <2>1, BlockCells, Locals
  <2> QED
    BY <1>1, <2>2 DEF Loaded, Call
<1>3. Surroundings
  BY FaultsTyped, Locals DEF Load, Surroundings
<1>4. /\ k.n \in Nat /\ k.n <= MaxLen /\ k.count \in 1 .. k.n /\ k.ebnum \in Block
      /\ k.boff \in InBlock
      /\ k.phase = "whole" => p = StartOf(k.ebnum) + k.boff
      /\ k.phase = "second" => Pieced(k)
  BY <1>1, <1>2 DEF Knows, WriteAt, Pieced, Call
<1> HIDE DEF k
<1>5. ASSUME NEW ph \in Phase, GoOn(c, j(ph), p, "w_fill"), UNCHANGED heap, Pieced(j(ph))
      PROVE  FlashInv'
  <2>1. /\ j(ph) \in Call /\ j(ph).n = k.n /\ j(ph).count = k.count
        /\ j(ph).ebnum = k.ebnum /\ j(ph).boff = k.boff
    BY <1>2, PhaseTyped
  <2>2. Knows("w_fill", j(ph), p)
    <3> HIDE DEF j
    <3> QED
      BY <1>4, <1>5, <2>1 DEF Knows, ReadAt, WriteAt
  <2>3. "w_fill" \in At /\ "w_fill" \in OwnsBuffer
    BY DEF At, WriteAt, OwnsBuffer
  <2> HIDE DEF j
  <2> QED
    BY <1>1, <1>3, <1>5, <2>1, <2>2, <2>3, GoesOn
<1>6. CASE k.phase = "second" /\ GoOn(c, j("second"), p, "w_fill") /\ UNCHANGED heap
  <2>1. Pieced(j("second"))
    <3>1. /\ j("second").count = k.count /\ j("second").boff = k.boff
          /\ j("second").phase = "second"
      BY <1>2, PhaseTyped DEF Phase
    <3> HIDE DEF j
    <3> QED
      BY <1>4, <1>6, <3>1 DEF Pieced
  <2> QED
    BY <1>5, <1>6, <2>1 DEF Phase
<1>7. CASE /\ k.phase = "whole" /\ EndsBy(k, p, k.ebnum)
           /\ GoOn(c, j("whole"), p, "w_fill") /\ UNCHANGED heap
  <2>1. Pieced(j("whole"))
    <3>1. /\ j("whole").count = k.count /\ j("whole").boff = k.boff
          /\ j("whole").phase = "whole"
      BY <1>2, PhaseTyped DEF Phase
    <3>2. k.boff + k.count <= EraseSize
      BY <1>4, <1>7, BlockCells, GeometryAssumption DEF EndsBy, InBlock
    <3> HIDE DEF j
    <3> QED
      BY <3>1, <3>2 DEF Pieced
  <2> QED
    BY <1>5, <1>7, <2>1 DEF Phase
<1>8. CASE /\ k.phase = "whole" /\ ~ EndsBy(k, p, k.ebnum) /\ EndsBy(k, p, k.ebnum + 1)
           /\ GoOn(c, j("first"), p, "w_fill") /\ UNCHANGED heap
  <2>1. Pieced(j("first"))
    <3>1. /\ j("first").count = k.count /\ j("first").boff = k.boff
          /\ j("first").phase = "first"
      BY <1>2, PhaseTyped DEF Phase
    <3>2. /\ StartOf(k.ebnum + 1) = StartOf(k.ebnum) + EraseSize
          /\ StartOf((k.ebnum + 1) + 1) = StartOf(k.ebnum) + EraseSize + EraseSize
          /\ StartOf(k.ebnum) \in Nat
      <4>1. (k.ebnum + 1) + 1 = k.ebnum + 2
        BY <1>4, GeometryAssumption DEF Block
      <4> QED
        BY <1>4, <4>1, BlockCells
    <3>3. k.count \in EraseSize - k.boff + 1 .. EraseSize - k.boff + EraseSize
      BY <1>4, <1>8, <3>2, GeometryAssumption DEF EndsBy, InBlock
    <3> HIDE DEF j
    <3> QED
      BY <3>1, <3>3 DEF Pieced
  <2> QED
    BY <1>5, <1>8, <2>1 DEF Phase
<1>9. CASE FreeReturn(c, k, p, EFAULT) \/ FreeReturn(c, call[c], p, EFAULT)
  BY <1>1, <1>2, <1>3, <1>9, FreeReturns DEF EFAULT
<1> QED
  BY <1>6, <1>7, <1>8, <1>9 DEF Load, k
(* The bounds of the piece copied into kbuf: within the user's data for    *)
(* any length, and within kbuf for one of a block at most.                 *)
LEMMA PieceBounds ==
  ASSUME NEW k \in Call, NEW p \in Nat, Knows("w_fill", k, p)
  PROVE  /\ PieceAt(k) \in InBlock
         /\ PieceLen(k) \in Nat \ {0}
         /\ PieceFrom(k) \in Nat
         /\ PieceFrom(k) + PieceLen(k) <= k.n
         /\ k.n <= MaxLen
         /\ k.n <= EraseSize => PieceAt(k) + PieceLen(k) <= EraseSize
<1>1. /\ k.n \in Nat /\ k.n <= MaxLen /\ k.count \in 1 .. k.n
      /\ k.boff \in InBlock /\ k.phase \in Phase /\ Pieced(k)
  BY DEF Knows, WriteAt, Call
<1>2. CASE k.phase = "first"
  BY <1>1, <1>2, GeometryAssumption
     DEF Pieced, PieceAt, PieceLen, PieceFrom, InBlock
<1>3. CASE k.phase = "second"
  BY <1>1, <1>3, GeometryAssumption
     DEF Pieced, PieceAt, PieceLen, PieceFrom, InBlock
<1>4. CASE k.phase = "whole"
  BY <1>1, <1>4, GeometryAssumption
     DEF Pieced, PieceAt, PieceLen, PieceFrom, InBlock
<1>5. CASE k.phase = "head"
  BY <1>1, <1>5, GeometryAssumption
     DEF Pieced, PieceAt, PieceLen, PieceFrom, InBlock
<1> QED
  BY <1>1, <1>2, <1>3, <1>4, <1>5 DEF Phase

LEMMA CopyInStep ==
  ASSUME FlashInv, NEW c \in Client, CopyIn(c)
  PROVE  FlashInv'
<1> DEFINE k == call[c]
           p == pos[c]
           F == Filled(k, UserData[c])
           j == [k EXCEPT !.buf = F]
<1>1. k \in Call /\ p \in Nat /\ Knows("w_fill", k, p) /\ c \in heap
  BY Locals, Owning DEF CopyIn, OwnsBuffer
<1>2. Surroundings
  BY FaultsTyped, Locals DEF CopyIn, Surroundings
<1>3. F \in [InBlock -> Byte]
  <2>1. ASSUME NEW i \in InBlock, i \in PieceAt(k) .. PieceAt(k) + PieceLen(k) - 1
        PROVE  UserData[c][PieceFrom(k) + (i - PieceAt(k))] \in Byte
    <3>1. /\ PieceAt(k) \in Int /\ i \in Int /\ MaxLen \in Nat /\ k.n \in Nat
      <4>1. PieceAt(k) \in InBlock
        BY <1>1, PieceBounds
      <4>2. InBlock \subseteq Int
        BY GeometryAssumption DEF InBlock
      <4>3. MaxLen \in Nat
        BY BeyondSize DEF MaxLen
      <4>4. k.n \in Nat
        BY <1>1 DEF Call
      <4> QED
        BY <4>1, <4>2, <4>3, <4>4
    <3>2. PieceFrom(k) + (i - PieceAt(k)) \in 0 .. MaxLen - 1
      BY <1>1, <2>1, <3>1, PieceBounds
    <3> QED
      BY <3>2, FlashAssumption
  <2>2. k.buf \in [InBlock -> Byte]
    BY <1>1 DEF Call
  <2> QED
    BY <2>1, <2>2 DEF Filled
<1>4. /\ j \in Call /\ j.n = k.n /\ j.count = k.count /\ j.ebnum = k.ebnum
      /\ j.boff = k.boff /\ j.phase = k.phase
  <2> HIDE DEF F
  <2> QED
    BY <1>1, <1>3 DEF Call
<1>5. CASE GoOn(c, j, p, "w_erase") /\ UNCHANGED heap
  <2>1. Knows("w_erase", j, p)
    <3> HIDE DEF j
    <3> QED
      BY <1>1, <1>4 DEF Knows, Pieced, ReadAt, WriteAt
  <2>2. "w_erase" \in At /\ "w_erase" \in OwnsBuffer
    BY DEF At, WriteAt, OwnsBuffer
  <2> HIDE DEF j
  <2> QED
    BY <1>1, <1>2, <1>4, <1>5, <2>1, <2>2, GoesOn
<1>6. CASE FreeReturn(c, k, p, EFAULT)
  BY <1>1, <1>2, <1>6, FreeReturns DEF EFAULT
<1> QED
  BY <1>5, <1>6 DEF CopyIn

LEMMA WithBlockTyped ==
  ASSUME FlashInv, NEW b \in Block, NEW f \in [InBlock -> Byte]
  PROVE  WithBlock(b, f) \in [Addr -> Byte]
  BY BlockCells, Locals DEF WithBlock, FlashInv, TypeOK

LEMMA EraseStep ==
  ASSUME FlashInv, NEW c \in Client, Erase(c)
  PROVE  FlashInv'
<1> DEFINE k == call[c]
           p == pos[c]
<1>1. k \in Call /\ p \in Nat /\ Knows("w_erase", k, p) /\ c \in heap
  BY Locals, Owning DEF Erase, OwnsBuffer
<1>2. cell' \in [Addr -> Byte]
  <2>1. k.ebnum \in Block
    BY <1>1 DEF Knows, WriteAt
  <2>2. Erased \in [InBlock -> Byte] /\ Ruined \in [InBlock -> Byte]
    BY DEF Erased, Ruined, Byte, FF, Junk
  <2>3. /\ WithBlock(k.ebnum, Erased) \in [Addr -> Byte]
        /\ WithBlock(k.ebnum, Ruined) \in [Addr -> Byte]
    BY <2>1, <2>2, WithBlockTyped
  <2> QED
    BY <2>3, Locals DEF Erase
<1>3. Surroundings
  BY <1>2, FaultsTyped, Locals DEF Erase, Surroundings
<1>4. CASE GoOn(c, k, p, "w_prog") /\ UNCHANGED heap
  <2>1. Knows("w_prog", k, p)
    BY <1>1 DEF Knows, ReadAt, WriteAt
  <2>2. "w_prog" \in At /\ "w_prog" \in OwnsBuffer
    BY DEF At, WriteAt, OwnsBuffer
  <2> QED
    BY <1>1, <1>3, <1>4, <2>1, <2>2, GoesOn
<1>5. CASE FreeReturn(c, k, p, EFAULT)
  BY <1>1, <1>3, <1>5, FreeReturns DEF EFAULT
<1> QED
  BY <1>4, <1>5 DEF Erase
(* The returns of at91flash_write, and the search for the second block. *)
LEMMA AfterProgramStep ==
  ASSUME FlashInv, NEW c \in Client, NEW m \in Nat, pc[c] = "w_prog",
         AfterProgram(c, call[c], m),
         cell' \in [Addr -> Byte],
         NoFault \/ MtdFault
  PROVE  FlashInv'
<1> DEFINE k    == call[c]
           p    == pos[c]
           next == p + (EraseSize - k.boff)
<1>1. k \in Call /\ p \in Nat /\ Knows("w_prog", k, p) /\ c \in heap
  BY Locals, Owning DEF OwnsBuffer
<1>2. /\ k.n \in Nat /\ k.n <= MaxLen /\ k.count \in 1 .. k.n
      /\ k.boff \in InBlock /\ k.phase \in Phase /\ Pieced(k)
  BY <1>1 DEF Knows, WriteAt, Call
<1>3. next \in Nat /\ EraseSize - k.boff \in Int
  BY <1>1, <1>2, GeometryAssumption DEF InBlock
<1>4. /\ Landing(next, bad) \in Nat
      /\ Found(next, bad) => FirstGood(next, bad) \in Block
  BY <1>3, LandingFacts, Locals
<1>5. Surroundings
  BY <1>3, FaultsTyped, RescannedTyped, Locals DEF AfterProgram, Surroundings
<1>6. CASE FreeReturn(c, k, p + m, m)
  BY <1>1, <1>5, <1>6, FreeReturns
<1>7. CASE FreeReturn(c, k, Landing(next, bad), EFAULT)
  BY <1>1, <1>4, <1>5, <1>7, FreeReturns DEF EFAULT
<1>8. CASE k.phase = "second" /\ FreeReturn(c, k, p + PieceLen(k), k.count)
  <2>1. PieceLen(k) \in Nat /\ k.count \in Int
    BY <1>2, <1>8, GeometryAssumption DEF Pieced, PieceLen, InBlock
  <2>2. p + PieceLen(k) \in Nat
    BY <1>1, <2>1
  <2> QED
    BY <1>1, <1>5, <1>8, <2>1, <2>2, FreeReturns
<1>9. CASE /\ k.phase = "first"
           /\ Found(next, bad)
           /\ GoOn(c, AtBlock([k EXCEPT !.phase = "second",
                                        !.done = EraseSize - k.boff], next),
                   Landing(next, bad), "w_load")
           /\ UNCHANGED heap
  <2> DEFINE i == [k EXCEPT !.phase = "second", !.done = EraseSize - k.boff]
             j == AtBlock(i, next)
  <2>1. /\ i \in Call /\ i.phase = "second" /\ i.n = k.n /\ i.count = k.count
        /\ i.boff = k.boff
    BY <1>1, <1>3, SecondTyped
  <2> HIDE DEF i
  <2>2. /\ j \in Call /\ j.phase = "second" /\ j.n = k.n /\ j.count = k.count
        /\ j.boff = k.boff /\ j.ebnum = FirstGood(next, bad)
    BY <1>4, <1>9, <2>1, AtBlockTyped
  <2>3. Pieced(j)
    <3> HIDE DEF j
    <3> QED
      BY <1>2, <1>9, <2>2 DEF Pieced
  <2>4. Knows("w_load", j, Landing(next, bad))
    <3> HIDE DEF j, next
    <3> QED
      BY <1>2, <1>4, <1>9, <2>2, <2>3 DEF Knows, ReadAt, WriteAt
  <2>5. "w_load" \in At /\ "w_load" \in OwnsBuffer
    BY DEF At, WriteAt, OwnsBuffer
  <2>6. GoOn(c, j, Landing(next, bad), "w_load")
    BY <1>9 DEF i
  <2> HIDE DEF j, next
  <2> QED
    BY <1>1, <1>4, <1>5, <1>9, <2>2, <2>4, <2>5, <2>6, GoesOn
<1> QED
  BY <1>6, <1>7, <1>8, <1>9 DEF AfterProgram

LEMMA ProgramStep ==
  ASSUME FlashInv, NEW c \in Client, Program(c)
  PROVE  FlashInv'
<1> DEFINE k == call[c]
<1>1. k \in Call /\ k.ebnum \in Block
  BY Locals DEF Program, Knows, WriteAt
<1>2. PICK m \in 0 .. EraseSize :
        /\ cell' = WithBlock(k.ebnum, Programmed(k, m))
        /\ AfterProgram(c, k, m)
        /\ NoFault \/ MtdFault
  BY GeometryAssumption DEF Program
<1>3. Programmed(k, m) \in [InBlock -> Byte]
  BY <1>1, BlockCells, Locals DEF Programmed, Call, Byte, FF, Junk
<1>4. cell' \in [Addr -> Byte]
  BY <1>1, <1>2, <1>3, WithBlockTyped
<1>5. m \in Nat
  BY <1>2, GeometryAssumption
<1> QED
  BY <1>2, <1>4, <1>5, AfterProgramStep DEF Program
------------------------------------------------------------------------------
(* The surroundings, and the theorems. *)

LEMMA SeekTyped ==
  ASSUME NEW p \in Nat, NEW offset \in Int
  PROVE  SeekTo(p, offset) \in Nat
  BY BeyondSize DEF SeekTo

LEMMA LseekStep ==
  ASSUME FlashInv, NEW c \in Client, Lseek(c)
  PROVE  FlashInv'
<1>1. PICK p \in Nat : pos' = [pos EXCEPT ![c] = p]
  <2>1. PICK offset \in Offsets, whence \in { 0, pos[c], Size } :
          MoveTo(c, SeekTo(pos[c], whence + offset))
    BY DEF Lseek
  <2>2. offset \in Int /\ whence \in Int /\ pos[c] \in Nat
    BY FlashAssumption, BeyondSize, Locals
  <2>3. whence + offset \in Int
    BY <2>2
  <2>4. SeekTo(pos[c], whence + offset) \in Nat
    BY <2>2, <2>3, SeekTyped
  <2> QED
    BY <2>1, <2>4 DEF MoveTo
<1>2. pc[c] = "idle" /\ UNCHANGED << pc, call, heap >>
  BY DEF Lseek
<1>3. Surroundings
  BY FaultsTyped, Locals DEF Lseek, Surroundings
<1>4. /\ pc' = [pc EXCEPT ![c] = "idle"]
      /\ call' = [call EXCEPT ![c] = call[c]]
  BY <1>2 DEF FlashInv, TypeOK
<1>5. heap' = heap \ {c} /\ "idle" \in At /\ "idle" \notin OwnsBuffer
  BY <1>2, Owning DEF At, OwnsBuffer
<1>6. Knows("idle", call[c], p)
  BY DEF Knows, ReadAt, WriteAt
<1> QED
  BY <1>1, <1>3, <1>4, <1>5, <1>6, CallStep, Locals

LEMMA ResumeStep ==
  ASSUME FlashInv, NEW c \in Client, Resume(c)
  PROVE  FlashInv'
<1> DEFINE k == NewCall("read", 0, 0)
<1>1. k \in Call
  BY NewCallTyped
<1>2. Surroundings
  BY FaultsTyped, Locals DEF Resume, Surroundings
<1>3. heap' = heap \ {c} /\ "idle" \in At /\ "idle" \notin OwnsBuffer
  BY Owning DEF Resume, At, OwnsBuffer
<1>4. Knows("idle", k, pos[c])
  BY DEF Knows, ReadAt, WriteAt
<1>5. /\ pc' = [pc EXCEPT ![c] = "idle"]
      /\ call' = [call EXCEPT ![c] = k]
      /\ pos' = [pos EXCEPT ![c] = pos[c]]
  BY DEF Resume, Goto, FlashInv, TypeOK
<1> HIDE DEF k
<1> QED
  BY <1>1, <1>2, <1>3, <1>4, <1>5, CallStep, Locals

LEMMA PowerCutStep == FlashInv /\ PowerCut => FlashInv'
<1> SUFFICES ASSUME FlashInv, PowerCut PROVE FlashInv'
  OBVIOUS
<1>1. NewCall("read", 0, 0) \in Call
  BY NewCallTyped
<1>2. TypeOK'
  <2>1. cell' \in [Addr -> Byte]
    BY DEF PowerCut, FlashInv, TypeOK, Byte, Junk
  <2> QED
    BY <1>1, <2>1, FaultsTyped DEF PowerCut, FlashInv, TypeOK, At
<1>3. NoLeak'
  BY DEF PowerCut, NoLeak, OwnsBuffer
<1>4. \A c \in Client : Knows(pc'[c], call'[c], pos'[c])
  BY DEF PowerCut, Knows, ReadAt, WriteAt
<1> QED
  BY <1>2, <1>3, <1>4 DEF FlashInv

LEMMA AskStep ==
  ASSUME FlashInv, NEW c \in Client, Ask(c)
  PROVE  FlashInv'
<1>1. CASE Lseek(c)
  BY <1>1, LseekStep
<1>2. CASE Resume(c)
  BY <1>2, ResumeStep
<1>3. pos[c] \in Nat /\ pos[c] \in Int
  BY Locals
<1>4. \A offset \in Offsets : offset \in Int /\ SeekTo(pos[c], offset) \in Nat
  BY <1>3, SeekTyped, FlashAssumption
<1>5. ASSUME NEW n \in Lens, IoctlRead(c, n) \/ ReadCall(c, n) PROVE FlashInv'
  BY <1>3, <1>4, <1>5, BeginReadStep DEF IoctlRead, ReadCall
<1>6. ASSUME NEW n \in Lens, IoctlWrite(c, n) \/ WriteCall(c, n) PROVE FlashInv'
  BY <1>3, <1>4, <1>6, BeginWriteStep DEF IoctlWrite, WriteCall
<1> QED
  BY <1>1, <1>2, <1>5, <1>6 DEF Ask

LEMMA FlashInvInit == Init => FlashInv
<1> SUFFICES ASSUME Init PROVE FlashInv
  OBVIOUS
<1>1. NewCall("read", 0, 0) \in Call
  BY NewCallTyped
<1>2. TypeOK
  <2>1. cell \in [Addr -> Byte]
    BY BeyondSize DEF Init, Byte, Addr
  <2> QED
    BY <1>1, <2>1, FlashAssumption DEF Init, TypeOK, At
<1>3. NoLeak
  BY DEF Init, NoLeak, OwnsBuffer
<1>4. \A c \in Client : Knows(pc[c], call[c], pos[c])
  BY DEF Init, Knows, ReadAt, WriteAt
<1> QED
  BY <1>2, <1>3, <1>4 DEF FlashInv

LEMMA FlashInvStep == FlashInv /\ [Next]_vars => FlashInv'
<1> SUFFICES ASSUME FlashInv, [Next]_vars PROVE FlashInv'
  OBVIOUS
<1>1. ASSUME NEW c \in Client, Step(c) PROVE FlashInv'
  BY <1>1, ReadAllocStep, ReadFlashStep, CopyOutStep, WriteAllocStep, LoadStep,
     CopyInStep, EraseStep, ProgramStep DEF Step
<1>2. ASSUME NEW c \in Client, Ask(c) PROVE FlashInv'
  BY <1>2, AskStep
<1>3. ASSUME NEW b \in Block, MarkBad(b) PROVE FlashInv'
  BY <1>3, FlashAssumption DEF MarkBad, FlashInv, TypeOK, NoLeak
<1>4. CASE PowerCut
  BY <1>4, PowerCutStep
<1>5. CASE UNCHANGED vars
  BY <1>5 DEF vars, FlashInv, TypeOK, NoLeak
<1> QED
  BY <1>1, <1>2, <1>3, <1>4, <1>5 DEF Next

(* The inductive invariant holds of every behaviour of the driver.         *)
THEOREM FlashInvariant == Spec => []FlashInv
<1>1. FlashInv /\ [Next]_vars => FlashInv'
  BY FlashInvStep
<1> QED
  BY FlashInvInit, <1>1, PTL DEF Spec

(* The variables keep their types: in particular f_pos is never negative.  *)
THEOREM TypeCorrect == Spec => []TypeOK
<1>1. FlashInv => TypeOK
  BY DEF FlashInv
<1> QED
  BY FlashInvariant, <1>1, PTL

(* No path out of read or write forgets to free its buffer or frees it     *)
(* while the call can still use it, whatever fails (at91flash.c:140-517).  *)
THEOREM BuffersFreed == Spec => []NoLeak
<1>1. FlashInv => NoLeak
  BY DEF FlashInv
<1> QED
  BY FlashInvariant, <1>1, PTL

LEMMA KnowsFits == FlashInv => BufferFits
<1> SUFFICES ASSUME FlashInv, NEW c \in Client PROVE ReadFits(c) /\ WriteFits(c)
  BY DEF BufferFits
<1> DEFINE k == call[c]
           p == pos[c]
<1>1. k \in Call /\ p \in Nat /\ Knows(pc[c], k, p)
  BY Locals
<1>2. ReadFits(c)
  <2>1. CASE pc[c] = "r_read"
    BY <1>1, <2>1, ReadLenFits DEF ReadFits, Knows, ReadAt
  <2>2. CASE pc[c] = "r_copy"
    <3>1. /\ k.count <= MaxKmalloc /\ k.count \in 1 .. k.n /\ k.len > 0
          /\ k.done \in 0 .. k.count - k.len
      BY <1>1, <2>2 DEF Knows, ReadAt
    <3>2. k.len \in Nat /\ k.count \in Int /\ k.n \in Nat
      BY <1>1 DEF Call
    <3>3. k.count <= k.n /\ k.done + k.len <= k.count
      BY <3>1, <3>2
    <3> QED
      BY <2>2, <3>1, <3>3 DEF ReadFits
  <2> QED
    BY <2>1, <2>2 DEF ReadFits
<1>3. WriteFits(c)
  <2> SUFFICES ASSUME pc[c] = "w_fill", k.n <= EraseSize PROVE WriteFits(c)
    BY DEF WriteFits
  <2> QED
    BY <1>1, PieceBounds DEF WriteFits
<1> QED
  BY <1>2, <1>3

(* Every copy stays within readbuf or kbuf, within the user's buffer and   *)
(* within a block, for every geometry, offset and set of bad blocks.       *)
THEOREM CopiesFit == Spec => []BufferFits
  BY FlashInvariant, KnowsFits, PTL
------------------------------------------------------------------------------

(* kbuf holds nothing until the block is loaded or the user's data copied. *)
Blank == [i \in InBlock |-> Junk]
BlankInv == \A c \in Client : pc[c] = "w_alloc" => call[c].buf = Blank
------------------------------------------------------------------------------
(* What a client has in hand, and what becomes of the disk. *)

LEMMA NothingInHand ==
  ASSUME NEW w, NEW k, w \notin { "w_fill", "w_erase", "w_prog" }
  PROVE  HandAt(w, k) = Store!Nothing
  BY DEF HandAt, Store!Nothing

LEMMA SomethingInHand ==
  ASSUME NEW k
  PROVE  /\ HandAt("w_fill", k)  = Store!Copy(k.ebnum, k.buf, "taken")
         /\ HandAt("w_erase", k) = Store!Copy(k.ebnum, k.buf, "edited")
         /\ HandAt("w_prog", k)  = Store!Copy(k.ebnum, k.buf, "wiped")
  BY DEF HandAt, Store!Copy

LEMMA HandOf ==
  ASSUME NEW c \in Client
  PROVE  Hand[c] = HandAt(pc[c], call[c])
  BY DEF Hand

(* A step of c's call changes what c has in hand, and nobody else. *)
LEMMA HandMoves ==
  ASSUME FlashInv, NEW c \in Client, NEW w, NEW k,
         pc' = [pc EXCEPT ![c] = w], call' = [call EXCEPT ![c] = k]
  PROVE  Hand' = [Hand EXCEPT ![c] = HandAt(w, k)]
  BY DEF Hand, FlashInv, TypeOK

LEMMA HandReturns ==
  ASSUME FlashInv, NEW c \in Client, NEW k, NEW p, NEW r,
         Return(c, k, p, r) \/ FreeReturn(c, k, p, r)
  PROVE  Hand' = [Hand EXCEPT ![c] = Store!Nothing]
<1>1. PICK j : pc' = [pc EXCEPT ![c] = "done"] /\ call' = [call EXCEPT ![c] = j]
  BY DEF Return, FreeReturn, Goto
<1>2. Hand' = [Hand EXCEPT ![c] = HandAt("done", j)]
  BY <1>1, HandMoves
<1>3. HandAt("done", j) = Store!Nothing
  BY NothingInHand
<1> QED
  BY <1>2, <1>3

LEMMA HandGoesOn ==
  ASSUME FlashInv, NEW c \in Client, NEW k, NEW p, NEW w, GoOn(c, k, p, w)
  PROVE  Hand' = [Hand EXCEPT ![c] = HandAt(w, k)]
  BY HandMoves DEF GoOn, Goto

(* A call that had nothing in hand and has nothing changes no hand. *)
LEMMA HandKept ==
  ASSUME NEW c \in Client, Hand[c] = Store!Nothing,
         Hand' = [Hand EXCEPT ![c] = Store!Nothing]
  PROVE  UNCHANGED Hand
  BY DEF Hand

LEMMA DiskKept ==
  ASSUME UNCHANGED cell
  PROVE  UNCHANGED Disk
  BY DEF Disk

LEMMA DiskImage ==
  ASSUME NEW b \in Block
  PROVE  Disk[b] = [i \in InBlock |-> cell[StartOf(b) + i]]
  BY DEF Disk

(* The bytes of a block lie in that block alone. *)
LEMMA Within ==
  ASSUME NEW a \in Nat, NEW d \in Nat, StartOf(d) <= a, a < StartOf(d + 1)
  PROVE  BlockOf(a) = d
<1> DEFINE e == BlockOf(a)
<1>1. /\ e \in Nat /\ StartOf(e) <= a /\ a < StartOf(e + 1)
      /\ StartOf(e) \in Int /\ StartOf(e + 1) \in Int
      /\ StartOf(d) \in Int /\ StartOf(d + 1) \in Int
  BY DivBounds, BlockOfStart
<1> HIDE DEF e
<1>2. ~ (e + 1 <= d)
  <2> SUFFICES ASSUME e + 1 <= d PROVE FALSE
    OBVIOUS
  <2>1. StartOf(e + 1) <= StartOf(d)
    BY <1>1, MulMono, GeometryAssumption DEF StartOf
  <2> QED
    BY <1>1, <2>1
<1>3. ~ (d + 1 <= e)
  <2> SUFFICES ASSUME d + 1 <= e PROVE FALSE
    OBVIOUS
  <2>1. StartOf(d + 1) <= StartOf(e)
    BY <1>1, MulMono, GeometryAssumption DEF StartOf
  <2> QED
    BY <1>1, <2>1
<1>4. e = d
  BY <1>1, <1>2, <1>3
<1> QED
  BY <1>4 DEF e

LEMMA Place ==
  ASSUME NEW b \in Block, NEW i \in InBlock
  PROVE  /\ StartOf(b) + i \in Addr
         /\ StartOf(b) + i \in CellsOf(b)
         /\ (StartOf(b) + i) - StartOf(b) = i
         /\ BlockOf(StartOf(b) + i) = b
         /\ \A d \in Block : StartOf(b) + i \in CellsOf(d) => d = b
<1> DEFINE a == StartOf(b) + i
<1>1. b \in Nat /\ i \in Nat /\ i < EraseSize /\ EraseSize \in Nat
  BY GeometryAssumption DEF Block, InBlock
<1>2. /\ StartOf(b) \in Nat /\ a \in Nat /\ a \in Addr
      /\ StartOf(b) <= a /\ a < StartOf(b + 1) /\ StartOf(b + 1) \in Int
  BY <1>1, BlockCells
<1>3. BlockOf(a) = b
  BY <1>1, <1>2, Within
<1>4. ASSUME NEW d \in Block, a \in CellsOf(d) PROVE d = b
  <2>1. d \in Nat /\ StartOf(d) \in Nat /\ StartOf(d + 1) \in Int
    BY BlockCells, GeometryAssumption DEF Block
  <2>2. StartOf(d) <= a /\ a < StartOf(d + 1)
    BY <1>2, <1>4, <2>1 DEF CellsOf
  <2> QED
    BY <1>2, <1>3, <2>1, <2>2, Within
<1> QED
  BY <1>1, <1>2, <1>3, <1>4 DEF CellsOf

(* Writing one block of the partition changes one block of the disk. *)
LEMMA DiskChanges ==
  ASSUME NEW b \in Block, NEW f \in [InBlock -> Int], cell' = WithBlock(b, f)
  PROVE  Disk' = [Disk EXCEPT ![b] = f]
<1>1. ASSUME NEW d \in Block, NEW i \in InBlock
      PROVE  cell'[StartOf(d) + i] = IF d = b THEN f[i] ELSE cell[StartOf(d) + i]
  <2>1. /\ StartOf(d) + i \in Addr
        /\ StartOf(d) + i \in CellsOf(b) <=> d = b
        /\ (StartOf(d) + i) - StartOf(d) = i
    BY Place
  <2> QED
    BY <2>1 DEF WithBlock
<1>2. Disk' = [d \in Block |-> [i \in InBlock |-> cell'[StartOf(d) + i]]]
  BY DEF Disk
<1>3. Disk' = [d \in Block |-> IF d = b THEN f ELSE Disk[d]]
  <2>1. ASSUME NEW d \in Block, d = b
        PROVE [i \in InBlock |-> cell'[StartOf(d) + i]] = f
    BY <1>1, <2>1
  <2>2. ASSUME NEW d \in Block, d # b
        PROVE [i \in InBlock |-> cell'[StartOf(d) + i]] = Disk[d]
    BY <1>1, <2>2, DiskImage
  <2> QED
    BY <1>2, <2>1, <2>2
<1> QED
  BY <1>3 DEF Disk
------------------------------------------------------------------------------
(* The steps of a call that leave disk and hands alone. *)

InHand == { "w_fill", "w_erase", "w_prog" }

LEMMA QuietReturn ==
  ASSUME FlashInv, NEW c \in Client, pc[c] \notin InHand, NEW k, NEW p, NEW r,
         Return(c, k, p, r) \/ FreeReturn(c, k, p, r)
  PROVE  UNCHANGED Hand
<1>1. Hand[c] = Store!Nothing
  BY HandOf, NothingInHand DEF InHand
<1> QED
  BY <1>1, HandReturns, HandKept

LEMMA QuietGoOn ==
  ASSUME FlashInv, NEW c \in Client, pc[c] \notin InHand, NEW k, NEW p, NEW w,
         w \notin InHand, GoOn(c, k, p, w)
  PROVE  UNCHANGED Hand
<1>1. Hand[c] = Store!Nothing /\ HandAt(w, k) = Store!Nothing
  BY HandOf, NothingInHand DEF InHand
<1>2. Hand' = [Hand EXCEPT ![c] = HandAt(w, k)]
  BY HandGoesOn
<1> QED
  BY <1>1, <1>2, HandKept

LEMMA Unmarked ==
  ASSUME NoFault \/ MemFault \/ MtdFault
  PROVE  UNCHANGED bad
  BY DEF NoFault, MemFault, MtdFault, env

LEMMA ReadsQuiet ==
  ASSUME FlashInv, NEW c \in Client, ReadAlloc(c) \/ ReadFlash(c) \/ CopyOut(c)
  PROVE  UNCHANGED << Disk, bad, Hand >>
<1>1. UNCHANGED << Disk, bad >>
  BY DiskKept, Unmarked DEF ReadAlloc, ReadFlash, CopyOut
<1>2. "r_read" \notin InHand /\ "r_copy" \notin InHand /\ "r_alloc" \notin InHand
  BY DEF InHand
<1>3. ASSUME NEW k, NEW p, AfterPiece(c, k, p), pc[c] \notin InHand
      PROVE  UNCHANGED Hand
  BY <1>2, <1>3, QuietReturn, QuietGoOn DEF AfterPiece
<1>4. CASE ReadAlloc(c)
  BY <1>1, <1>2, <1>4, QuietReturn, QuietGoOn DEF ReadAlloc
<1>5. CASE ReadFlash(c)
  <2>1. PICK m, good : Delivered(c, m, good)
    BY <1>5 DEF ReadFlash
  <2>2. pc[c] \notin InHand
    BY <1>2, <1>5 DEF ReadFlash
  <2> QED
    BY <1>1, <1>2, <1>3, <2>1, <2>2, QuietReturn, QuietGoOn DEF Delivered
<1>6. CASE CopyOut(c)
  BY <1>1, <1>2, <1>3, <1>6, QuietReturn, QuietGoOn DEF CopyOut
<1> QED
  BY <1>1, <1>4, <1>5, <1>6

LEMMA BeginsQuiet ==
  ASSUME FlashInv, NEW c \in Client, NEW off, NEW p, NEW n,
         BeginRead(c, off, p, n) \/ BeginWrite(c, off, p, n)
  PROVE  UNCHANGED << Disk, bad, Hand >>
<1>1. UNCHANGED << Disk, bad >>
  BY DiskKept DEF BeginRead, BeginWrite, Begin
<1>2. /\ "idle" \notin InHand /\ "r_alloc" \notin InHand /\ "w_alloc" \notin InHand
  BY DEF InHand
<1>3. CASE BeginRead(c, off, p, n)
  BY <1>1, <1>2, <1>3, QuietReturn, QuietGoOn DEF BeginRead, Begin
<1>4. CASE BeginWrite(c, off, p, n)
  BY <1>1, <1>2, <1>4, QuietReturn, QuietGoOn DEF BeginWrite, Begin
<1> QED
  BY <1>1, <1>3, <1>4

LEMMA AskQuiet ==
  ASSUME FlashInv, NEW c \in Client, Ask(c)
  PROVE  UNCHANGED << Disk, bad, Hand >>
<1>1. CASE Resume(c)
  <2>1. UNCHANGED << Disk, bad >>
    BY <1>1, DiskKept, Unmarked DEF Resume
  <2>2. Hand[c] = Store!Nothing /\ HandAt("idle", NewCall("read", 0, 0)) = Store!Nothing
    BY <1>1, HandOf, NothingInHand DEF Resume
  <2>3. Hand' = [Hand EXCEPT ![c] = HandAt("idle", NewCall("read", 0, 0))]
    BY <1>1, HandMoves DEF Resume, Goto
  <2> QED
    BY <2>1, <2>2, <2>3, HandKept
<1>2. CASE Lseek(c)
  BY <1>2, DiskKept, Unmarked DEF Lseek, Hand
<1>3. ASSUME NEW n \in Lens,
             IoctlRead(c, n) \/ ReadCall(c, n) \/ IoctlWrite(c, n) \/ WriteCall(c, n)
      PROVE  UNCHANGED << Disk, bad, Hand >>
  BY <1>3, BeginsQuiet DEF IoctlRead, ReadCall, IoctlWrite, WriteCall
<1> QED
  BY <1>1, <1>2, <1>3 DEF Ask
------------------------------------------------------------------------------
(* The steps of a write. *)

LEMMA AllocImplements ==
  ASSUME FlashInv, BlankInv, NEW c \in Client, WriteAlloc(c)
  PROVE  Store!TakeBlank(c) \/ UNCHANGED << Disk, bad, Hand >>
<1> DEFINE k == call[c]
<1>1. UNCHANGED << Disk, bad >>
  BY DiskKept, Unmarked DEF WriteAlloc
<1>2. Hand[c] = Store!Nothing
  BY HandOf, NothingInHand DEF WriteAlloc
<1>3. /\ k \in Call /\ k.phase = "whole" /\ k.ebnum \in Block /\ k.boff \in InBlock
      /\ pos[c] = StartOf(k.ebnum) + k.boff /\ k.buf = Blank
  BY Locals DEF WriteAlloc, Knows, WriteAt, BlankInv
<1>4. CASE pos[c] = 0 /\ GoOn(c, [k EXCEPT !.phase = "head"], 0, "w_fill")
  <2>1. k.ebnum = 0
    <3>1. StartOf(k.ebnum) = 0 /\ k.ebnum \in Nat
      BY <1>3, <1>4, BlockCells, GeometryAssumption DEF InBlock, Block
    <3>2. BlockOf(0) = k.ebnum /\ BlockOf(0) = 0
      <4>1. BlockOf(StartOf(k.ebnum)) = k.ebnum
        BY <3>1, BlockOfStart
      <4>2. 0 \in Nat /\ StartOf(0) = 0
        BY GeometryAssumption DEF StartOf
      <4>3. BlockOf(StartOf(0)) = 0
        BY <4>2, BlockOfStart
      <4> QED
        BY <3>1, <4>1, <4>2, <4>3
    <3> QED
      BY <3>2
  <2> DEFINE j == [k EXCEPT !.phase = "head"]
  <2>2. j.ebnum = 0 /\ j.buf = Store!Ruined
    BY <1>3, <2>1 DEF Call, Store!Ruined, Blank
  <2> HIDE DEF j
  <2>3. Hand' = [Hand EXCEPT ![c] = HandAt("w_fill", j)]
    BY <1>4, HandGoesOn DEF j
  <2>4. HandAt("w_fill", j) = Store!Copy(0, Store!Ruined, "taken")
    BY <2>2, SomethingInHand
  <2>5. Store!Holds(c, "none")
    BY <1>2 DEF Store!Holds, Store!Nothing
  <2>6. Hand' = [Hand EXCEPT ![c] = Store!Copy(0, Store!Ruined, "taken")]
    BY <2>3, <2>4
  <2>7. Store!TakeBlank(c)
    BY <1>1, <2>5, <2>6 DEF Store!TakeBlank
  <2> QED
    BY <2>7
<1>5. CASE GoOn(c, k, pos[c], "w_load") \/ Return(c, k, pos[c], ENOMEM)
  <2>1. pc[c] \notin InHand /\ "w_load" \notin InHand
    BY DEF WriteAlloc, InHand
  <2> QED
    BY <1>1, <1>5, <2>1, QuietReturn, QuietGoOn
<1> QED
  BY <1>4, <1>5 DEF WriteAlloc

LEMMA LoadImplements ==
  ASSUME FlashInv, NEW c \in Client, Load(c)
  PROVE  \/ \E b \in Block : Store!Take(c, b)
         \/ UNCHANGED << Disk, bad, Hand >>
<1> DEFINE k == Loaded(call[c])
           j(ph) == [k EXCEPT !.phase = ph]
<1>1. UNCHANGED << Disk, bad >>
  BY DiskKept, Unmarked DEF Load
<1>2. Hand[c] = Store!Nothing
  BY HandOf, NothingInHand DEF Load
<1>3. call[c] \in Call /\ call[c].ebnum \in Block
  BY Locals DEF Load, Knows, WriteAt
<1>4. CASE \E ph : GoOn(c, j(ph), pos[c], "w_fill")
  <2>1. PICK ph : GoOn(c, j(ph), pos[c], "w_fill")
    BY <1>4
  <2>2. j(ph).ebnum = call[c].ebnum /\ j(ph).buf = Disk[call[c].ebnum]
    BY <1>3, DiskImage DEF Loaded, Call
  <2>3. Hand' = [Hand EXCEPT ![c] = HandAt("w_fill", j(ph))]
    BY <2>1, HandGoesOn
  <2>4. HandAt("w_fill", j(ph)) = Store!Copy(call[c].ebnum, Disk[call[c].ebnum], "taken")
    <3> HIDE DEF j
    <3> QED
      BY <2>2, SomethingInHand
  <2>5. Store!Holds(c, "none")
    BY <1>2 DEF Store!Holds, Store!Nothing
  <2>6. Hand' = [Hand EXCEPT ![c] = Store!Copy(call[c].ebnum, Disk[call[c].ebnum], "taken")]
    BY <2>3, <2>4
  <2>7. Store!Take(c, call[c].ebnum)
    BY <1>1, <2>5, <2>6 DEF Store!Take
  <2> QED
    BY <1>3, <2>7
<1>5. CASE FreeReturn(c, k, pos[c], EFAULT) \/ FreeReturn(c, call[c], pos[c], EFAULT)
  <2>1. pc[c] \notin InHand /\ "w_load" \notin InHand
    BY DEF Load, InHand
  <2> QED
    BY <1>1, <1>5, <2>1, QuietReturn, QuietGoOn
<1> QED
  BY <1>4, <1>5 DEF Load

(* The piece copied in is a run of the user's data, cut off at the end of  *)
(* kbuf.                                                                   *)
LEMMA FilledIsWith ==
  ASSUME FlashInv, NEW c \in Client, pc[c] = "w_fill"
  PROVE  \E at \in InBlock, end \in InBlock, first \in DOMAIN UserData[c] :
           /\ at <= end /\ first + (end - at) \in DOMAIN UserData[c]
           /\ Filled(call[c], UserData[c])
                = Store!With(call[c].buf, UserData[c], at, end, first)
<1> DEFINE k     == call[c]
           at    == PieceAt(k)
           len   == PieceLen(k)
           first == PieceFrom(k)
           last  == at + len - 1
           end   == IF last < EraseSize THEN last ELSE EraseSize - 1
<1>1. k \in Call /\ pos[c] \in Nat /\ Knows("w_fill", k, pos[c])
  BY Locals
<1>2. /\ at \in InBlock /\ len \in Nat \ {0} /\ first \in Nat
      /\ first + len <= MaxLen
  <2>1. /\ at \in InBlock /\ len \in Nat \ {0} /\ first \in Nat
        /\ first + len <= k.n /\ k.n <= MaxLen /\ k.n \in Nat
    BY <1>1, PieceBounds DEF Call
  <2>2. MaxLen \in Nat
    BY BeyondSize DEF MaxLen
  <2> HIDE DEF at, len, first
  <2> QED
    BY <2>1, <2>2
<1>3. MaxLen \in Nat /\ EraseSize \in Nat \ {0}
  BY BeyondSize, GeometryAssumption DEF MaxLen
<1>4. DOMAIN UserData[c] = 0 .. MaxLen - 1
  BY FlashAssumption
<1>0. Filled(k, UserData[c])
        = [i \in InBlock |-> IF i \in at .. at + len - 1
                             THEN UserData[c][first + (i - at)] ELSE k.buf[i]]
  BY DEF Filled
<1> HIDE DEF at, len, first
<1>5. end \in InBlock /\ at <= end
  BY <1>2, <1>3 DEF InBlock
<1>6. first \in 0 .. MaxLen - 1 /\ first + (end - at) \in 0 .. MaxLen - 1
  BY <1>2, <1>3 DEF InBlock
<1>7. \A i \in InBlock : i \in at .. at + len - 1 <=> i \in at .. end
  BY <1>2, <1>3 DEF InBlock
<1> HIDE DEF end
<1>8. Filled(k, UserData[c]) = Store!With(k.buf, UserData[c], at, end, first)
  <2> DEFINE byte(i) == UserData[c][first + (i - at)]
  <2>1. \A i \in InBlock : (IF i \in at .. at + len - 1 THEN byte(i) ELSE k.buf[i])
                         = (IF i \in at .. end THEN byte(i) ELSE k.buf[i])
    BY <1>7
  <2>2. Store!With(k.buf, UserData[c], at, end, first)
          = [i \in InBlock |-> IF i \in at .. end THEN byte(i) ELSE k.buf[i]]
    BY DEF Store!With
  <2>3. Filled(k, UserData[c])
          = [i \in InBlock |-> IF i \in at .. at + len - 1 THEN byte(i) ELSE k.buf[i]]
    BY <1>0
  <2> QED
    BY <2>1, <2>2, <2>3
<1> QED
  BY <1>2, <1>4, <1>5, <1>6, <1>8

LEMMA CopyInImplements ==
  ASSUME FlashInv, NEW c \in Client, CopyIn(c)
  PROVE  Store!Edit(c) \/ Store!Drop(c)
<1> DEFINE k == call[c]
           F == Filled(k, UserData[c])
           j == [k EXCEPT !.buf = F]
<1>1. UNCHANGED << Disk, bad >>
  BY DiskKept, Unmarked DEF CopyIn
<1>2. k \in Call /\ pc[c] = "w_fill"
  BY Locals DEF CopyIn
<1>3. Hand[c] = Store!Copy(k.ebnum, k.buf, "taken")
  BY <1>2, HandOf, SomethingInHand
<1>4. /\ Store!Holds(c, "taken")
      /\ Hand[c].block = k.ebnum /\ Hand[c].image = k.buf
  BY <1>3 DEF Store!Holds, Store!Copy
<1>5. CASE GoOn(c, j, pos[c], "w_erase")
  <2>1. j.ebnum = k.ebnum /\ j.buf = F
    <3> HIDE DEF F
    <3> QED
      BY <1>2 DEF Call
  <2> HIDE DEF j
  <2>2. Hand' = [Hand EXCEPT ![c] = Store!Copy(k.ebnum, F, "edited")]
    BY <1>5, <2>1, HandGoesOn, SomethingInHand
  <2>3. PICK at \in InBlock, end \in InBlock, first \in DOMAIN UserData[c] :
          /\ at <= end /\ first + (end - at) \in DOMAIN UserData[c]
          /\ F = Store!With(k.buf, UserData[c], at, end, first)
    BY <1>2, FilledIsWith
  <2> HIDE DEF F
  <2>4. Hand' = [Hand EXCEPT ![c] =
                   Store!Copy(Hand[c].block,
                              Store!With(Hand[c].image, UserData[c], at, end, first),
                              "edited")]
    BY <1>4, <2>2, <2>3
  <2>5. Store!Edit(c)
    BY <1>1, <1>4, <2>3, <2>4 DEF Store!Edit
  <2> QED
    BY <2>5
<1>6. CASE FreeReturn(c, k, pos[c], EFAULT)
  <2>1. Store!LetGo(c)
    BY <1>6, HandReturns DEF Store!LetGo
  <2> QED
    BY <1>1, <1>4, <2>1 DEF Store!Drop
<1> QED
  BY <1>5, <1>6 DEF CopyIn

LEMMA EraseImplements ==
  ASSUME FlashInv, NEW c \in Client, Erase(c)
  PROVE  Store!Wipe(c) \/ Store!FailToWipe(c) \/ Store!Drop(c)
<1> DEFINE k == call[c]
           b == k.ebnum
<1>1. k \in Call /\ pc[c] = "w_erase" /\ b \in Block
  BY Locals DEF Erase, Knows, WriteAt
<1>2. Hand[c] = Store!Copy(b, k.buf, "edited")
  BY <1>1, HandOf, SomethingInHand
<1>3. Store!Holds(c, "edited") /\ Hand[c].block = b
  BY <1>2 DEF Store!Holds, Store!Copy
<1>4. UNCHANGED bad
  BY Unmarked DEF Erase
<1>5. /\ Erased = Store!Erased /\ Erased \in [InBlock -> Int]
      /\ Ruined = Store!Ruined /\ Ruined \in [InBlock -> Int]
  BY DEF Erased, Ruined, Store!Erased, Store!Ruined, FF, Junk
<1>6. CASE b \notin bad /\ cell' = WithBlock(b, Erased) /\ GoOn(c, k, pos[c], "w_prog")
  <2>1. Store!Change(Hand[c].block, Store!Erased)
    <3>1. Disk' = [Disk EXCEPT ![b] = Erased]
      BY <1>1, <1>5, <1>6, DiskChanges
    <3> QED
      BY <1>3, <1>5, <3>1 DEF Store!Change
  <2>2. Hand' = [Hand EXCEPT ![c] = HandAt("w_prog", k)]
    BY <1>6, HandGoesOn
  <2>3. HandAt("w_prog", k) = [Hand[c] EXCEPT !.stage = "wiped"]
    <3>1. HandAt("w_prog", k) = Store!Copy(b, k.buf, "wiped")
      BY SomethingInHand
    <3>2. [Hand[c] EXCEPT !.stage = "wiped"] = Store!Copy(b, k.buf, "wiped")
      BY <1>2 DEF Store!Copy
    <3> QED
      BY <3>1, <3>2
  <2>4. Hand' = [Hand EXCEPT ![c].stage = "wiped"]
    BY <2>2, <2>3
  <2>5. Store!Wipe(c)
    BY <1>3, <1>4, <1>6, <2>1, <2>4 DEF Store!Wipe
  <2> QED
    BY <2>5
<1>7. CASE FreeReturn(c, k, pos[c], EFAULT) /\ cell' = cell
  <2>1. Store!LetGo(c)
    BY <1>7, HandReturns DEF Store!LetGo
  <2> QED
    BY <1>3, <1>4, <1>7, <2>1, DiskKept DEF Store!Drop
<1>8. CASE b \notin bad /\ cell' = WithBlock(b, Ruined) /\ FreeReturn(c, k, pos[c], EFAULT)
  <2>1. Store!LetGo(c)
    BY <1>8, HandReturns DEF Store!LetGo
  <2>2. Store!Change(Hand[c].block, Store!Ruined)
    <3>1. Disk' = [Disk EXCEPT ![b] = Ruined]
      BY <1>1, <1>5, <1>8, DiskChanges
    <3> QED
      BY <1>3, <1>5, <3>1 DEF Store!Change
  <2> QED
    BY <1>3, <1>4, <1>8, <2>1, <2>2 DEF Store!FailToWipe
<1> QED
  BY <1>6, <1>7, <1>8 DEF Erase

LEMMA ProgramImplements ==
  ASSUME FlashInv, NEW c \in Client, Program(c)
  PROVE  Store!PutBack(c)
<1> DEFINE k == call[c]
           b == k.ebnum
<1>1. k \in Call /\ pc[c] = "w_prog" /\ b \in Block /\ cell \in [Addr -> Byte]
  BY Locals DEF Program, Knows, WriteAt
<1>2. Hand[c] = Store!Copy(b, k.buf, "wiped")
  BY <1>1, HandOf, SomethingInHand
<1>3. Store!Holds(c, "wiped") /\ Hand[c].block = b /\ Hand[c].image = k.buf
  BY <1>2 DEF Store!Holds, Store!Copy
<1>4. PICK m \in 0 .. EraseSize :
        cell' = WithBlock(b, Programmed(k, m)) /\ AfterProgram(c, k, m)
  BY GeometryAssumption DEF Program
<1>5. UNCHANGED bad
  BY Unmarked DEF Program
<1>6. Programmed(k, m) = Store!Onto(Disk[b], k.buf, m)
  <2>1. \A i \in InBlock : i \in 0 .. m - 1 <=> i < m
    BY GeometryAssumption DEF InBlock
  <2>2. \A i \in InBlock : Disk[b][i] = cell[StartOf(b) + i]
    BY <1>1, DiskImage
  <2> QED
    BY <2>1, <2>2 DEF Programmed, Store!Onto
<1>7. Programmed(k, m) \in [InBlock -> Int]
  BY <1>1, BlockCells DEF Programmed, Call, Byte, FF, Junk
<1>8. Store!Change(Hand[c].block, Store!Onto(Disk[Hand[c].block], Hand[c].image, m))
  <2>1. Disk' = [Disk EXCEPT ![b] = Programmed(k, m)]
    BY <1>1, <1>4, <1>7, DiskChanges
  <2> QED
    BY <1>3, <1>6, <2>1 DEF Store!Change
<1>9. Store!LetGo(c)
  <2>1. CASE \E p, r : FreeReturn(c, k, p, r)
    BY <2>1, HandReturns DEF Store!LetGo
  <2>2. CASE \E j, p : GoOn(c, j, p, "w_load")
    <3>1. PICK j, p : GoOn(c, j, p, "w_load")
      BY <2>2
    <3>2. HandAt("w_load", j) = Store!Nothing
      BY NothingInHand
    <3>3. Hand' = [Hand EXCEPT ![c] = HandAt("w_load", j)]
      BY <3>1, HandGoesOn
    <3> QED
      BY <3>2, <3>3 DEF Store!LetGo
  <2> QED
    BY <1>4, <2>1, <2>2 DEF AfterProgram
<1>10. m \in { 0 } \cup { i + 1 : i \in InBlock }
  <2>1. CASE m = 0
    BY <2>1
  <2>2. CASE m # 0
    <3>1. m - 1 \in InBlock /\ m = (m - 1) + 1
      BY <2>2, GeometryAssumption DEF InBlock
    <3> QED
      BY <3>1
  <2> QED
    BY <2>1, <2>2
<1> QED
  BY <1>3, <1>5, <1>8, <1>9, <1>10 DEF Store!PutBack
------------------------------------------------------------------------------
(* The surroundings. *)

LEMMA MarkBadImplements ==
  ASSUME NEW b \in Block, MarkBad(b)
  PROVE  Store!Wear(b)
  BY DiskKept DEF MarkBad, Store!Wear, Hand

LEMMA PowerCutImplements ==
  ASSUME FlashInv, PowerCut
  PROVE  Store!PowerCut
<1> DEFINE driver == { call[c].ebnum :
                         c \in { d \in Client : pc[d] = "w_erase" /\ call[d].ebnum \notin bad }
                               \cup { d \in Client : pc[d] = "w_prog" } }
           busy   == { Hand[c].block :
                         c \in { d \in Client : Store!Holds(d, "edited")
                                                \/ Store!Holds(d, "wiped") } }
<1>1. driver \subseteq busy
  <2> SUFFICES ASSUME NEW c \in Client, pc[c] \in { "w_erase", "w_prog" }
               PROVE  call[c].ebnum \in busy
    OBVIOUS
  <2>1. CASE pc[c] = "w_erase"
    <3>1. Hand[c] = Store!Copy(call[c].ebnum, call[c].buf, "edited")
      BY <2>1, HandOf, SomethingInHand
    <3> QED
      BY <3>1 DEF Store!Holds, Store!Copy
  <2>2. CASE pc[c] = "w_prog"
    <3>1. Hand[c] = Store!Copy(call[c].ebnum, call[c].buf, "wiped")
      BY <2>2, HandOf, SomethingInHand
    <3> QED
      BY <3>1 DEF Store!Holds, Store!Copy
  <2> QED
    BY <2>1, <2>2
<1>2. PICK hit \in SUBSET driver :
        cell' = [a \in Addr |-> IF BlockOf(a) \in hit THEN Junk ELSE cell[a]]
  BY DEF PowerCut
<1>3. Disk' = [b \in Block |-> IF b \in hit THEN Store!Ruined ELSE Disk[b]]
  <2>1. ASSUME NEW b \in Block, NEW i \in InBlock
        PROVE  cell'[StartOf(b) + i] = IF b \in hit THEN Junk ELSE cell[StartOf(b) + i]
    BY <1>2, Place
  <2>2. ASSUME NEW b \in Block, b \in hit
        PROVE  [i \in InBlock |-> cell'[StartOf(b) + i]] = Store!Ruined
    BY <2>1, <2>2 DEF Store!Ruined
  <2>3. ASSUME NEW b \in Block, b \notin hit
        PROVE  [i \in InBlock |-> cell'[StartOf(b) + i]] = Disk[b]
    BY <2>1, <2>3, DiskImage
  <2> QED
    BY <2>2, <2>3 DEF Disk
<1>4. Hand' = [c \in Client |-> Store!Nothing]
  BY DEF PowerCut, Hand, HandAt, Store!Nothing
<1>5. UNCHANGED bad
  BY Unmarked DEF PowerCut
<1> HIDE DEF driver
<1>6. hit \in SUBSET busy
  BY <1>1, <1>2
<1> QED
  BY <1>3, <1>4, <1>5, <1>6 DEF Store!PowerCut

(* Every step of the driver is a step of the store, or leaves it alone. *)
LEMMA StepImplementsStore ==
  ASSUME FlashInv, BlankInv, [Next]_vars
  PROVE  [Store!Next]_<< Disk, bad, Hand >>
<1>1. ASSUME NEW c \in Client, Step(c)
      PROVE  [Store!Next]_<< Disk, bad, Hand >>
  <2>1. CASE ReadAlloc(c) \/ ReadFlash(c) \/ CopyOut(c)
    BY <2>1, ReadsQuiet
  <2>2. CASE WriteAlloc(c)
    BY <2>2, AllocImplements DEF Store!Next
  <2>3. CASE Load(c)
    BY <2>3, LoadImplements DEF Store!Next
  <2>4. CASE CopyIn(c)
    BY <2>4, CopyInImplements DEF Store!Next
  <2>5. CASE Erase(c)
    BY <2>5, EraseImplements DEF Store!Next
  <2>6. CASE Program(c)
    BY <2>6, ProgramImplements DEF Store!Next
  <2> QED
    BY <1>1, <2>1, <2>2, <2>3, <2>4, <2>5, <2>6 DEF Step
<1>2. ASSUME NEW c \in Client, Ask(c)
      PROVE  [Store!Next]_<< Disk, bad, Hand >>
  BY <1>2, AskQuiet
<1>3. ASSUME NEW b \in Block, MarkBad(b)
      PROVE  [Store!Next]_<< Disk, bad, Hand >>
  BY <1>3, MarkBadImplements DEF Store!Next
<1>4. CASE PowerCut
  BY <1>4, PowerCutImplements DEF Store!Next
<1>5. CASE UNCHANGED vars
  BY <1>5 DEF vars, Disk, Hand
<1> QED
  BY <1>1, <1>2, <1>3, <1>4, <1>5 DEF Next

LEMMA InitImplementsStore == Init => Store!Init
<1> SUFFICES ASSUME Init PROVE Store!Init
  OBVIOUS
<1>1. cell \in [Addr -> Int]
  BY FlashInvInit DEF FlashInv, TypeOK, Byte
<1>2. Disk \in [Block -> [InBlock -> Int]]
  BY <1>1, Place DEF Disk
<1>3. bad \in BadSets /\ Hand = [c \in Client |-> Store!Nothing]
  BY DEF Init, Hand, HandAt, Store!Nothing
<1> QED
  BY <1>2, <1>3 DEF Store!Init
------------------------------------------------------------------------------
(* kbuf is blank until something is read into it. *)

LEMMA BlankReturn ==
  ASSUME FlashInv, BlankInv, NEW c \in Client, NEW k, NEW p, NEW r,
         Return(c, k, p, r) \/ FreeReturn(c, k, p, r)
  PROVE  BlankInv'
<1>1. PICK j : pc' = [pc EXCEPT ![c] = "done"] /\ call' = [call EXCEPT ![c] = j]
  BY DEF Return, FreeReturn, Goto
<1> QED
  BY <1>1 DEF BlankInv, FlashInv, TypeOK, Blank

LEMMA BlankGoOn ==
  ASSUME FlashInv, BlankInv, NEW c \in Client, NEW k, NEW p, NEW w,
         GoOn(c, k, p, w), w # "w_alloc" \/ k.buf = Blank
  PROVE  BlankInv'
  BY DEF GoOn, Goto, BlankInv, FlashInv, TypeOK, Blank

LEMMA BlankBegins ==
  ASSUME FlashInv, BlankInv, NEW c \in Client, NEW off, NEW p, NEW n,
         BeginRead(c, off, p, n) \/ BeginWrite(c, off, p, n)
  PROVE  BlankInv'
<1>1. CASE BeginRead(c, off, p, n)
  BY <1>1, BlankReturn, BlankGoOn DEF BeginRead
<1>2. CASE BeginWrite(c, off, p, n)
  <2> DEFINE j == AtBlock([NewCall("write", off, n)
                             EXCEPT !.count = WriteCount(p, n),
                                    !.boff = OffsetIn(Landing(p, bad))], p)
  <2>1. j.buf = Blank
    BY DEF AtBlock, NewCall, Blank
  <2> HIDE DEF j
  <2> QED
    BY <1>2, <2>1, BlankReturn, BlankGoOn DEF BeginWrite, j
<1> QED
  BY <1>1, <1>2

LEMMA BlankSteps ==
  ASSUME FlashInv, BlankInv, NEW c \in Client, Step(c)
  PROVE  BlankInv'
<1>1. ASSUME NEW k, NEW p, AfterPiece(c, k, p) PROVE BlankInv'
  BY <1>1, BlankReturn, BlankGoOn DEF AfterPiece
<1>2. ASSUME NEW k, NEW m, AfterProgram(c, k, m) PROVE BlankInv'
  BY <1>2, BlankReturn, BlankGoOn DEF AfterProgram
<1>3. CASE ReadAlloc(c)
  BY <1>3, BlankReturn, BlankGoOn DEF ReadAlloc
<1>4. CASE ReadFlash(c)
  <2>1. PICK m, good : Delivered(c, m, good)
    BY <1>4 DEF ReadFlash
  <2> QED
    BY <1>1, <2>1, BlankGoOn DEF Delivered
<1>5. CASE CopyOut(c)
  BY <1>1, <1>5, BlankReturn DEF CopyOut
<1>6. CASE WriteAlloc(c)
  BY <1>6, BlankReturn, BlankGoOn DEF WriteAlloc
<1>7. CASE Load(c)
  BY <1>7, BlankReturn, BlankGoOn DEF Load
<1>8. CASE CopyIn(c)
  BY <1>8, BlankReturn, BlankGoOn DEF CopyIn
<1>9. CASE Erase(c)
  BY <1>9, BlankReturn, BlankGoOn DEF Erase
<1>10. CASE Program(c)
  BY <1>2, <1>10 DEF Program
<1> QED
  BY <1>3, <1>4, <1>5, <1>6, <1>7, <1>8, <1>9, <1>10 DEF Step

LEMMA BlankStep == FlashInv /\ BlankInv /\ [Next]_vars => BlankInv'
<1> SUFFICES ASSUME FlashInv, BlankInv, [Next]_vars PROVE BlankInv'
  OBVIOUS
<1>1. ASSUME NEW c \in Client, Ask(c) PROVE BlankInv'
  <2>1. CASE Resume(c) \/ Lseek(c)
    BY <2>1 DEF Resume, Lseek, Goto, BlankInv, Blank, FlashInv, TypeOK
  <2>2. ASSUME NEW n \in Lens,
               IoctlRead(c, n) \/ ReadCall(c, n) \/ IoctlWrite(c, n) \/ WriteCall(c, n)
        PROVE  BlankInv'
    BY <2>2, BlankBegins DEF IoctlRead, ReadCall, IoctlWrite, WriteCall
  <2> QED
    BY <1>1, <2>1, <2>2 DEF Ask
<1>2. CASE (\E b \in Block : MarkBad(b)) \/ PowerCut \/ UNCHANGED vars
  BY <1>2 DEF MarkBad, PowerCut, vars, BlankInv, Blank
<1> QED
  BY <1>1, <1>2, BlankSteps DEF Next

LEMMA BlankInvariant == Spec => []BlankInv
<1>1. Init => BlankInv
  BY DEF Init, BlankInv
<1> QED
  BY <1>1, BlankStep, FlashInvariant, PTL DEF Spec

(* Whatever fails, whatever goes bad and however many clients interleave,  *)
(* the partition changes as a FlashStore does: only a client that holds an *)
(* edited copy of a block wipes it, nothing but that copy goes back, and a *)
(* block is lost only in between (at91flash.c:364-517).                    *)
THEOREM StoreImplemented == Spec => StoreKept
<1>1. Init => Store!Init
  BY InitImplementsStore
<1>2. FlashInv /\ BlankInv /\ [Next]_vars => [Store!Next]_<< Disk, bad, Hand >>
  BY StepImplementsStore
<1> QED
  BY <1>1, <1>2, FlashInvariant, BlankInvariant, PTL DEF Spec, StoreKept, Store!Spec, Store!store
------------------------------------------------------------------------------
(* Whole calls. *)

(* A call of n bytes from s, when the blocks of B are bad: how many bytes  *)
(* go to its first block, the position behind it, the place of a byte, the *)
(* bytes that have one and the blocks they are in.                         *)
Rest(s, B) == EraseSize - OffsetIn(Landing(s, B))
Turn(s, B) == Landing(s, B) + Rest(s, B)

PlaceOf(s, i, B) ==
  IF i < Rest(s, B) THEN Landing(s, B) + i
  ELSE Landing(Turn(s, B), B) + (i - Rest(s, B))

Asked(s, n, B) ==
  { i \in 0 .. n - 1 :
      /\ Found(s, B)
      /\ i < 2 * EraseSize - OffsetIn(Landing(s, B))
      /\ PlaceOf(s, i, B) < Size }

Reach(s, n, B) == { BlockOf(PlaceOf(s, i, B)) : i \in Asked(s, n, B) }

LEMMA BlocksNext ==
  ASSUME NEW c \in Client
  PROVE  /\ Asks(c) = Asked(start[c], call[c].n, bad)
         /\ BlocksOf(c) = Reach(start[c], call[c].n, bad)
         /\ BlocksOf(c)' = Reach(start'[c], call'[c].n, bad')
  BY DEF BlocksOf, Asks, Reachable, Target, PlaceOf, Rest, Turn, Asked, Reach

(* The first block of a call is the first good one from its position.      *)
LEMMA FirstPlace ==
  ASSUME NEW s \in Nat, NEW B \in SUBSET Block, Found(s, B)
  PROVE  /\ FirstGood(s, B) \in Block \ B
         /\ Landing(s, B) \in Nat
         /\ s <= Landing(s, B)
         /\ BlockOf(Landing(s, B)) = FirstGood(s, B)
         /\ OffsetIn(Landing(s, B)) \in InBlock
         /\ Rest(s, B) \in 1 .. EraseSize
         /\ Landing(s, B) = StartOf(FirstGood(s, B)) + OffsetIn(Landing(s, B))
         /\ Turn(s, B) \in Nat
         /\ Turn(s, B) = StartOf(FirstGood(s, B) + 1)
         /\ BlockOf(Turn(s, B)) = FirstGood(s, B) + 1
         /\ Turn(s, B) <= Size
<1> DEFINE land == Landing(s, B)
           f    == FirstGood(s, B)
<1>1. /\ land \in Nat /\ f \in Block /\ BlockOf(land) = f
      /\ f \in Nat /\ f < EbCnt /\ EraseSize \in Nat \ {0} /\ EbCnt \in Nat
  BY LandingFacts, GeometryAssumption DEF Block
<1>2. f \in GoodFrom(s, B) /\ \A x \in GoodFrom(s, B) : f <= x
  BY FirstGoodExists
<1>3. BlockOf(s) \in Nat /\ BlockOf(s) <= f /\ f \notin B
  BY <1>1, <1>2, DivBounds DEF GoodFrom
<1>4. land = IF f = BlockOf(s) THEN s ELSE StartOf(f)
  BY <1>1, <1>3 DEF Landing
<1>5. s <= land
  <2>1. CASE f = BlockOf(s)
    BY <1>4, <2>1
  <2>2. CASE f # BlockOf(s)
    <3>1. /\ s < StartOf(BlockOf(s) + 1) /\ StartOf(f) \in Nat
          /\ StartOf(BlockOf(s) + 1) \in Nat
      BY <1>1, <1>3, DivBounds, BlockOfStart, BlockOf(s) + 1 \in Nat
    <3>2. StartOf(BlockOf(s) + 1) <= StartOf(f)
      BY <1>1, <1>3, <2>2, MulMono DEF StartOf
    <3> QED
      BY <1>4, <2>2, <3>1, <3>2
  <2> QED
    BY <2>1, <2>2
<1>6. OffsetIn(land) \in InBlock /\ land = StartOf(f) + OffsetIn(land)
  BY <1>1, OffsetBounds DEF InBlock
<1>7. /\ StartOf(f) \in Nat /\ StartOf(f + 1) = StartOf(f) + EraseSize
      /\ StartOf(f + 1) \in Nat /\ BlockOf(StartOf(f + 1)) = f + 1
  BY <1>1, BlockCells, BlockOfStart, f + 1 \in Nat
<1>8. StartOf(f + 1) <= Size
  BY <1>1, MulMono DEF StartOf, Size
<1> HIDE DEF land, f
<1>9. EraseSize - OffsetIn(land) \in 1 .. EraseSize
  BY <1>1, <1>6 DEF InBlock
<1>10. land + (EraseSize - OffsetIn(land)) = StartOf(f + 1)
  BY <1>1, <1>6, <1>7 DEF InBlock
<1>11. /\ Rest(s, B) = EraseSize - OffsetIn(land)
       /\ Turn(s, B) = land + (EraseSize - OffsetIn(land))
  BY DEF Rest, Turn, land
<1> QED
  BY <1>1, <1>3, <1>5, <1>6, <1>7, <1>8, <1>9, <1>10, <1>11 DEF land, f

(* The second block is the first good one behind it, from its start.       *)
LEMMA SecondPlace ==
  ASSUME NEW s \in Nat, NEW B \in SUBSET Block, Found(s, B)
  PROVE  /\ Found(Turn(s, B), B) =>
              /\ FirstGood(Turn(s, B), B) \in Block \ B
              /\ FirstGood(s, B) < FirstGood(Turn(s, B), B)
              /\ Landing(Turn(s, B), B) = StartOf(FirstGood(Turn(s, B), B))
              /\ Turn(s, B) <= Landing(Turn(s, B), B)
         /\ ~ Found(Turn(s, B), B) => Landing(Turn(s, B), B) = Size
<1> DEFINE m == Turn(s, B)
           f == FirstGood(s, B)
           g == FirstGood(m, B)
<1>1. /\ m \in Nat /\ m = StartOf(f + 1) /\ BlockOf(m) = f + 1 /\ f \in Block
      /\ m <= Size
  BY FirstPlace
<1> HIDE DEF m, f
<1>2. f \in Nat /\ f < EbCnt /\ EbCnt \in Nat
  BY <1>1, GeometryAssumption DEF Block
<1>3. ASSUME Found(m, B)
      PROVE  g \in Block \ B /\ f < g /\ Landing(m, B) = StartOf(g) /\ m <= Landing(m, B)
  <2>1. g \in Block \ B /\ Landing(m, B) \in Nat /\ m <= Landing(m, B)
    BY <1>1, <1>3, FirstPlace
  <2>2. g \in GoodFrom(m, B)
    BY <1>1, <1>3, FirstGoodExists
  <2>3. g \in Nat /\ f + 1 <= g /\ g < EbCnt
    BY <1>1, <1>2, <2>2 DEF GoodFrom
  <2>4. Landing(m, B) = StartOf(g)
    BY <1>1, <1>2, <1>3, <2>3 DEF Landing
  <2> QED
    BY <1>2, <2>1, <2>3, <2>4
<1>4. ASSUME ~ Found(m, B)
      PROVE  Landing(m, B) = Size
  <2>1. CASE BlockOf(m) >= EbCnt
    BY <1>1, <2>1, BeyondSize DEF Landing
  <2>2. CASE ~ (BlockOf(m) >= EbCnt)
    BY <1>4, <2>2 DEF Landing
  <2> QED
    BY <2>1, <2>2
<1> QED
  BY <1>3, <1>4 DEF m, f

(* The bytes of the first block, and those of the second.                  *)
LEMMA PlaceFirst ==
  ASSUME NEW s \in Nat, NEW B \in SUBSET Block, Found(s, B),
         NEW i \in Nat, i < Rest(s, B)
  PROVE  /\ PlaceOf(s, i, B) = Landing(s, B) + i
         /\ OffsetIn(Landing(s, B)) + i \in InBlock
         /\ PlaceOf(s, i, B) = StartOf(FirstGood(s, B)) + (OffsetIn(Landing(s, B)) + i)
         /\ BlockOf(PlaceOf(s, i, B)) = FirstGood(s, B)
         /\ PlaceOf(s, i, B) \in Addr
<1> DEFINE o == OffsetIn(Landing(s, B))
           f == FirstGood(s, B)
<1>1. /\ o \in InBlock /\ Rest(s, B) = EraseSize - o /\ f \in Block
      /\ Landing(s, B) = StartOf(f) + o /\ StartOf(f) \in Nat /\ EraseSize \in Nat
  BY FirstPlace, BlockCells, GeometryAssumption DEF Rest
<1> HIDE DEF o, f
<1>2. o + i \in InBlock
  BY <1>1 DEF InBlock
<1>3. PlaceOf(s, i, B) = Landing(s, B) + i
  BY DEF PlaceOf
<1>4. PlaceOf(s, i, B) = StartOf(f) + (o + i)
  BY <1>1, <1>2, <1>3 DEF InBlock
<1> QED
  BY <1>1, <1>2, <1>3, <1>4, Place DEF o, f

LEMMA PlaceSecond ==
  ASSUME NEW s \in Nat, NEW B \in SUBSET Block, Found(s, B),
         Found(Turn(s, B), B), NEW j \in InBlock
  PROVE  /\ Rest(s, B) + j \in Nat
         /\ PlaceOf(s, Rest(s, B) + j, B) = StartOf(FirstGood(Turn(s, B), B)) + j
         /\ BlockOf(PlaceOf(s, Rest(s, B) + j, B)) = FirstGood(Turn(s, B), B)
         /\ PlaceOf(s, Rest(s, B) + j, B) \in Addr
<1> DEFINE r == Rest(s, B)
           g == FirstGood(Turn(s, B), B)
<1>1. r \in Nat /\ j \in Nat /\ g \in Block /\ Landing(Turn(s, B), B) = StartOf(g)
  BY FirstPlace, SecondPlace, GeometryAssumption DEF InBlock
<1>2. PlaceOf(s, r + j, B) = StartOf(g) + j
  <2>1. PlaceOf(s, r + j, B) = IF r + j < r THEN Landing(s, B) + (r + j)
                               ELSE StartOf(g) + ((r + j) - r)
    BY <1>1 DEF PlaceOf
  <2> HIDE DEF r, g
  <2> QED
    BY <1>1, <2>1
<1> QED
  BY <1>1, <1>2, Place

(* The bytes that have a place are those of two blocks. *)
LEMMA AskedIs ==
  ASSUME NEW s \in Nat, NEW B \in SUBSET Block, Found(s, B), NEW n \in Nat, NEW i \in Nat
  PROVE  i \in Asked(s, n, B) <=>
           /\ i < n
           /\ i < Rest(s, B) \/ (Found(Turn(s, B), B) /\ i < Rest(s, B) + EraseSize)
<1> DEFINE r == Rest(s, B)
           o == OffsetIn(Landing(s, B))
<1>1. /\ EraseSize \in Nat /\ o \in Nat /\ o < EraseSize /\ r = EraseSize - o /\ r \in Nat
      /\ Size \in Nat
  BY FirstPlace, BeyondSize, GeometryAssumption DEF Rest, InBlock
<1>2. i \in Asked(s, n, B) <=> i < n /\ i < r + EraseSize /\ PlaceOf(s, i, B) < Size
  <2>1. i \in Asked(s, n, B) <=>
          i \in 0 .. n - 1 /\ i < 2 * EraseSize - o /\ PlaceOf(s, i, B) < Size
    BY DEF Asked
  <2> HIDE DEF o, r
  <2> QED
    BY <1>1, <2>1
<1>3. CASE i < r
  <2>1. PlaceOf(s, i, B) \in Addr
    BY <1>3, PlaceFirst
  <2> HIDE DEF o, r
  <2> QED
    BY <1>1, <1>2, <1>3, <2>1 DEF Addr, r
<1>4. CASE ~ (i < r) /\ Found(Turn(s, B), B)
  <2> DEFINE j == i - r
  <2>1. ASSUME i < r + EraseSize PROVE PlaceOf(s, i, B) < Size
    <3>1. j \in InBlock /\ r + j = i
      <4> HIDE DEF o, r
      <4> QED
        BY <1>1, <1>4, <2>1 DEF InBlock
    <3> HIDE DEF j
    <3>2. PlaceOf(s, r + j, B) \in Addr
      BY <1>4, <3>1, PlaceSecond
    <3> QED
      BY <1>1, <3>1, <3>2 DEF Addr
  <2> QED
    BY <1>2, <1>4, <2>1
<1>5. CASE ~ (i < r) /\ ~ Found(Turn(s, B), B)
  <2>1. PlaceOf(s, i, B) = Size + (i - r)
    BY <1>5, SecondPlace DEF PlaceOf
  <2> HIDE DEF o, r
  <2> QED
    BY <1>1, <1>2, <1>5, <2>1 DEF r
<1> QED
  BY <1>3, <1>4, <1>5

(* A byte that has a place is never before where it would be if all blocks *)
(* were good.                                                              *)
LEMMA PlaceAfter ==
  ASSUME NEW s \in Nat, NEW B \in SUBSET Block, Found(s, B), NEW n \in Nat,
         NEW i \in Asked(s, n, B)
  PROVE  /\ i \in Nat /\ PlaceOf(s, i, B) \in Addr
         /\ s + i <= PlaceOf(s, i, B)
         /\ Landing(s, B) + i < Size
<1> DEFINE r == Rest(s, B)
           land == Landing(s, B)
<1>1. /\ i \in Nat /\ land \in Nat /\ s <= land /\ r \in Nat /\ Turn(s, B) = land + r
      /\ EraseSize \in Nat /\ Size \in Nat
  BY FirstPlace, BeyondSize, GeometryAssumption DEF Asked, Turn
<1>2. i < r \/ (Found(Turn(s, B), B) /\ i < r + EraseSize)
  BY <1>1, AskedIs
<1>3. CASE i < r
  <2>1. PlaceOf(s, i, B) \in Addr /\ PlaceOf(s, i, B) = land + i
    BY <1>1, <1>3, PlaceFirst
  <2> HIDE DEF r, land
  <2> QED
    BY <1>1, <2>1 DEF Addr, land
<1>4. CASE ~ (i < r) /\ Found(Turn(s, B), B) /\ i < r + EraseSize
  <2> DEFINE j == i - r
             g == FirstGood(Turn(s, B), B)
  <2>1. j \in InBlock /\ r + j = i
    <3> HIDE DEF r
    <3> QED
      BY <1>1, <1>4 DEF InBlock
  <2> HIDE DEF j
  <2>2. PlaceOf(s, r + j, B) \in Addr /\ PlaceOf(s, r + j, B) = StartOf(g) + j
    BY <1>4, <2>1, PlaceSecond
  <2>3. Turn(s, B) <= StartOf(g) /\ StartOf(g) \in Nat
    BY <1>4, SecondPlace, BlockCells
  <2> HIDE DEF r, land, g
  <2> QED
    BY <1>1, <2>1, <2>2, <2>3 DEF Addr, InBlock, land
<1> QED
  BY <1>2, <1>3, <1>4

(* The blocks a call reaches. *)
LEMMA ReachIs ==
  ASSUME NEW s \in Nat, NEW B \in SUBSET Block, NEW n \in Nat, NEW b
  PROVE  b \in Reach(s, n, B) <=>
           /\ Found(s, B) /\ n > 0
           /\ \/ b = FirstGood(s, B)
              \/ n > Rest(s, B) /\ Found(Turn(s, B), B) /\ b = FirstGood(Turn(s, B), B)
<1>1. CASE ~ Found(s, B)
  BY <1>1 DEF Reach, Asked
<1>2. CASE Found(s, B)
  <2> DEFINE r == Rest(s, B)
  <2>1. r \in Nat /\ r > 0 /\ EraseSize \in Nat /\ EraseSize > 0
    BY <1>2, FirstPlace, GeometryAssumption
  <2>2. ASSUME b \in Reach(s, n, B)
        PROVE  n > 0 /\ \/ b = FirstGood(s, B)
                        \/ n > r /\ Found(Turn(s, B), B) /\ b = FirstGood(Turn(s, B), B)
    <3>1. PICK i \in Asked(s, n, B) : b = BlockOf(PlaceOf(s, i, B))
      BY <2>2 DEF Reach
    <3>2. i \in Nat
      BY <1>2, PlaceAfter
    <3>3. i < n /\ (i < r \/ (Found(Turn(s, B), B) /\ i < r + EraseSize))
      BY <1>2, <3>2, AskedIs
    <3>4. CASE i < r
      BY <1>2, <3>1, <3>2, <3>3, <3>4, PlaceFirst
    <3>5. CASE ~ (i < r)
      <4> DEFINE j == i - r
      <4>1. j \in InBlock /\ r + j = i /\ n > r
        <5> HIDE DEF r
        <5> QED
          BY <2>1, <3>2, <3>3, <3>5 DEF InBlock
      <4> HIDE DEF j
      <4>2. BlockOf(PlaceOf(s, r + j, B)) = FirstGood(Turn(s, B), B)
        BY <1>2, <3>3, <3>5, <4>1, PlaceSecond
      <4> QED
        BY <3>1, <3>2, <3>3, <3>5, <4>1, <4>2
    <3> QED
      BY <3>4, <3>5
  <2>3. ASSUME n > 0 PROVE FirstGood(s, B) \in Reach(s, n, B)
    <3>1. 0 \in Asked(s, n, B) /\ BlockOf(PlaceOf(s, 0, B)) = FirstGood(s, B)
      BY <1>2, <2>1, <2>3, AskedIs, PlaceFirst
    <3> QED
      BY <3>1 DEF Reach
  <2>4. ASSUME n > r, Found(Turn(s, B), B)
        PROVE  FirstGood(Turn(s, B), B) \in Reach(s, n, B)
    <3>1. r \in Asked(s, n, B)
      <4>1. r < n /\ r < r + EraseSize
        <5> HIDE DEF r
        <5> QED
          BY <2>1, <2>4
      <4> QED
        BY <1>2, <2>1, <2>4, <4>1, AskedIs
    <3>2. 0 \in InBlock /\ r + 0 = r
      <4> HIDE DEF r
      <4> QED
        BY <2>1 DEF InBlock
    <3>3. BlockOf(PlaceOf(s, r, B)) = FirstGood(Turn(s, B), B)
      BY <1>2, <2>4, <3>2, PlaceSecond
    <3> QED
      BY <3>1, <3>3 DEF Reach
  <2> QED
    BY <1>2, <2>2, <2>3, <2>4
<1> QED
  BY <1>1, <1>2

LEMMA ReachFirst ==
  ASSUME NEW s \in Nat, NEW n \in Nat, n > 0, NEW B \in SUBSET Block, Found(s, B)
  PROVE  FirstGood(s, B) \in Reach(s, n, B)
  BY ReachIs

(* A transfer that reaches past its first block f to e: bad blocks were    *)
(* passed on the way there, and any may have gone bad since.               *)
LEMMA ReachSecond ==
  ASSUME NEW s \in Nat, NEW n \in Nat, NEW B \in SUBSET Block, NEW f \in Block,
         BlockOf(s) <= f, \A x \in BlockOf(s) .. f - 1 : x \in B,
         NEW p, p = IF f = BlockOf(s) THEN s ELSE StartOf(f),
         n > EraseSize - OffsetIn(p),
         NEW e \in Block, f < e, \A x \in f + 1 .. e - 1 : x \in B, e \notin B
  PROVE  e \in Reach(s, n, B)
<1>1. /\ f \in Nat /\ f < EbCnt /\ e \in Nat /\ e < EbCnt /\ EbCnt \in Nat
      /\ BlockOf(s) \in Nat /\ EraseSize \in Nat
  BY GeometryAssumption, DivBounds DEF Block
<1>2. p \in Nat /\ BlockOf(p) = f
  BY <1>1, BlockOfStart
<1>3. CASE f \in B
  <2>1. e \in GoodFrom(s, B) /\ \A x \in BlockOf(s) .. e - 1 : x \in B
    BY <1>1, <1>3 DEF GoodFrom
  <2>2. Found(s, B) /\ FirstGood(s, B) = e
    BY <2>1, FirstGoodIs
  <2>3. OffsetIn(p) \in 0 .. EraseSize - 1
    BY <1>2, OffsetBounds
  <2>4. n > 0
    BY <1>1, <2>3
  <2> QED
    BY <2>2, <2>4, ReachIs
<1>4. CASE f \notin B
  <2>1. f \in GoodFrom(s, B)
    BY <1>1, <1>4 DEF GoodFrom
  <2>2. Found(s, B) /\ FirstGood(s, B) = f
    BY <2>1, FirstGoodIs
  <2>3. Landing(s, B) = p
    BY <1>1, <2>2 DEF Landing
  <2> DEFINE m == Turn(s, B)
  <2>4. m \in Nat /\ BlockOf(m) = f + 1 /\ Rest(s, B) \in 1 .. EraseSize
    BY <2>2, FirstPlace
  <2>5. e \in GoodFrom(m, B)
    BY <1>1, <2>4 DEF GoodFrom
  <2>6. Found(m, B) /\ FirstGood(m, B) = e
    BY <2>4, <2>5, FirstGoodIs
  <2>7. Rest(s, B) = EraseSize - OffsetIn(p) /\ n > 0
    BY <1>1, <2>3, <2>4 DEF Rest
  <2> QED
    BY <2>2, <2>6, <2>7, ReachIs
<1> QED
  BY <1>3, <1>4
------------------------------------------------------------------------------
(* A write at work on the first of its blocks, which it may have found     *)
(* behind bad ones.                                                        *)
AtFirst(s, e, p, o, B) ==
  /\ BlockOf(s) <= e
  /\ \A x \in BlockOf(s) .. e - 1 : x \in B
  /\ p = IF e = BlockOf(s) THEN s ELSE StartOf(e)
  /\ o = OffsetIn(p)

(* A write at work on its second block e, behind a first one f. *)
AtSecond(s, n, e, o, B) ==
  \E f \in Block, p \in Nat :
    /\ AtFirst(s, f, p, o, B)
    /\ n > EraseSize - o
    /\ f < e
    /\ \A x \in f + 1 .. e - 1 : x \in B

(* What a write knows of the blocks it has named. *)
Named(c) ==
  pc[c] \in WriteAt =>
    /\ start[c] \in Nat
    /\ call[c].ebnum \in named[c]
    /\ call[c].phase = "second" =>
         AtSecond(start[c], call[c].n, call[c].ebnum, call[c].boff, bad)
    /\ call[c].phase # "second" =>
         AtFirst(start[c], call[c].ebnum, pos[c], call[c].boff, bad)

NamedInv == \A c \in Client : Named(c)

(* Of the calls that go on, a step leaves the start alone, and adds to the *)
(* blocks named those that are reached now.                                *)
LEMMA HistoryOf ==
  ASSUME HNext, NEW c \in Client
  PROVE  /\ pc[c] # "idle" /\ pc'[c] # "idle" =>
              /\ start'[c] = start[c]
              /\ named'[c] = named[c] \cup Reach(start[c], call'[c].n, bad')
         /\ pc[c] = "idle" /\ pc'[c] # "idle" =>
              /\ start'[c] = IF call'[c].off \in 0 .. Size THEN call'[c].off ELSE pos[c]
              /\ named'[c] = Reach(start'[c], call'[c].n, bad')
  BY BlocksNext DEF HNext, Begins

LEMMA BadGrows ==
  ASSUME FlashInv, Next
  PROVE  bad \subseteq bad' /\ bad' \in SUBSET Block
<1>1. bad' \in SUBSET Block
  BY FlashInvStep DEF FlashInv, TypeOK
<1>2. ASSUME NEW c \in Client, Step(c) \/ Ask(c) PROVE bad' = bad
  BY <1>2 DEF Step, Ask, ReadAlloc, ReadFlash, CopyOut, WriteAlloc, Load, CopyIn, Erase,
     Program, Resume, Lseek, IoctlRead, ReadCall, IoctlWrite, WriteCall, BeginRead,
     BeginWrite, Begin, NoFault, MemFault, MtdFault, env
<1>3. (\E b \in Block : MarkBad(b)) \/ PowerCut => bad \subseteq bad'
  BY DEF MarkBad, PowerCut, MtdFault
<1>4. bad' = bad \/ (\E b \in Block : MarkBad(b)) \/ PowerCut
  BY <1>2 DEF Next
<1> QED
  BY <1>1, <1>3, <1>4

(* A call that stays where it was stays Named. *)
LEMMA StaysNamed ==
  ASSUME FlashInv, HNext, NEW c \in Client, Named(c),
         pc[c] \in WriteAt, pc'[c] \in WriteAt,
         call'[c].ebnum = call[c].ebnum, call'[c].boff = call[c].boff,
         call'[c].n = call[c].n, pos'[c] = pos[c],
         (call'[c].phase = "second") <=> (call[c].phase = "second")
  PROVE  Named(c)'
<1>1. pc[c] # "idle" /\ pc'[c] # "idle"
  BY DEF WriteAt
<1>2. start'[c] = start[c] /\ named[c] \subseteq named'[c]
  BY <1>1, HistoryOf
<1>3. bad \subseteq bad'
  BY BadGrows DEF HNext
<1>4. call[c].phase = "second" =>
        AtSecond(start'[c], call'[c].n, call'[c].ebnum, call'[c].boff, bad')
  BY <1>2, <1>3 DEF Named, AtFirst, AtSecond
<1> QED
  BY <1>2, <1>3, <1>4 DEF Named, AtFirst

(* No other call has moved. *)
OthersStill(c) ==
  \A d \in Client \ {c} : pc'[d] = pc[d] /\ call'[d] = call[d] /\ pos'[d] = pos[d]

LEMMA ReturnNames ==
  ASSUME FlashInv, NEW c \in Client, NEW k, NEW p, NEW r,
         Return(c, k, p, r) \/ FreeReturn(c, k, p, r)
  PROVE  Named(c)' /\ OthersStill(c)
<1>1. /\ pc' = [pc EXCEPT ![c] = "done"]
      /\ \E j : call' = [call EXCEPT ![c] = j]
      /\ pos' = [pos EXCEPT ![c] = p]
  BY DEF Return, FreeReturn, Goto, MoveTo
<1>2. pc'[c] = "done"
  BY <1>1 DEF FlashInv, TypeOK
<1>3. OthersStill(c)
  BY <1>1 DEF OthersStill, FlashInv, TypeOK
<1> QED
  BY <1>2, <1>3 DEF Named, WriteAt

LEMMA MovesOn ==
  ASSUME FlashInv, NEW c \in Client, NEW k, NEW p, NEW w, GoOn(c, k, p, w)
  PROVE  pc'[c] = w /\ call'[c] = k /\ pos'[c] = p /\ OthersStill(c)
  BY DEF GoOn, Goto, MoveTo, OthersStill, FlashInv, TypeOK

LEMMA ReadNames ==
  ASSUME FlashInv, NEW c \in Client, NEW k, NEW p, NEW w,
         GoOn(c, k, p, w), w \notin WriteAt
  PROVE  Named(c)' /\ OthersStill(c)
  BY MovesOn DEF Named

LEMMA WriteNames ==
  ASSUME FlashInv, HNext, NEW c \in Client, Named(c), pc[c] \in WriteAt,
         NEW k, NEW w \in WriteAt, GoOn(c, k, pos[c], w),
         k.ebnum = call[c].ebnum, k.boff = call[c].boff, k.n = call[c].n,
         (k.phase = "second") <=> (call[c].phase = "second")
  PROVE  Named(c)' /\ OthersStill(c)
  BY MovesOn, StaysNamed

LEMMA ReadsNamed ==
  ASSUME FlashInv, NEW c \in Client, ReadAlloc(c) \/ ReadFlash(c) \/ CopyOut(c)
  PROVE  Named(c)' /\ OthersStill(c)
<1>1. { "r_read", "r_copy" } \cap WriteAt = {}
  BY DEF WriteAt
<1>2. ASSUME NEW k, NEW p, AfterPiece(c, k, p)
      PROVE  Named(c)' /\ OthersStill(c)
  BY <1>1, <1>2, ReturnNames, ReadNames DEF AfterPiece
<1>3. CASE ReadAlloc(c)
  BY <1>1, <1>3, ReturnNames, ReadNames DEF ReadAlloc
<1>4. CASE ReadFlash(c)
  <2>1. PICK m, good : Delivered(c, m, good)
    BY <1>4 DEF ReadFlash
  <2> QED
    BY <1>1, <1>2, <2>1, ReadNames DEF Delivered
<1>5. CASE CopyOut(c)
  BY <1>2, <1>5, ReturnNames DEF CopyOut
<1> QED
  BY <1>3, <1>4, <1>5

(* The search of a write that begins. *)
LEMMA BeginNamed ==
  ASSUME FlashInv, HNext, NEW c \in Client, NEW off \in Int, NEW n \in Lens,
         NEW p \in Nat, p = IF off \in 0 .. Size THEN off ELSE pos[c],
         BeginWrite(c, off, p, n)
  PROVE  Named(c)' /\ OthersStill(c)
<1> DEFINE land == Landing(p, bad)
           i    == NewCall("write", off, n)
           k    == [i EXCEPT !.count = WriteCount(p, n), !.boff = OffsetIn(land)]
           j    == AtBlock(k, p)
           e    == FirstGood(p, bad)
<1> SUFFICES ASSUME WriteCount(p, n) # 0, Found(p, bad), GoOn(c, j, land, "w_alloc")
             PROVE  Named(c)' /\ OthersStill(c)
  BY ReturnNames DEF BeginWrite
<1>1. bad' = bad /\ bad \in SUBSET Block /\ pc[c] = "idle"
  BY Locals DEF BeginWrite, Begin
<1>2. /\ j.off = off /\ j.n = n /\ j.ebnum = e /\ j.boff = OffsetIn(land)
      /\ j.phase = "whole"
  BY DEF AtBlock, NewCall
<1>3. e \in GoodFrom(p, bad) /\ \A x \in GoodFrom(p, bad) : e <= x
  BY FirstGoodExists
<1>4. n \in Nat /\ n > 0
  <2>1. n \in Nat /\ Size \in Nat /\ p < Size
    <3>1. BlockOf(p) < EbCnt
      BY <1>3, DivBounds, GeometryAssumption DEF GoodFrom
    <3>2. n \in 0 .. MaxLen
      BY FlashAssumption
    <3> QED
      BY <3>1, <3>2, BeyondSize, DivBounds, GeometryAssumption DEF MaxLen
  <2> QED
    BY <2>1 DEF WriteCount
<1>5. AtFirst(p, e, land, OffsetIn(land), bad)
  <2>1. BlockOf(p) \in Nat /\ e \in Nat /\ BlockOf(p) <= e /\ e < EbCnt
    BY <1>3, DivBounds, GeometryAssumption DEF GoodFrom
  <2>2. \A x \in BlockOf(p) .. e - 1 : x \in bad
    BY <1>3, <2>1, GeometryAssumption DEF GoodFrom
  <2>3. land = IF e = BlockOf(p) THEN p ELSE StartOf(e)
    BY <2>1, GeometryAssumption DEF Landing
  <2> HIDE DEF land
  <2> QED
    BY <2>1, <2>2, <2>3 DEF AtFirst
<1>6. e \in Reach(p, n, bad)
  BY <1>1, <1>4, ReachFirst
<1> HIDE DEF j, land, e
<1>7. pc'[c] = "w_alloc" /\ call'[c] = j /\ pos'[c] = land /\ OthersStill(c)
  BY MovesOn
<1>8. start'[c] = p /\ named'[c] = Reach(p, n, bad)
  BY <1>1, <1>2, <1>7, HistoryOf
<1> QED
  BY <1>1, <1>2, <1>5, <1>6, <1>7, <1>8 DEF Named

LEMMA LoadNamed ==
  ASSUME FlashInv, HNext, NEW c \in Client, Named(c), Load(c)
  PROVE  Named(c)' /\ OthersStill(c)
<1> DEFINE k     == Loaded(call[c])
           j(ph) == [k EXCEPT !.phase = ph]
<1>1. pc[c] \in WriteAt /\ "w_fill" \in WriteAt /\ call[c] \in Call
  BY Locals DEF Load, WriteAt
<1>2. k.phase = call[c].phase
  BY <1>1 DEF Loaded, Call
<1>3. ASSUME NEW ph
      PROVE  /\ j(ph).ebnum = call[c].ebnum /\ j(ph).boff = call[c].boff
             /\ j(ph).phase = ph /\ j(ph).n = call[c].n
  BY <1>1 DEF Loaded, Call
<1>4. ASSUME NEW ph, GoOn(c, j(ph), pos[c], "w_fill"),
             (ph = "second" /\ k.phase = "second") \/ (ph # "second" /\ k.phase = "whole")
      PROVE  Named(c)' /\ OthersStill(c)
  <2>1. (ph = "second") <=> (call[c].phase = "second")
    BY <1>2, <1>4
  <2> HIDE DEF j
  <2> QED
    BY <1>1, <1>3, <1>4, <2>1, WriteNames
<1>5. \/ \E ph : /\ GoOn(c, j(ph), pos[c], "w_fill")
                /\ \/ ph = "second" /\ k.phase = "second"
                   \/ ph # "second" /\ k.phase = "whole"
      \/ \E i, p, r : FreeReturn(c, i, p, r)
  BY DEF Load
<1> QED
  BY <1>4, <1>5, ReturnNames

LEMMA ProgramNamed ==
  ASSUME FlashInv, HNext, NEW c \in Client, Named(c), Program(c)
  PROVE  Named(c)' /\ OthersStill(c)
<1> DEFINE k    == call[c]
           p    == pos[c]
           next == p + (EraseSize - k.boff)
           i    == [k EXCEPT !.phase = "second", !.done = EraseSize - k.boff]
           j    == AtBlock(i, next)
<1>1. /\ k \in Call /\ pc[c] = "w_prog" /\ Knows("w_prog", k, p)
      /\ bad' = bad /\ bad \in SUBSET Block
  BY Locals DEF Program, NoFault, MtdFault, env
<1>2. PICK m : AfterProgram(c, k, m)
  BY DEF Program
<1>3. CASE \E l, q, r : FreeReturn(c, l, q, r)
  BY <1>3, ReturnNames
<1>4. CASE k.phase = "first" /\ Found(next, bad) /\ GoOn(c, j, Landing(next, bad), "w_load")
  <2>1. /\ start[c] \in Nat /\ AtFirst(start[c], k.ebnum, p, k.boff, bad)
    BY <1>1, <1>4 DEF Named, WriteAt
  <2>2. /\ k.ebnum \in Block /\ k.n \in Nat /\ k.n > EraseSize - k.boff
        /\ p \in Nat /\ next \in Nat /\ BlockOf(next) = k.ebnum + 1
    <3>1. k.ebnum \in Block /\ k.n \in Nat /\ p \in Nat /\ k.n > EraseSize - k.boff
      <4>1. k.ebnum \in Block /\ Pieced(k) /\ k.boff \in InBlock /\ k.count <= k.n
        BY <1>1 DEF Knows, WriteAt
      <4>2. k.n \in Nat /\ p \in Nat
        BY <1>1, Locals DEF Call
      <4>3. k.count > EraseSize - k.boff /\ k.count \in Int /\ EraseSize - k.boff \in Int
        <5>1. /\ EraseSize \in Int /\ k.boff \in Int
          BY <4>1, GeometryAssumption DEF InBlock
        <5> QED
          BY <1>4, <4>1, <5>1 DEF Pieced
      <4> QED
        BY <4>1, <4>2, <4>3
    <3>2. k.ebnum \in Nat /\ BlockOf(p) = k.ebnum
      BY <2>1, <3>1, BlockOfStart, GeometryAssumption DEF AtFirst, Block
    <3>3. k.boff = OffsetIn(p)
      BY <2>1 DEF AtFirst
    <3>4. OffsetIn(p) \in 0 .. EraseSize - 1 /\ p = StartOf(k.ebnum) + OffsetIn(p)
      BY <3>1, <3>2, OffsetBounds
    <3>5. /\ StartOf(k.ebnum + 1) = StartOf(k.ebnum) + EraseSize /\ StartOf(k.ebnum) \in Nat
          /\ StartOf(k.ebnum + 1) \in Nat /\ BlockOf(StartOf(k.ebnum + 1)) = k.ebnum + 1
      BY <3>1, <3>2, BlockCells, BlockOfStart, k.ebnum + 1 \in Nat
    <3>6. next = StartOf(k.ebnum + 1)
      BY <3>3, <3>4, <3>5, GeometryAssumption
    <3> QED
      BY <3>1, <3>5, <3>6
  <2> DEFINE g == FirstGood(next, bad)
  <2>3. /\ g \in Block /\ g \notin bad /\ k.ebnum < g
        /\ \A x \in k.ebnum + 1 .. g - 1 : x \in bad
    <3>1. g \in GoodFrom(next, bad) /\ \A x \in GoodFrom(next, bad) : g <= x
      BY <1>4, <2>2, FirstGoodExists
    <3>2. k.ebnum \in Nat /\ EbCnt \in Nat
      BY <2>2, GeometryAssumption DEF Block
    <3> QED
      BY <2>2, <3>1, <3>2 DEF GoodFrom, Block
  <2>4. AtSecond(start[c], k.n, g, k.boff, bad)
    BY <2>1, <2>2, <2>3 DEF AtSecond
  <2>5. g \in Reach(start[c], k.n, bad)
    <3> HIDE DEF next, g
    <3> QED
      BY <1>1, <2>1, <2>2, <2>3, ReachSecond DEF AtFirst
  <2>6. j.ebnum = g /\ j.n = k.n /\ j.phase = "second" /\ j.boff = k.boff
    BY <1>1 DEF AtBlock, Call
  <2> HIDE DEF j, next, g
  <2>7. pc'[c] = "w_load" /\ call'[c] = j /\ OthersStill(c)
    BY <1>4, MovesOn
  <2>8. start'[c] = start[c] /\ named'[c] = named[c] \cup Reach(start[c], k.n, bad)
    BY <1>1, <2>6, <2>7, HistoryOf
  <2> QED
    BY <1>1, <2>1, <2>4, <2>5, <2>6, <2>7, <2>8 DEF Named
<1> QED
  BY <1>2, <1>3, <1>4 DEF AfterProgram

LEMMA StepNamed ==
  ASSUME FlashInv, HNext, NEW c \in Client, Named(c), Step(c)
  PROVE  Named(c)' /\ OthersStill(c)
<1>1. { "w_load", "w_fill", "w_erase", "w_prog" } \subseteq WriteAt /\ call[c] \in Call
  BY Locals DEF WriteAt
<1>2. CASE WriteAlloc(c)
  <2>1. pc[c] \in WriteAt /\ call[c].phase = "whole"
    BY <1>2, Locals DEF WriteAlloc, Knows, WriteAt
  <2> DEFINE j == [call[c] EXCEPT !.phase = "head"]
  <2>2. /\ j.ebnum = call[c].ebnum /\ j.boff = call[c].boff /\ j.n = call[c].n
        /\ j.phase = "head"
    BY <1>1 DEF Call
  <2>3. \/ GoOn(c, j, pos[c], "w_fill")
        \/ GoOn(c, call[c], pos[c], "w_load")
        \/ \E k, p, r : Return(c, k, p, r)
    BY <1>2 DEF WriteAlloc
  <2> HIDE DEF j
  <2> QED
    BY <1>1, <2>1, <2>2, <2>3, ReturnNames, WriteNames
<1>3. CASE CopyIn(c)
  <2> DEFINE F == Filled(call[c], UserData[c])
             j == [call[c] EXCEPT !.buf = F]
  <2>1. pc[c] \in WriteAt
    BY <1>3 DEF CopyIn, WriteAt
  <2>2. /\ j.ebnum = call[c].ebnum /\ j.boff = call[c].boff
        /\ j.phase = call[c].phase /\ j.n = call[c].n
    <3> HIDE DEF F
    <3> QED
      BY <1>1 DEF Call
  <2>3. GoOn(c, j, pos[c], "w_erase") \/ \E k, p, r : FreeReturn(c, k, p, r)
    BY <1>3 DEF CopyIn
  <2> HIDE DEF j
  <2> QED
    BY <1>1, <2>1, <2>2, <2>3, ReturnNames, WriteNames
<1>4. CASE Erase(c)
  <2>1. pc[c] \in WriteAt
    BY <1>4 DEF Erase, WriteAt
  <2> QED
    BY <1>1, <1>4, <2>1, ReturnNames, WriteNames DEF Erase
<1> QED
  BY <1>2, <1>3, <1>4, ReadsNamed, LoadNamed, ProgramNamed DEF Step

LEMMA AskNamed ==
  ASSUME FlashInv, HNext, NEW c \in Client, Ask(c), Named(c)
  PROVE  Named(c)' /\ OthersStill(c)
<1>1. pos[c] \in Nat
  BY Locals
<1>2. CASE Resume(c)
  BY <1>2 DEF Resume, Goto, Named, WriteAt, OthersStill, FlashInv, TypeOK
<1>3. CASE Lseek(c)
  BY <1>3 DEF Lseek, MoveTo, Named, WriteAt, OthersStill, FlashInv, TypeOK
<1>4. ASSUME NEW n \in Lens, NEW off, NEW p, BeginRead(c, off, p, n)
      PROVE  Named(c)' /\ OthersStill(c)
  BY <1>4, ReturnNames, ReadNames DEF BeginRead, WriteAt
<1>5. ASSUME NEW n \in Lens, WriteCall(c, n)
      PROVE  Named(c)' /\ OthersStill(c)
  BY <1>1, <1>5, BeginNamed DEF WriteCall
<1>6. ASSUME NEW n \in Lens, IoctlWrite(c, n)
      PROVE  Named(c)' /\ OthersStill(c)
  <2>1. PICK offset \in Offsets : BeginWrite(c, offset, SeekTo(pos[c], offset), n)
    BY <1>6 DEF IoctlWrite
  <2>2. offset \in Int /\ SeekTo(pos[c], offset) \in Nat
    BY <1>1, FlashAssumption, SeekTyped
  <2> QED
    BY <2>1, <2>2, BeginNamed DEF SeekTo
<1> QED
  BY <1>2, <1>3, <1>4, <1>5, <1>6 DEF Ask, IoctlRead, ReadCall

LEMMA NamedStep == FlashInv /\ NamedInv /\ [HNext]_historyVars => NamedInv'
<1> SUFFICES ASSUME FlashInv, NamedInv, [HNext]_historyVars, NEW d \in Client
             PROVE  Named(d)'
  BY DEF NamedInv
<1>1. CASE UNCHANGED historyVars
  BY <1>1 DEF historyVars, NamedInv, Named, AtFirst
<1>2. CASE HNext
  <2>1. ASSUME pc'[d] = pc[d], call'[d] = call[d], pos'[d] = pos[d]
        PROVE  Named(d)'
    <3>1. CASE pc[d] \in WriteAt
      BY <1>2, <2>1, <3>1, StaysNamed DEF NamedInv
    <3>2. CASE pc[d] \notin WriteAt
      BY <2>1, <3>2 DEF Named
    <3> QED
      BY <3>1, <3>2
  <2>2. ASSUME NEW c \in Client, Step(c) \/ Ask(c)
        PROVE  Named(d)'
    <3>1. Named(c)' /\ OthersStill(c)
      BY <1>2, <2>2, StepNamed, AskNamed DEF NamedInv
    <3> QED
      BY <2>1, <3>1 DEF OthersStill
  <2>3. ASSUME NEW b \in Block, MarkBad(b)
        PROVE  Named(d)'
    BY <2>1, <2>3 DEF MarkBad
  <2>4. CASE PowerCut
    BY <2>4 DEF PowerCut, Named, WriteAt
  <2> QED
    BY <1>2, <2>2, <2>3, <2>4 DEF HNext, Next
<1> QED
  BY <1>1, <1>2

LEMMA NamedInit == HInit => NamedInv
  BY DEF HInit, Init, NamedInv, Named, WriteAt

(* A step that changes a byte has its block in hand, and has named it. *)
LEMMA ChangesNamed ==
  ASSUME FlashInv, NamedInv, Next, NEW a \in Addr, cell'[a] # cell[a]
  PROVE  \E c \in Client : BlockOf(a) \in named[c]
<1>1. ASSUME NEW c \in Client, pc[c] \in WriteAt, BlockOf(a) = call[c].ebnum
      PROVE  BlockOf(a) \in named[c]
  BY <1>1 DEF NamedInv, Named
<1>2. ASSUME NEW c \in Client, NEW f, pc[c] \in WriteAt,
             cell' = WithBlock(call[c].ebnum, f)
      PROVE  BlockOf(a) \in named[c]
  <2>1. call[c].ebnum \in Block
    BY <1>2, Locals DEF Knows
  <2>2. a \in CellsOf(call[c].ebnum)
    BY <1>2 DEF WithBlock
  <2>3. BlockOf(a) = call[c].ebnum
    <3> DEFINE e == call[c].ebnum
    <3>1. e \in Nat /\ StartOf(e) \in Nat /\ StartOf(e + 1) \in Int /\ a \in Nat
      BY <2>1, BlockCells, BeyondSize, GeometryAssumption DEF Block, Addr
    <3>2. StartOf(e) <= a /\ a < StartOf(e + 1)
      BY <2>2, <3>1 DEF CellsOf
    <3> QED
      BY <3>1, <3>2, Within
  <2> QED
    BY <1>1, <1>2, <2>3
<1>3. ASSUME NEW c \in Client, Step(c)
      PROVE  BlockOf(a) \in named[c]
  <2>1. CASE Erase(c)
    BY <1>2, <2>1 DEF Erase, WriteAt
  <2>2. CASE Program(c)
    BY <1>2, <2>2 DEF Program, WriteAt
  <2>3. CASE ~ Erase(c) /\ ~ Program(c)
    BY <1>3, <2>3 DEF Step, ReadAlloc, ReadFlash, CopyOut, WriteAlloc, Load, CopyIn
  <2> QED
    BY <2>1, <2>2, <2>3
<1>4. ASSUME NEW c \in Client, Ask(c) PROVE FALSE
  BY <1>4 DEF Ask, Resume, Lseek, IoctlRead, ReadCall, IoctlWrite, WriteCall,
     BeginRead, BeginWrite
<1>5. ASSUME NEW b \in Block, MarkBad(b) PROVE FALSE
  BY <1>5 DEF MarkBad
<1>6. CASE PowerCut
  <2>1. PICK c \in Client : pc[c] \in { "w_erase", "w_prog" } /\ call[c].ebnum = BlockOf(a)
    BY <1>6 DEF PowerCut
  <2> QED
    BY <1>1, <2>1 DEF WriteAt
<1> QED
  BY <1>3, <1>4, <1>5, <1>6 DEF Next

(* Whatever fails and whenever the power does, no byte changes but in a    *)
(* block some client's current call has named (at91flash.c:418-517), for   *)
(* any partition, clients, lengths and offsets.                            *)
THEOREM ChangesAreConfined == HSpec => Confined
<1>1. HInit => FlashInv /\ NamedInv
  BY FlashInvInit, NamedInit DEF HInit
<1>2. FlashInv /\ [HNext]_historyVars => FlashInv'
  BY FlashInvStep DEF HNext, historyVars, vars
<1>3. FlashInv /\ NamedInv /\ [HNext]_historyVars
        => [ \A a \in Addr : cell'[a] # cell[a] =>
               \E c \in Client : BlockOf(a) \in named[c] ]_historyVars
  BY ChangesNamed DEF HNext
<1> QED
  BY <1>1, <1>2, <1>3, NamedStep, PTL DEF HSpec, Confined
------------------------------------------------------------------------------
(* What a call has moved.  Its bytes go from or to PlaceOf; m is the       *)
(* partition, z what it was when the call began, d the user's data.        *)

Quiet(c) == pc[c] # "idle" /\ c \notin spoiled

BlockAt(m, b) == [i \in InBlock |-> m[StartOf(b) + i]]
Old(b, m, z)  == \A i \in InBlock : m[StartOf(b) + i] = z[StartOf(b) + i]

(* The first h bytes have been delivered to the user, and no others. *)
OutIs(out, h, s, B, m) ==
  \A i \in InBlock : out[i] = IF i < h THEN m[PlaceOf(s, i, B)] ELSE Untouched

(* A read under way. *)
ReadKnows(w, k, p, s, B, m) ==
  LET land == Landing(s, B)
      rest == Rest(s, B)
  IN
  /\ Found(s, B)
  /\ k.count = ReadCount(land, k.n)
  /\ w = "r_alloc" => p = land /\ k.ebnum = FirstGood(s, B) /\ OutIs(k.out, 0, s, B, m)
  /\ (w \in { "r_read", "r_copy" } /\ k.phase # "second") =>
       /\ k.done = 0
       /\ k.phase = "first" <=> k.count > rest
       /\ OutIs(k.out, 0, s, B, m)
  /\ (w \in { "r_read", "r_copy" } /\ k.phase = "second") =>
       /\ Found(Turn(s, B), B)
       /\ k.done = rest /\ k.count > rest
       /\ OutIs(k.out, rest, s, B, m)
  /\ w = "r_read" =>
       IF k.phase = "second" THEN p = Landing(Turn(s, B), B)
       ELSE p = land /\ k.ebnum = FirstGood(s, B)
  /\ w = "r_copy" =>
       /\ IF k.phase = "second"
          THEN k.len = k.count - rest /\ p = Landing(Turn(s, B), B) + k.len
          ELSE k.len = (IF k.count > rest THEN rest ELSE k.count) /\ p = land + k.len
       /\ \A i \in 0 .. k.len - 1 : k.buf[i] = m[PlaceOf(s, k.done + i, B)]

(* A read that has returned. *)
ReadDone(k, p, s, B, m) ==
  LET count == ReadCount(Landing(s, B), k.n)
      rest  == Rest(s, B)
  IN
  \/ k.ret <= 0 /\ OutIs(k.out, 0, s, B, m)
  \/ Found(s, B) /\ k.ret <= 0 /\ count > rest /\ OutIs(k.out, rest, s, B, m)
  \/ /\ Found(s, B)
     /\ count > 0
     /\ count <= rest \/ Found(Turn(s, B), B)
     /\ OutIs(k.out, count, s, B, m)
     /\ p = PlaceOf(s, count - 1, B) + 1

(* A first block f with its piece of the data; the rest of it is as it     *)
(* was, but for the block at address 0.                                    *)
FirstPart(f, n, s, B, z, d) ==
  LET o   == OffsetIn(Landing(s, B))
      len == IF WriteCount(s, n) > Rest(s, B) THEN Rest(s, B) ELSE WriteCount(s, n)
  IN
  \A i \in InBlock :
    IF i - o \in 0 .. len - 1 THEN f[i] = d[i - o]
    ELSE Landing(s, B) # 0 => f[i] = z[StartOf(FirstGood(s, B)) + i]

(* A second block f with the data that are left for it. *)
SecondPart(f, n, s, B, z, d) ==
  LET rest == Rest(s, B) IN
  \A i \in InBlock :
    f[i] = IF i < WriteCount(s, n) - rest THEN d[rest + i]
           ELSE z[StartOf(FirstGood(Turn(s, B), B)) + i]

(* A write under way. *)
WriteKnows(w, k, p, s, B, m, z, d) ==
  LET land   == Landing(s, B)
      first  == FirstGood(s, B)
      second == FirstGood(Turn(s, B), B)
  IN
  /\ Found(s, B)
  /\ k.count = WriteCount(s, k.n)
  /\ k.boff = OffsetIn(land)
  /\ k.phase = "head" => land = 0
  /\ k.phase # "second" =>
       /\ p = land /\ k.ebnum = first
       /\ \A b \in Reach(s, k.n, B) : (w = "w_prog" /\ b = first) \/ Old(b, m, z)
       /\ w \in { "w_erase", "w_prog" } => FirstPart(k.buf, k.n, s, B, z, d)
  /\ k.phase = "second" =>
       /\ Found(Turn(s, B), B)
       /\ p = Landing(Turn(s, B), B) /\ k.ebnum = second
       /\ FirstPart(BlockAt(m, first), k.n, s, B, z, d)
       /\ w # "w_prog" => Old(second, m, z)
       /\ w \in { "w_erase", "w_prog" } => SecondPart(k.buf, k.n, s, B, z, d)
  /\ (w = "w_fill" /\ k.phase # "head") => k.buf = BlockAt(z, k.ebnum)
  /\ w = "w_prog" => BlockAt(m, k.ebnum) = Erased

(* A write that has returned. *)
WriteDone(k, s, B, m, z, d) ==
  LET count == WriteCount(s, k.n)
      rest  == Rest(s, B)
  IN
  \/ k.ret <= 0 /\ \A b \in Reach(s, k.n, B) : Old(b, m, z)
  \/ /\ Found(s, B) /\ count \in 1 .. k.n
     /\ FirstPart(BlockAt(m, FirstGood(s, B)), k.n, s, B, z, d)
     /\ \/ /\ k.ret > 0 => count <= rest \/ Landing(s, B) = 0
           /\ \A b \in Reach(s, k.n, B) \ { FirstGood(s, B) } : Old(b, m, z)
        \/ /\ count > rest /\ Found(Turn(s, B), B)
           /\ SecondPart(BlockAt(m, FirstGood(Turn(s, B), B)), k.n, s, B, z, d)

(* What a call at w has moved. *)
Says(w, k, p, s, B, m, z, d) ==
  /\ w \in ReadAt => k.op = "read" /\ ReadKnows(w, k, p, s, B, m)
  /\ w \in WriteAt => k.op = "write" /\ WriteKnows(w, k, p, s, B, m, z, d)
  /\ (w = "done" /\ k.op = "read") => ReadDone(k, p, s, B, m)
  /\ (w = "done" /\ k.op = "write") => WriteDone(k, s, B, m, z, d)

Tracked(c) ==
  Quiet(c) =>
    /\ start[c] \in Nat
    /\ \A d \in Client : ~ Disturbs(d, c)
    /\ Says(pc[c], call[c], pos[c], start[c], bad, cell, was[c], UserData[c])

TrackedInv == \A c \in Client : Tracked(c)

(* The clamps of a read, and those of a write. *)
LEMMA ReadCounted ==
  ASSUME NEW p \in Nat, p <= Size, NEW n \in Nat
  PROVE  /\ ReadCount(p, n) \in Nat
         /\ ReadCount(p, n) <= n
         /\ ReadCount(p, n) <= Size - p
         /\ ReadCount(p, n) <= MaxKmalloc
         /\ ReadCount(p, n) \in { n, Size - p, MaxKmalloc }
<1>1. Size \in Nat /\ MaxKmalloc \in Nat
  BY BeyondSize, FlashAssumption, GeometryAssumption
<1> DEFINE S == { n, Size - p, MaxKmalloc }
<1>2. S \in SUBSET Int
  BY <1>1
<1>3. Least(S) \in S /\ \A y \in S : Least(S) <= y
  BY <1>1, <1>2, LeastOf
<1> QED
  BY <1>1, <1>3 DEF ReadCount

(* The bytes a read is to deliver are those it counts, as far as there is  *)
(* a good block for them.                                                  *)
LEMMA WantsAre ==
  ASSUME NEW s \in Nat, NEW B \in SUBSET Block, Found(s, B), NEW n \in Nat, NEW i \in Nat
  PROVE  (i \in Asked(s, n, B) /\ i < MaxKmalloc) <=>
           /\ i < ReadCount(Landing(s, B), n)
           /\ i < Rest(s, B) \/ Found(Turn(s, B), B)
<1> DEFINE land == Landing(s, B)
           count == ReadCount(land, n)
           r == Rest(s, B)
<1>1. /\ land \in Nat /\ land <= Size /\ r \in Nat /\ Size \in Nat
      /\ EraseSize \in Nat /\ MaxKmalloc \in Nat /\ MaxKmalloc <= EraseSize
  <2>1. land \in Nat /\ r \in 1 .. EraseSize /\ Turn(s, B) <= Size /\ Turn(s, B) = land + r
    BY FirstPlace DEF Turn
  <2>2. Size \in Nat /\ EraseSize \in Nat /\ MaxKmalloc \in 1 .. EraseSize
    BY BeyondSize, FlashAssumption, GeometryAssumption
  <2> HIDE DEF land, r
  <2> QED
    BY <2>1, <2>2
<1>2. /\ count \in Nat /\ count <= n /\ count <= Size - land /\ count <= MaxKmalloc
      /\ count \in { n, Size - land, MaxKmalloc }
  BY <1>1, ReadCounted
<1>3. i \in Asked(s, n, B) <=> i < n /\ (i < r \/ (Found(Turn(s, B), B) /\ i < r + EraseSize))
  BY AskedIs
<1>4. i \in Asked(s, n, B) => land + i < Size
  BY PlaceAfter
<1> HIDE DEF land, count, r
<1> QED
  BY <1>1, <1>2, <1>3, <1>4 DEF land, count, r

LEMMA WriteCounted ==
  ASSUME NEW s \in Nat, NEW B \in SUBSET Block, Found(s, B), NEW n \in Nat
  PROVE  \A i \in Asked(s, n, B) : i \in 0 .. WriteCount(s, n) - 1
<1> SUFFICES ASSUME NEW i \in Asked(s, n, B) PROVE i \in 0 .. WriteCount(s, n) - 1
  OBVIOUS
<1>1. i \in Nat /\ PlaceOf(s, i, B) \in Addr /\ s + i <= PlaceOf(s, i, B)
  BY PlaceAfter
<1>2. i < n /\ Size \in Nat
  BY <1>1, AskedIs, BeyondSize
<1>3. PlaceOf(s, i, B) \in Int /\ PlaceOf(s, i, B) < Size
  BY <1>1, <1>2 DEF Addr
<1> QED
  BY <1>1, <1>2, <1>3 DEF WriteCount

(* A byte of the second block, counted from the first of the transfer. *)
LEMMA InSecond ==
  ASSUME NEW s \in Nat, NEW B \in SUBSET Block, Found(s, B), Found(Turn(s, B), B),
         NEW i \in Nat, ~ (i < Rest(s, B)), i < Rest(s, B) + EraseSize
  PROVE  /\ i - Rest(s, B) \in InBlock
         /\ PlaceOf(s, i, B) = StartOf(FirstGood(Turn(s, B), B)) + (i - Rest(s, B))
<1> DEFINE r == Rest(s, B)
           j == i - r
<1>1. r \in Nat /\ EraseSize \in Nat
  BY FirstPlace, GeometryAssumption
<1>2. j \in InBlock /\ r + j = i
  <2> HIDE DEF r
  <2> QED
    BY <1>1 DEF InBlock, r
<1> HIDE DEF j
<1>3. PlaceOf(s, r + j, B) = StartOf(FirstGood(Turn(s, B), B)) + j
  BY <1>2, PlaceSecond
<1> QED
  BY <1>2, <1>3 DEF j

(* A read that has returned has delivered what it should. *)
Gave(k, p, s, B, m) ==
  LET wants == { i \in Asked(s, k.n, B) : i < MaxKmalloc } IN
  /\ \A i \in InBlock :
       k.out[i] # Untouched => i \in wants /\ k.out[i] = m[PlaceOf(s, i, B)]
  /\ k.ret > 0 =>
       /\ \A i \in wants : k.out[i] = m[PlaceOf(s, i, B)]
       /\ \A i \in wants : i + 1 \notin wants => p = PlaceOf(s, i, B) + 1

LEMMA ReadDoneDelivers ==
  ASSUME NEW k \in Call, NEW p, NEW s \in Nat, NEW B \in SUBSET Block, NEW m,
         ReadDone(k, p, s, B, m)
  PROVE  Gave(k, p, s, B, m)
<1> DEFINE wants == { i \in Asked(s, k.n, B) : i < MaxKmalloc }
<1> SUFFICES /\ \A i \in InBlock :
                  k.out[i] # Untouched => i \in wants /\ k.out[i] = m[PlaceOf(s, i, B)]
             /\ k.ret > 0 =>
                  /\ \A i \in wants : k.out[i] = m[PlaceOf(s, i, B)]
                  /\ \A i \in wants : i + 1 \notin wants => p = PlaceOf(s, i, B) + 1
  BY DEF Gave
<1> DEFINE count == ReadCount(Landing(s, B), k.n)
           r     == Rest(s, B)
<1>1. k.n \in Nat /\ k.ret \in Int /\ \A i \in InBlock : i \in Nat
  BY GeometryAssumption DEF Call, InBlock
<1>2. CASE k.ret <= 0 /\ OutIs(k.out, 0, s, B, m)
  BY <1>1, <1>2 DEF OutIs
<1>3. CASE Found(s, B) /\ k.ret <= 0 /\ count > r /\ OutIs(k.out, r, s, B, m)
  <2>1. r \in Nat
    BY <1>3, FirstPlace
  <2>2. Landing(s, B) \in Nat /\ Landing(s, B) <= Size
    BY <1>3, LandingFacts, BeyondSize
  <2>3. count \in Nat
    BY <1>1, <2>2, ReadCounted
  <2>4. \A i \in InBlock : i < r => i < count
    BY <1>1, <1>3, <2>1, <2>3
  <2>5. \A i \in InBlock : i < r => i \in wants
    BY <1>1, <1>3, <2>4, WantsAre
  <2>6. \A i \in InBlock : k.out[i] # Untouched => i < r /\ k.out[i] = m[PlaceOf(s, i, B)]
    BY <1>3 DEF OutIs
  <2> HIDE DEF r, count, wants
  <2>7. \A i \in InBlock :
          k.out[i] # Untouched => i \in wants /\ k.out[i] = m[PlaceOf(s, i, B)]
    BY <2>5, <2>6
  <2> QED
    BY <1>1, <1>3, <2>7 DEF wants
<1>4. CASE /\ Found(s, B) /\ count > 0
           /\ count <= r \/ Found(Turn(s, B), B)
           /\ OutIs(k.out, count, s, B, m)
           /\ p = PlaceOf(s, count - 1, B) + 1
  <2>1. r \in Nat /\ Landing(s, B) \in Nat /\ Landing(s, B) <= Size
    BY <1>4, FirstPlace, LandingFacts, BeyondSize
  <2>2. /\ count \in Nat /\ count <= MaxKmalloc /\ MaxKmalloc \in Nat
        /\ MaxKmalloc <= EraseSize /\ EraseSize \in Nat
    <3>1. count \in Nat /\ count <= MaxKmalloc
      BY <1>1, <2>1, ReadCounted
    <3> QED
      BY <3>1, FlashAssumption, GeometryAssumption
  <2>3. \A i \in Nat : i \in wants <=> i < count /\ (i < r \/ Found(Turn(s, B), B))
    BY <1>1, <1>4, WantsAre
  <2>4. \A i \in wants : i \in Nat
    BY <1>4, PlaceAfter, <1>1
  <2>5. \A i \in InBlock :
          k.out[i] = IF i < count THEN m[PlaceOf(s, i, B)] ELSE Untouched
    BY <1>4 DEF OutIs
  <2> HIDE DEF r, count, wants
  <2>6. \A i \in Nat : i \in wants <=> i < count
    BY <1>4, <2>1, <2>2, <2>3
  <2>7. \A i \in wants : i \in InBlock /\ i < count
    BY <2>2, <2>4, <2>6 DEF InBlock
  <2>8. \A i \in InBlock :
          k.out[i] # Untouched => i \in wants /\ k.out[i] = m[PlaceOf(s, i, B)]
    BY <1>1, <2>5, <2>6
  <2>9. ASSUME NEW i \in wants, i + 1 \notin wants
        PROVE  p = PlaceOf(s, i, B) + 1
    <3>1. i = count - 1
      BY <2>2, <2>4, <2>6, <2>9
    <3> QED
      BY <1>4, <3>1
  <2> QED
    BY <2>5, <2>7, <2>8, <2>9 DEF wants
<1> QED
  BY <1>2, <1>3, <1>4 DEF ReadDone

(* A write that has returned and reports bytes has put the data in place. *)
LEMMA WriteDoneLands ==
  ASSUME NEW k \in Call, NEW s \in Nat, NEW B \in SUBSET Block, NEW m, NEW z, NEW d,
         WriteDone(k, s, B, m, z, d), k.ret > 0,
         Landing(s, B) = 0 => k.n <= EraseSize
  PROVE  \A i \in Asked(s, k.n, B) : m[PlaceOf(s, i, B)] = d[i]
<1> DEFINE count == WriteCount(s, k.n)
           r     == Rest(s, B)
           o     == OffsetIn(Landing(s, B))
           f     == FirstGood(s, B)
           g     == FirstGood(Turn(s, B), B)
<1>1. k.n \in Nat /\ k.ret \in Int
  BY DEF Call
<1>2. /\ Found(s, B) /\ count \in 1 .. k.n
      /\ FirstPart(BlockAt(m, f), k.n, s, B, z, d)
      /\ \/ count <= r \/ Landing(s, B) = 0
         \/ /\ count > r /\ Found(Turn(s, B), B)
            /\ SecondPart(BlockAt(m, g), k.n, s, B, z, d)
  BY <1>1 DEF WriteDone
<1>3. /\ r \in Nat /\ o \in Nat /\ r = EraseSize - o /\ EraseSize \in Nat
      /\ Landing(s, B) = StartOf(f) + o
      /\ Landing(s, B) = 0 => o = 0
  BY <1>2, FirstPlace, OffsetBounds, GeometryAssumption, BlockCells DEF Rest, InBlock
<1> SUFFICES ASSUME NEW i \in Asked(s, k.n, B) PROVE m[PlaceOf(s, i, B)] = d[i]
  OBVIOUS
<1>4. i \in Nat /\ i < count /\ i < k.n
  BY <1>1, <1>2, WriteCounted, AskedIs, PlaceAfter
<1>5. CASE i < r
  <2>1. PlaceOf(s, i, B) = StartOf(f) + (o + i) /\ o + i \in InBlock
    BY <1>2, <1>4, <1>5, PlaceFirst
  <2> DEFINE len == IF count > r THEN r ELSE count
  <2>2. (o + i) - o = i /\ i \in 0 .. len - 1
    <3> HIDE DEF o, r, count
    <3> QED
      BY <1>2, <1>3, <1>4, <1>5
  <2>3. BlockAt(m, f)[o + i] = d[(o + i) - o]
    BY <1>2, <2>1, <2>2 DEF FirstPart
  <2> HIDE DEF o, f
  <2> QED
    BY <2>1, <2>2, <2>3 DEF BlockAt
<1>6. CASE ~ (i < r)
  <2>1. /\ Found(Turn(s, B), B) /\ SecondPart(BlockAt(m, g), k.n, s, B, z, d)
        /\ i < r + EraseSize
    <3>1. Found(Turn(s, B), B) /\ i < r + EraseSize
      BY <1>1, <1>2, <1>4, <1>6, AskedIs
    <3>2. ~ (count <= r)
      <4> HIDE DEF r, count
      <4> QED
        BY <1>2, <1>3, <1>4, <1>6
    <3>3. ~ (Landing(s, B) = 0)
      <4> HIDE DEF r, o
      <4> QED
        BY <1>1, <1>3, <1>4, <1>6
    <3> QED
      BY <1>2, <3>1, <3>2, <3>3
  <2> DEFINE j == i - r
  <2>2. j \in InBlock /\ PlaceOf(s, i, B) = StartOf(g) + j
    BY <1>2, <1>4, <1>6, <2>1, InSecond
  <2>3. j < count - r /\ r + j = i
    <3> HIDE DEF r, count
    <3> QED
      BY <1>2, <1>3, <1>4
  <2>4. BlockAt(m, g)[j] = d[r + j]
    BY <2>1, <2>2, <2>3 DEF SecondPart
  <2> HIDE DEF j, g
  <2> QED
    BY <2>2, <2>3, <2>4 DEF BlockAt
<1> QED
  BY <1>5, <1>6

(* The bytes of a block are those at its start and behind. *)
LEMMA CellOf ==
  ASSUME NEW a \in Addr
  PROVE  /\ BlockOf(a) \in Block
         /\ OffsetIn(a) \in InBlock
         /\ a = StartOf(BlockOf(a)) + OffsetIn(a)
<1>1. a \in Nat /\ a < Size /\ Size \in Nat
  BY BeyondSize DEF Addr
<1>2. BlockOf(a) < EbCnt
  BY <1>1, BeyondSize, DivBounds, GeometryAssumption
<1> QED
  BY <1>1, <1>2, InsideBlock

(* A write that has returned has kept what the client did not name. *)
LEMMA WriteDonePreserves ==
  ASSUME NEW k \in Call, NEW s \in Nat, NEW B \in SUBSET Block, NEW m, NEW z, NEW d,
         WriteDone(k, s, B, m, z, d),
         Landing(s, B) = 0 => k.n >= EraseSize,
         NEW a \in Addr, BlockOf(a) \in Reach(s, k.n, B)
  PROVE  \/ m[a] = z[a]
         \/ \E i \in Asked(s, k.n, B) : a = PlaceOf(s, i, B) /\ m[a] = d[i]
<1> DEFINE count == WriteCount(s, k.n)
           r     == Rest(s, B)
           o     == OffsetIn(Landing(s, B))
           f     == FirstGood(s, B)
           g     == FirstGood(Turn(s, B), B)
           b     == BlockOf(a)
           j     == OffsetIn(a)
<1>1. b \in Block /\ j \in InBlock /\ a = StartOf(b) + j
  BY CellOf
<1>2. ASSUME Old(b, m, z) PROVE m[a] = z[a]
  BY <1>1, <1>2 DEF Old
<1>3. /\ k.n \in Nat /\ Found(s, B)
      /\ b = f \/ (k.n > r /\ Found(Turn(s, B), B) /\ b = g)
  <2>1. k.n \in Nat
    BY DEF Call
  <2> QED
    BY <2>1, ReachIs
<1> SUFFICES ASSUME ~ Old(b, m, z)
             PROVE  \/ m[a] = z[a]
                    \/ \E i \in Asked(s, k.n, B) : a = PlaceOf(s, i, B) /\ m[a] = d[i]
  BY <1>2
<1>4. /\ count \in 1 .. k.n
      /\ FirstPart(BlockAt(m, f), k.n, s, B, z, d)
      /\ \/ b = f
         \/ /\ count > r /\ Found(Turn(s, B), B) /\ b = g
            /\ SecondPart(BlockAt(m, g), k.n, s, B, z, d)
  BY <1>3 DEF WriteDone
<1>5. /\ r \in Nat /\ o \in Nat /\ r = EraseSize - o /\ EraseSize \in Nat /\ j \in Nat
      /\ s <= Landing(s, B) /\ Landing(s, B) = StartOf(f) + o /\ StartOf(f) \in Nat
      /\ j < EraseSize /\ Size \in Nat
  BY <1>1, <1>3, FirstPlace, BlockCells, BeyondSize, GeometryAssumption DEF Rest, InBlock
<1>6. CASE b = f
  <2> DEFINE len == IF count > r THEN r ELSE count
             i   == j - o
  <2>1. BlockAt(m, f)[j] = m[a]
    BY <1>1, <1>6 DEF BlockAt
  <2>2. CASE i \in 0 .. len - 1
    <3>1. m[a] = d[i]
      BY <1>1, <1>4, <2>1, <2>2 DEF FirstPart
    <3>2. i \in Nat /\ i < r /\ i < k.n /\ o + i = j
      <4> HIDE DEF count, r, o, j
      <4> QED
        BY <1>3, <1>4, <1>5, <2>2
    <3>3. i \in Asked(s, k.n, B)
      BY <1>3, <3>2, AskedIs
    <3>4. PlaceOf(s, i, B) = StartOf(f) + (o + i)
      BY <1>3, <3>2, PlaceFirst
    <3> HIDE DEF i
    <3> QED
      BY <1>1, <1>6, <3>1, <3>2, <3>3, <3>4
  <2>3. CASE ~ (i \in 0 .. len - 1) /\ Landing(s, B) # 0
    BY <1>1, <1>4, <1>6, <2>1, <2>3 DEF FirstPart
  <2>4. CASE ~ (i \in 0 .. len - 1) /\ Landing(s, B) = 0
    <3>1. s = 0 /\ o = 0 /\ r = EraseSize /\ k.n >= EraseSize
      <4> HIDE DEF r, o, f
      <4> QED
        BY <1>5, <2>4
    <3>2. count >= EraseSize
      <4>1. EbCnt * EraseSize >= 1 * EraseSize
        BY MulMono, GeometryAssumption
      <4>2. Size >= EraseSize
        BY <4>1, GeometryAssumption DEF Size
      <4> QED
        BY <1>3, <1>5, <3>1, <4>2 DEF WriteCount
    <3>3. len = EraseSize /\ j - o = j
      <4> HIDE DEF count, r, o, j
      <4> QED
        BY <1>4, <1>5, <3>1, <3>2
    <3> HIDE DEF len, i
    <3> QED
      BY <1>5, <2>4, <3>3 DEF i
  <2> QED
    BY <2>2, <2>3, <2>4
<1>7. CASE b # f
  <2>1. BlockAt(m, g)[j] = m[a]
    BY <1>1, <1>4, <1>7 DEF BlockAt
  <2>2. CASE j < count - r
    <3>1. m[a] = d[r + j]
      BY <1>1, <1>4, <1>7, <2>1, <2>2 DEF SecondPart
    <3>2. r + j \in Nat /\ r + j < k.n /\ r + j < r + EraseSize
      <4> HIDE DEF count, r, j
      <4> QED
        BY <1>3, <1>4, <1>5, <2>2
    <3>3. r + j \in Asked(s, k.n, B)
      BY <1>3, <1>7, <3>2, AskedIs
    <3>4. PlaceOf(s, r + j, B) = StartOf(g) + j
      BY <1>1, <1>3, <1>7, PlaceSecond
    <3> QED
      BY <1>1, <1>3, <1>7, <3>1, <3>3, <3>4
  <2>3. CASE ~ (j < count - r)
    <3>1. m[a] = z[StartOf(g) + j]
      BY <1>1, <1>4, <1>7, <2>1, <2>3 DEF SecondPart
    <3> QED
      BY <1>1, <1>4, <1>7, <3>1
  <2> QED
    BY <2>2, <2>3
<1> QED
  BY <1>6, <1>7
------------------------------------------------------------------------------
(* What a call has moved stays moved while its blocks stay as they are. *)

LEMMA AskedStill ==
  ASSUME NEW s \in Nat, NEW B \in SUBSET Block, Found(s, B), NEW n \in Nat,
         NEW i \in Asked(s, n, B), NEW m, NEW m2,
         \A b \in Reach(s, n, B) : Old(b, m2, m)
  PROVE  m2[PlaceOf(s, i, B)] = m[PlaceOf(s, i, B)]
<1> DEFINE a == PlaceOf(s, i, B)
<1>1. a \in Addr /\ BlockOf(a) \in Reach(s, n, B)
  BY PlaceAfter DEF Reach
<1>2. OffsetIn(a) \in InBlock /\ a = StartOf(BlockOf(a)) + OffsetIn(a)
  BY <1>1, CellOf
<1> HIDE DEF a
<1> QED
  BY <1>1, <1>2 DEF Old, a

LEMMA CountedStill ==
  ASSUME NEW s \in Nat, NEW B \in SUBSET Block, Found(s, B), NEW n \in Nat,
         NEW m, NEW m2, \A b \in Reach(s, n, B) : Old(b, m2, m)
  PROVE  \A i \in Nat :
           /\ i < ReadCount(Landing(s, B), n)
           /\ i < Rest(s, B) \/ Found(Turn(s, B), B)
           => m2[PlaceOf(s, i, B)] = m[PlaceOf(s, i, B)]
  BY WantsAre, AskedStill

LEMMA OutNone ==
  ASSUME NEW out, NEW s, NEW B, NEW m
  PROVE  OutIs(out, 0, s, B, m) <=> \A i \in InBlock : out[i] = Untouched
  BY GeometryAssumption DEF OutIs, InBlock

LEMMA ReadCountOf ==
  ASSUME NEW s \in Nat, NEW B \in SUBSET Block, Found(s, B), NEW n \in Nat
  PROVE  /\ ReadCount(Landing(s, B), n) \in Nat
         /\ ReadCount(Landing(s, B), n) <= n
         /\ Landing(s, B) + ReadCount(Landing(s, B), n) <= Size
         /\ ReadCount(Landing(s, B), n) <= EraseSize
<1>1. Landing(s, B) \in Nat /\ Landing(s, B) < Size /\ Size \in Nat
  BY LandingFacts, BeyondSize
<1>2. MaxKmalloc \in Nat /\ MaxKmalloc <= EraseSize /\ EraseSize \in Nat
  BY FlashAssumption, GeometryAssumption
<1> DEFINE count == ReadCount(Landing(s, B), n)
<1>3. /\ count \in Nat /\ count <= n /\ count <= Size - Landing(s, B)
      /\ count <= MaxKmalloc
  <2>1. Landing(s, B) <= Size
    BY <1>1
  <2> QED
    BY <1>1, <2>1, ReadCounted
<1> HIDE DEF count
<1> QED
  BY <1>1, <1>2, <1>3 DEF count

LEMMA ReadKnowsStill ==
  ASSUME NEW w, NEW k \in Call, NEW p, NEW s \in Nat, NEW B \in SUBSET Block,
         NEW m, NEW m2, \A b \in Reach(s, k.n, B) : Old(b, m2, m),
         ReadKnows(w, k, p, s, B, m)
  PROVE  ReadKnows(w, k, p, s, B, m2)
<1> DEFINE land  == Landing(s, B)
           rest  == Rest(s, B)
           count == ReadCount(land, k.n)
<1>1. k.n \in Nat /\ k.len \in Nat /\ Found(s, B) /\ k.count = count
  BY DEF ReadKnows, Call
<1>2. \A i \in Nat : i < count /\ (i < rest \/ Found(Turn(s, B), B))
                     => m2[PlaceOf(s, i, B)] = m[PlaceOf(s, i, B)]
  BY <1>1, CountedStill
<1>3. count \in Nat /\ rest \in Nat
  BY <1>1, ReadCountOf, FirstPlace
<1>4. OutIs(k.out, 0, s, B, m) => OutIs(k.out, 0, s, B, m2)
  BY OutNone
<1>5. Found(Turn(s, B), B) /\ count > rest /\ OutIs(k.out, rest, s, B, m)
        => OutIs(k.out, rest, s, B, m2)
  <2> HIDE DEF count, rest
  <2>1. \A i \in InBlock : i \in Nat
    BY GeometryAssumption DEF InBlock
  <2>2. count > rest => \A i \in Nat : i < rest => i < count
    BY <1>3
  <2> QED
    BY <1>2, <2>1, <2>2 DEF OutIs
<1>6. ASSUME w = "r_copy", NEW i \in 0 .. k.len - 1
      PROVE  m2[PlaceOf(s, k.done + i, B)] = m[PlaceOf(s, k.done + i, B)]
  <2>1. CASE k.phase = "second"
    <3>1. Found(Turn(s, B), B) /\ k.done = rest /\ k.len = k.count - rest
      BY <1>6, <2>1 DEF ReadKnows
    <3>2. k.done + i \in Nat /\ k.done + i < count
      <4> HIDE DEF count, rest
      <4> QED
        BY <1>1, <1>3, <1>6, <3>1
    <3> QED
      BY <1>2, <3>1, <3>2
  <2>2. CASE k.phase # "second"
    <3>1. k.done = 0 /\ k.len = IF k.count > rest THEN rest ELSE k.count
      BY <1>6, <2>2 DEF ReadKnows
    <3>2. k.done + i \in Nat /\ k.done + i < count /\ k.done + i < rest
      <4> HIDE DEF count, rest
      <4> QED
        BY <1>1, <1>3, <1>6, <3>1
    <3> QED
      BY <1>2, <3>1, <3>2
  <2> QED
    BY <2>1, <2>2
<1>7. w = "r_copy" => \A i \in 0 .. k.len - 1 : k.buf[i] = m2[PlaceOf(s, k.done + i, B)]
  BY <1>6 DEF ReadKnows
<1> HIDE DEF land, rest, count
<1> QED
  BY <1>1, <1>4, <1>5, <1>7 DEF ReadKnows, land, rest, count

LEMMA ReadDoneStill ==
  ASSUME NEW k \in Call, NEW p, NEW s \in Nat, NEW B \in SUBSET Block,
         NEW m, NEW m2, \A b \in Reach(s, k.n, B) : Old(b, m2, m),
         ReadDone(k, p, s, B, m)
  PROVE  ReadDone(k, p, s, B, m2)
<1> DEFINE rest  == Rest(s, B)
           count == ReadCount(Landing(s, B), k.n)
<1>1. k.n \in Nat /\ \A i \in InBlock : i \in Nat
  BY GeometryAssumption DEF Call, InBlock
<1>2. ASSUME Found(s, B)
      PROVE  /\ \A i \in Nat : i < count /\ (i < rest \/ Found(Turn(s, B), B))
                              => m2[PlaceOf(s, i, B)] = m[PlaceOf(s, i, B)]
             /\ count \in Nat /\ rest \in Nat
  <2>1. \A i \in Nat : i < count /\ (i < rest \/ Found(Turn(s, B), B))
                        => m2[PlaceOf(s, i, B)] = m[PlaceOf(s, i, B)]
    BY <1>1, <1>2, CountedStill
  <2>2. count \in Nat
    BY <1>1, <1>2, ReadCountOf
  <2>3. rest \in Nat
    BY <1>2, FirstPlace
  <2> QED
    BY <2>1, <2>2, <2>3
<1>3. CASE k.ret <= 0 /\ OutIs(k.out, 0, s, B, m)
  BY <1>3, OutNone DEF ReadDone
<1>4. CASE Found(s, B) /\ k.ret <= 0 /\ count > rest /\ OutIs(k.out, rest, s, B, m)
  <2> HIDE DEF count, rest
  <2>1. \A i \in Nat : i < rest => i < count
    BY <1>2, <1>4
  <2>2. OutIs(k.out, rest, s, B, m2)
    BY <1>1, <1>2, <1>4, <2>1 DEF OutIs
  <2> QED
    BY <1>4, <2>2 DEF ReadDone, count, rest
<1>5. CASE /\ Found(s, B) /\ count > 0
           /\ count <= rest \/ Found(Turn(s, B), B)
           /\ OutIs(k.out, count, s, B, m)
           /\ p = PlaceOf(s, count - 1, B) + 1
  <2> HIDE DEF count, rest
  <2>1. \A i \in Nat : i < count => i < rest \/ Found(Turn(s, B), B)
    BY <1>2, <1>5
  <2>2. OutIs(k.out, count, s, B, m2)
    BY <1>1, <1>2, <1>5, <2>1 DEF OutIs
  <2> QED
    BY <1>5, <2>2 DEF ReadDone, count, rest
<1> QED
  BY <1>3, <1>4, <1>5 DEF ReadDone

LEMMA SameBlock ==
  ASSUME NEW b, NEW m, NEW m2, Old(b, m2, m)
  PROVE  /\ BlockAt(m2, b) = BlockAt(m, b)
         /\ \A z : Old(b, m, z) => Old(b, m2, z)
  BY DEF Old, BlockAt

(* What a write knows of the blocks it reaches. *)
LEMMA WriteReaches ==
  ASSUME NEW w \in WriteAt, NEW k \in Call, NEW p, NEW s \in Nat, NEW B \in SUBSET Block,
         NEW m, NEW z, NEW d,
         Knows(w, k, p), WriteKnows(w, k, p, s, B, m, z, d)
  PROVE  /\ k.n \in Nat /\ k.count \in 1 .. k.n /\ Found(s, B)
         /\ FirstGood(s, B) \in Reach(s, k.n, B)
         /\ FirstGood(s, B) \in Block \ B
         /\ Rest(s, B) = EraseSize - k.boff
         /\ k.ebnum \in Reach(s, k.n, B) /\ k.ebnum \in Block \ B
         /\ k.phase \in { "first", "second" } => k.count > Rest(s, B)
         /\ k.phase = "whole" /\ w \in { "w_fill", "w_erase", "w_prog" } =>
              k.count <= Rest(s, B)
         /\ (k.count > Rest(s, B) /\ Found(Turn(s, B), B)) =>
              /\ FirstGood(Turn(s, B), B) \in Reach(s, k.n, B)
              /\ FirstGood(Turn(s, B), B) \in Block \ B
              /\ FirstGood(Turn(s, B), B) # FirstGood(s, B)
<1> DEFINE r == Rest(s, B)
           g == FirstGood(Turn(s, B), B)
           f == FirstGood(s, B)
<1>1. k.n \in Nat /\ k.count \in 1 .. k.n /\ Found(s, B) /\ k.boff \in Nat
  BY DEF Knows, WriteKnows, Call
<1>2. /\ f \in Reach(s, k.n, B) /\ f \in Block \ B /\ f \in Int
      /\ r \in Nat /\ r = EraseSize - k.boff /\ EraseSize \in Nat
  <2>1. k.n > 0
    BY <1>1
  <2>2. r = EraseSize - k.boff
    BY DEF WriteKnows, Rest
  <2>3. EraseSize \in Nat /\ Block \subseteq Int
    BY GeometryAssumption DEF Block
  <2>4. f \in Block \ B /\ r \in Nat
    BY <1>1, FirstPlace
  <2>5. f \in Reach(s, k.n, B)
    BY <1>1, <2>1, ReachFirst
  <2> HIDE DEF f, r
  <2> QED
    BY <2>2, <2>3, <2>4, <2>5
<1>3. ASSUME k.count > r, Found(Turn(s, B), B)
      PROVE  g \in Reach(s, k.n, B) /\ g \in Block \ B /\ g # f
  <2>1. k.n > r /\ k.n > 0
    <3> HIDE DEF r
    <3> QED
      BY <1>1, <1>2, <1>3
  <2>2. g \in Reach(s, k.n, B)
    BY <1>1, <1>3, <2>1, ReachIs
  <2>3. g \in Block \ B /\ f < g /\ Block \subseteq Int
    BY <1>1, <1>3, SecondPlace, GeometryAssumption DEF Block
  <2> HIDE DEF f, g
  <2> QED
    BY <1>2, <2>2, <2>3
<1>4. k.phase \in { "first", "second" } => k.count > r
  <2>1. k.phase \in { "first", "second" } => Pieced(k)
    BY DEF Knows, WriteAt
  <2> HIDE DEF r
  <2> QED
    BY <1>1, <1>2, <2>1 DEF Pieced
<1>5. k.phase = "whole" /\ w \in { "w_fill", "w_erase", "w_prog" } => k.count <= r
  <2>1. w \in { "w_fill", "w_erase", "w_prog" } => Pieced(k)
    BY DEF Knows
  <2> HIDE DEF r
  <2> QED
    BY <1>1, <1>2, <2>1 DEF Pieced
<1>6. k.ebnum = IF k.phase = "second" THEN g ELSE f
  BY DEF WriteKnows
<1>7. k.phase = "second" => Found(Turn(s, B), B)
  BY DEF WriteKnows
<1> HIDE DEF r, f, g
<1> QED
  BY <1>1, <1>2, <1>3, <1>4, <1>5, <1>6, <1>7 DEF r, f, g

LEMMA WriteKnowsStill ==
  ASSUME NEW w \in WriteAt, NEW k \in Call, NEW p, NEW s \in Nat, NEW B \in SUBSET Block,
         NEW m, NEW m2, NEW z, NEW d, \A b \in Reach(s, k.n, B) : Old(b, m2, m),
         Knows(w, k, p), WriteKnows(w, k, p, s, B, m, z, d)
  PROVE  WriteKnows(w, k, p, s, B, m2, z, d)
<1> DEFINE first == FirstGood(s, B)
           second == FirstGood(Turn(s, B), B)
<1>1. \A b \in Reach(s, k.n, B) :
        BlockAt(m2, b) = BlockAt(m, b) /\ (Old(b, m, z) => Old(b, m2, z))
  BY SameBlock
<1>2. /\ first \in Reach(s, k.n, B) /\ k.ebnum \in Reach(s, k.n, B)
      /\ k.phase = "second" => k.ebnum = second
  BY WriteReaches DEF WriteKnows
<1>3. BlockAt(m2, first) = BlockAt(m, first) /\ BlockAt(m2, k.ebnum) = BlockAt(m, k.ebnum)
  BY <1>1, <1>2
<1>4. k.phase = "second" => (Old(second, m, z) => Old(second, m2, z))
  BY <1>1, <1>2
<1> QED
  BY <1>1, <1>3, <1>4 DEF WriteKnows

LEMMA WriteDoneStill ==
  ASSUME NEW k \in Call, NEW s \in Nat, NEW B \in SUBSET Block,
         NEW m, NEW m2, NEW z, NEW d, \A b \in Reach(s, k.n, B) : Old(b, m2, m),
         WriteDone(k, s, B, m, z, d)
  PROVE  WriteDone(k, s, B, m2, z, d)
<1> DEFINE first  == FirstGood(s, B)
           second == FirstGood(Turn(s, B), B)
           count  == WriteCount(s, k.n)
           rest   == Rest(s, B)
<1>1. \A b \in Reach(s, k.n, B) :
        BlockAt(m2, b) = BlockAt(m, b) /\ (Old(b, m, z) => Old(b, m2, z))
  BY SameBlock
<1>2. k.n \in Nat
  BY DEF Call
<1>3. ASSUME Found(s, B), count \in 1 .. k.n
      PROVE  /\ first \in Reach(s, k.n, B)
             /\ (count > rest /\ Found(Turn(s, B), B)) => second \in Reach(s, k.n, B)
  <2>1. k.n > 0 /\ (count > rest => k.n > rest)
    <3>1. rest \in Nat
      BY <1>3, FirstPlace
    <3> HIDE DEF count, rest
    <3> QED
      BY <1>2, <1>3, <3>1
  <2> QED
    BY <1>2, <1>3, <2>1, ReachIs
<1> HIDE DEF first, second, count, rest
<1> QED
  BY <1>1, <1>3 DEF WriteDone, first, second, count, rest

LEMMA SaysStill ==
  ASSUME NEW w, NEW k \in Call, NEW p, NEW s \in Nat, NEW B \in SUBSET Block,
         NEW m, NEW m2, NEW z, NEW d, \A b \in Reach(s, k.n, B) : Old(b, m2, m),
         Knows(w, k, p), Says(w, k, p, s, B, m, z, d)
  PROVE  Says(w, k, p, s, B, m2, z, d)
  BY ReadKnowsStill, ReadDoneStill, WriteKnowsStill, WriteDoneStill DEF Says
------------------------------------------------------------------------------
(* The steps of at91flash_read. *)

LEMMA ReturnIs ==
  ASSUME FlashInv, NEW c \in Client, NEW k \in Call, NEW p, NEW r,
         Return(c, k, p, r) \/ FreeReturn(c, k, p, r)
  PROVE  /\ pc'[c] = "done" /\ pos'[c] = p
         /\ call'[c].op = k.op /\ call'[c].n = k.n
         /\ call'[c].out = k.out /\ call'[c].ret = r
<1>1. CASE Return(c, k, p, r)
  BY <1>1 DEF Return, Goto, MoveTo, FlashInv, TypeOK, Call
<1>2. CASE FreeReturn(c, k, p, r)
  <2> DEFINE j == [k EXCEPT !.buf = [i \in InBlock |-> Junk]]
  <2>1. j \in Call /\ j.op = k.op /\ j.n = k.n /\ j.out = k.out
    BY DEF Call, Byte, Junk
  <2> HIDE DEF j
  <2>2. Return(c, j, p, r)
    BY <1>2 DEF FreeReturn, j
  <2> QED
    BY <2>1, <2>2 DEF Return, Goto, MoveTo, FlashInv, TypeOK, Call
<1> QED
  BY <1>1, <1>2

(* What c's call has moved, before a step and after one that leaves the    *)
(* bad blocks alone.                                                       *)
SaysNow(c, s, z)  == Says(pc[c], call[c], pos[c], s, bad, cell, z, UserData[c])
SaysNext(c, s, z) == Says(pc'[c], call'[c], pos'[c], s, bad, cell', z, UserData[c])

LEMMA ReadReturns ==
  ASSUME FlashInv, NEW c \in Client, NEW k \in Call, NEW p, NEW r, NEW s, NEW z,
         Return(c, k, p, r) \/ FreeReturn(c, k, p, r),
         k.op = "read", UNCHANGED cell,
         \A j : j.n = k.n /\ j.out = k.out /\ j.ret = r => ReadDone(j, p, s, bad, cell)
  PROVE  SaysNext(c, s, z)
  BY ReturnIs DEF SaysNext, Says, ReadAt, WriteAt

LEMMA ReadGoesOn ==
  ASSUME FlashInv, NEW c \in Client, NEW k \in Call, NEW p, NEW w \in ReadAt, NEW s, NEW z,
         GoOn(c, k, p, w), k.op = "read", UNCHANGED cell,
         ReadKnows(w, k, p, s, bad, cell)
  PROVE  SaysNext(c, s, z)
  BY MovesOn DEF SaysNext, Says, ReadAt, WriteAt

LEMMA BeginReadSays ==
  ASSUME FlashInv, NEW c \in Client, NEW off \in Int, NEW p \in Nat, NEW n \in Lens,
         BeginRead(c, off, p, n), NEW z
  PROVE  SaysNext(c, p, z)
<1> DEFINE land == Landing(p, bad)
           k    == NewCall("read", off, n)
           m    == ReadCount(land, n)
           i    == [k EXCEPT !.count = m]
           j    == AtBlock(i, p)
<1>1. n \in Nat /\ k \in Call /\ k.op = "read" /\ bad \in SUBSET Block
  BY FlashAssumption, BeyondSize, NewCallTyped, Locals DEF NewCall, MaxLen
<1>2. k.n = n /\ k.out = [x \in InBlock |-> Untouched]
  BY DEF NewCall
<1>3. ASSUME NEW l, l.out = k.out, NEW B, NEW y
      PROVE  OutIs(l.out, 0, p, B, y)
  BY <1>2, <1>3, OutNone
<1>4. ASSUME NEW r \in Int, r <= 0, Return(c, k, land, r)
      PROVE  SaysNext(c, p, z)
  <2>1. \A l : l.n = k.n /\ l.out = k.out /\ l.ret = r => ReadDone(l, land, p, bad, cell)
    BY <1>3, <1>4 DEF ReadDone
  <2> HIDE DEF k, land
  <2> QED
    BY <1>1, <1>4, <2>1, ReadReturns DEF BeginRead
<1>5. CASE Found(p, bad) /\ GoOn(c, j, land, "r_alloc")
  <2>1. m \in Int
    BY <1>1, <1>5, ReadCountOf
  <2>2. /\ i \in Call /\ i.op = "read" /\ i.n = n /\ i.out = k.out /\ i.count = m
    <3> HIDE DEF k, m
    <3> QED
      BY <1>1, <1>2, <2>1 DEF Call
  <2>3. FirstGood(p, bad) \in Nat
    BY <1>1, <1>5, LandingFacts, GeometryAssumption DEF Block
  <2>4. /\ j \in Call /\ j.op = "read" /\ j.n = n /\ j.out = k.out /\ j.count = m
        /\ j.ebnum = FirstGood(p, bad)
    <3> HIDE DEF i, m, k
    <3> QED
      BY <2>2, <2>3 DEF AtBlock, Call
  <2>5. ReadKnows("r_alloc", j, land, p, bad, cell)
    <3>1. OutIs(j.out, 0, p, bad, cell)
      BY <1>3, <2>4
    <3> HIDE DEF j
    <3> QED
      BY <1>5, <2>4, <3>1 DEF ReadKnows
  <2> HIDE DEF j, land
  <2> QED
    BY <1>5, <2>4, <2>5, ReadGoesOn DEF ReadAt, BeginRead
<1> QED
  BY <1>4, <1>5 DEF BeginRead, EFAULT

LEMMA ReadAllocSays ==
  ASSUME FlashInv, NEW c \in Client, ReadAlloc(c), NEW s \in Nat, NEW z, SaysNow(c, s, z)
  PROVE  SaysNext(c, s, z)
<1> DEFINE k == call[c]
           p == pos[c]
           land == Landing(s, bad)
           rest == Rest(s, bad)
           j == [k EXCEPT !.phase = ReadPhase(k, p)]
<1>1. /\ k \in Call /\ p \in Nat /\ Knows("r_alloc", k, p) /\ bad \in SUBSET Block
      /\ k.op = "read" /\ ReadKnows("r_alloc", k, p, s, bad, cell)
  BY Locals DEF ReadAlloc, SaysNow, Says, ReadAt
<1>2. /\ k.done = 0 /\ p = land /\ k.ebnum = FirstGood(s, bad) /\ Found(s, bad)
      /\ OutIs(k.out, 0, s, bad, cell) /\ k.count = ReadCount(land, k.n)
  BY <1>1 DEF Knows, ReadKnows
<1>3. CASE GoOn(c, j, p, "r_read")
  <2>1. ReadPhase(k, p) = IF k.count > rest THEN "first" ELSE "whole"
    <3>1. land \in Nat /\ rest \in Nat /\ StartOf(k.ebnum + 1) = land + rest
      BY <1>1, <1>2, FirstPlace DEF Turn
    <3>2. k.count \in Int
      BY <1>1 DEF Call
    <3> HIDE DEF land, rest
    <3> QED
      BY <1>2, <3>1, <3>2 DEF ReadPhase
  <2>2. /\ j \in Call /\ j.op = k.op /\ j.n = k.n /\ j.out = k.out /\ j.count = k.count
        /\ j.ebnum = k.ebnum /\ j.done = k.done /\ j.phase = ReadPhase(k, p)
    BY <1>1 DEF Call, Phase, ReadPhase
  <2> HIDE DEF j
  <2>3. ReadKnows("r_read", j, p, s, bad, cell)
    BY <1>2, <2>1, <2>2 DEF ReadKnows
  <2> QED
    BY <1>1, <1>3, <2>2, <2>3, ReadGoesOn DEF ReadAt, ReadAlloc
<1>4. CASE Return(c, k, p, ENOMEM)
  <2>1. \A l : l.n = k.n /\ l.out = k.out /\ l.ret = ENOMEM => ReadDone(l, p, s, bad, cell)
    BY <1>2 DEF ReadDone, ENOMEM
  <2> QED
    BY <1>1, <1>4, <2>1, ReadReturns DEF ReadAlloc
<1> QED
  BY <1>3, <1>4 DEF ReadAlloc

(* The length that mtd->read is asked for. *)
LEMMA ReadLenIs ==
  ASSUME NEW k \in Call, NEW p \in Nat, NEW s \in Nat, NEW B \in SUBSET Block, NEW m,
         ReadKnows("r_read", k, p, s, B, m), k.count > 0
  PROVE  ReadLen(k, p) = CASE k.phase = "second" -> k.count - Rest(s, B)
                           [] k.phase = "first"  -> Rest(s, B)
                           [] OTHER              -> k.count
<1> DEFINE land == Landing(s, B)
           rest == Rest(s, B)
           g    == FirstGood(Turn(s, B), B)
           asked == CASE k.phase = "first"  -> StartOf(k.ebnum + 1) - p
                      [] k.phase = "second" -> k.count - k.done
                      [] OTHER              -> k.count
<1>1. /\ Found(s, B) /\ k.count \in Nat /\ k.count <= EraseSize
      /\ land + k.count <= Size /\ EraseSize \in Nat /\ Size \in Nat
  <2>1. Found(s, B) /\ k.count = ReadCount(land, k.n) /\ k.n \in Nat
    BY DEF ReadKnows, Call
  <2> QED
    BY <2>1, ReadCountOf, BeyondSize, GeometryAssumption
<1>2. land \in Nat /\ rest \in 1 .. EraseSize /\ land + rest <= Size
      /\ StartOf(FirstGood(s, B) + 1) = land + rest
  BY <1>1, FirstPlace DEF Turn
<1>3. CASE k.phase = "second"
  <2>1. Found(Turn(s, B), B) /\ k.done = rest /\ p = Landing(Turn(s, B), B)
    BY <1>3 DEF ReadKnows
  <2>2. p = StartOf(g) /\ g \in Block
    BY <1>1, <2>1, SecondPlace
  <2>3. p + EraseSize <= Size
    <3>1. g \in Nat /\ g + 1 <= EbCnt /\ EbCnt \in Nat
      BY <2>2, GeometryAssumption DEF Block
    <3>2. StartOf(g + 1) <= Size
      BY <3>1, MulMono, GeometryAssumption DEF StartOf, Size
    <3> QED
      BY <2>2, <3>2, BlockCells
  <2>4. asked = k.count - rest
    BY <1>3, <2>1
  <2> HIDE DEF asked, rest, land
  <2>5. asked \in Int /\ Size - p \in Int /\ asked <= Size - p
    BY <1>1, <1>2, <2>3, <2>4
  <2>6. Least({ asked, Size - p }) = asked
    BY <2>5, LeastOf
  <2> QED
    BY <1>3, <2>4, <2>6 DEF ReadLen, asked, rest
<1>4. CASE k.phase # "second"
  <2>1. p = land /\ k.ebnum = FirstGood(s, B)
    BY <1>4 DEF ReadKnows
  <2>2. asked = IF k.phase = "first" THEN rest ELSE k.count
    <3>1. StartOf(k.ebnum + 1) - p = rest
      <4> HIDE DEF land, rest
      <4> QED
        BY <1>2, <2>1
    <3> QED
      BY <1>4, <3>1
  <2> HIDE DEF asked, rest, land
  <2>3. asked \in Int /\ Size - p \in Int /\ asked <= Size - p
    BY <1>1, <1>2, <2>1, <2>2
  <2>4. Least({ asked, Size - p }) = asked
    BY <2>3, LeastOf
  <2> QED
    BY <1>4, <2>2, <2>4 DEF ReadLen, asked, rest
<1> QED
  BY <1>3, <1>4

(* A whole piece read. *)
LEMMA GotPiece ==
  ASSUME NEW k \in Call, NEW p \in Nat, NEW s \in Nat, bad \in SUBSET Block,
         cell \in [Addr -> Byte],
         ReadKnows("r_read", k, p, s, bad, cell), Knows("r_read", k, p)
  PROVE  LET len == ReadLen(k, p)
             j   == Got(k, p, len, TRUE)
         IN  j \in Call /\ j.op = k.op /\ ReadKnows("r_copy", j, p + len, s, bad, cell)
<1> DEFINE land == Landing(s, bad)
           rest == Rest(s, bad)
           len  == ReadLen(k, p)
           b    == [i \in InBlock |-> IF i \in 0 .. len - 1 THEN cell[p + i] ELSE k.buf[i]]
           j    == Got(k, p, len, TRUE)
<1>1. /\ Found(s, bad) /\ k.count \in Nat /\ k.count > 0 /\ k.count <= EraseSize
      /\ k.done \in Int /\ EraseSize \in Nat
  <2>1. Found(s, bad) /\ k.count = ReadCount(land, k.n) /\ k.n \in Nat
    BY DEF ReadKnows, Call
  <2>2. k.count \in 1 .. k.n /\ k.done \in Int
    BY DEF Knows, ReadAt, Call
  <2> HIDE DEF land
  <2> QED
    BY <2>1, <2>2, ReadCountOf, GeometryAssumption DEF land
<1>2. rest \in 1 .. EraseSize /\ land \in Nat
  BY <1>1, FirstPlace
<1>3. len = CASE k.phase = "second" -> k.count - rest
              [] k.phase = "first"  -> rest
              [] OTHER              -> k.count
  BY <1>1, ReadLenIs
<1>4. /\ k.phase = "second" => k.count > rest
      /\ k.phase # "second" => (k.phase = "first" <=> k.count > rest)
  BY DEF ReadKnows
<1>5. len \in Nat /\ len <= EraseSize /\ p + len <= Size
  BY ReadLenFits, <1>1, <1>2, <1>3, <1>4
<1>6. \A i \in InBlock : i \in 0 .. len - 1 => p + i \in Addr
  <2>1. Size \in Nat
    BY BeyondSize
  <2> HIDE DEF len
  <2> QED
    BY <1>5, <2>1 DEF Addr, InBlock
<1>7. b \in [InBlock -> Byte]
  BY <1>6 DEF Call
<1>8. /\ j \in Call /\ j.op = k.op /\ j.n = k.n /\ j.count = k.count /\ j.ebnum = k.ebnum
      /\ j.phase = k.phase /\ j.done = k.done /\ j.out = k.out
      /\ j.len = len /\ j.buf = b
  <2>1. j = [k EXCEPT !.len = len, !.buf = b]
    BY DEF Got
  <2> HIDE DEF b, j, len
  <2> QED
    BY <1>5, <1>7, <2>1 DEF Call
<1>9. ASSUME NEW i \in 0 .. len - 1
      PROVE  b[i] = cell[PlaceOf(s, k.done + i, bad)]
  <2>1. i \in InBlock /\ i \in Nat
    <3> HIDE DEF len
    <3> QED
      BY <1>1, <1>5 DEF InBlock
  <2>2. b[i] = cell[p + i]
    BY <2>1
  <2>3. CASE k.phase = "second"
    <3>1. k.done = rest /\ p = Landing(Turn(s, bad), bad)
      BY <2>3 DEF ReadKnows
    <3>2. ~ (rest + i < rest) /\ (rest + i) - rest = i
      <4> HIDE DEF rest
      <4> QED
        BY <1>2, <2>1
    <3> QED
      BY <2>2, <3>1, <3>2 DEF PlaceOf
  <2>4. CASE k.phase # "second"
    <3>1. k.done = 0 /\ p = land
      BY <2>4 DEF ReadKnows
    <3>2. 0 + i = i /\ i < rest
      <4> HIDE DEF rest, len
      <4> QED
        BY <1>1, <1>2, <1>3, <1>4, <1>5, <2>1, <2>4
    <3> QED
      BY <2>2, <3>1, <3>2 DEF PlaceOf
  <2> QED
    BY <2>3, <2>4
<1>10. \A i \in 0 .. j.len - 1 : j.buf[i] = cell[PlaceOf(s, j.done + i, bad)]
  BY <1>8, <1>9
<1> HIDE DEF b, len, j, land, rest
<1>11. len = IF k.phase = "second" THEN k.count - rest
             ELSE IF k.count > rest THEN rest ELSE k.count
  BY <1>3, <1>4
<1>12. ReadKnows("r_copy", j, p + len, s, bad, cell)
  BY <1>8, <1>10, <1>11 DEF ReadKnows, land, rest
<1> QED
  BY <1>8, <1>12 DEF j, len

LEMMA ReadFlashSays ==
  ASSUME FlashInv, NEW c \in Client, ReadFlash(c), mtdFaults' = mtdFaults,
         NEW s \in Nat, NEW z, SaysNow(c, s, z)
  PROVE  SaysNext(c, s, z)
<1> DEFINE k == call[c]
           p == pos[c]
           len == ReadLen(k, p)
           j   == Got(k, p, len, TRUE)
<1>1. /\ k \in Call /\ p \in Nat /\ Knows("r_read", k, p) /\ bad \in SUBSET Block
      /\ k.op = "read" /\ ReadKnows("r_read", k, p, s, bad, cell)
      /\ cell \in [Addr -> Byte]
  BY Locals DEF ReadFlash, SaysNow, Says, ReadAt
<1>2. ~ MtdFault
  BY DEF MtdFault, FlashInv, TypeOK
<1>3. Delivered(c, len, TRUE)
  BY <1>2 DEF ReadFlash
<1>4. len \in Nat /\ len > 0
  BY <1>1, ReadLenFits
<1>5. GoOn(c, j, p + len, "r_copy")
  <2>1. len # 0
    BY <1>4
  <2> HIDE DEF len
  <2> QED
    BY <1>3, <2>1, Zenon DEF Delivered
<1>6. j \in Call /\ j.op = "read" /\ ReadKnows("r_copy", j, p + len, s, bad, cell)
  BY <1>1, GotPiece
<1> HIDE DEF j, len
<1> QED
  BY <1>5, <1>6, ReadGoesOn DEF ReadAt, ReadFlash

(* The piece copied out, and the search for the second block. *)
LEMMA AfterPieceSays ==
  ASSUME FlashInv, NEW c \in Client, NEW k \in Call, NEW p, UNCHANGED cell,
         NEW s \in Nat, NEW z, k.op = "read", k.count > 0,
         ReadKnows("r_copy", k, p, s, bad, cell),
         NEW j \in Call, j.op = "read", j.n = k.n, j.count = k.count, j.phase = k.phase,
         j.len = k.len, j.out = [i \in InBlock |->
                                   IF i \in k.done .. k.done + k.len - 1
                                   THEN k.buf[i - k.done] ELSE k.out[i]],
         AfterPiece(c, j, p)
  PROVE  SaysNext(c, s, z)
<1> DEFINE land == Landing(s, bad)
           rest == Rest(s, bad)
           turn == Turn(s, bad)
           count == k.count
<1>1. /\ Found(s, bad) /\ count \in Nat /\ bad \in SUBSET Block /\ k.n \in Nat
      /\ count = ReadCount(land, k.n) /\ land + count <= Size
  <2>1. Found(s, bad) /\ count = ReadCount(land, k.n) /\ k.n \in Nat
    BY DEF ReadKnows, Call
  <2> QED
    BY <2>1, ReadCountOf, Locals
<1>2. rest \in Nat /\ rest > 0 /\ land \in Nat /\ turn = land + rest /\ turn \in Nat
      /\ EraseSize \in Nat /\ \A i \in InBlock : i \in Nat
  BY <1>1, FirstPlace, GeometryAssumption DEF Turn, InBlock
<1>3. \A i \in 0 .. k.len - 1 : k.buf[i] = cell[PlaceOf(s, k.done + i, bad)]
  BY DEF ReadKnows
<1>4. CASE k.phase = "second"
  <2>1. /\ Found(turn, bad) /\ k.done = rest /\ count > rest /\ k.len = count - rest
        /\ OutIs(k.out, rest, s, bad, cell) /\ p = Landing(turn, bad) + k.len
    BY <1>4 DEF ReadKnows
  <2>2. OutIs(j.out, count, s, bad, cell)
    <3> HIDE DEF land, rest, turn, count
    <3> SUFFICES ASSUME NEW i \in InBlock
                 PROVE  j.out[i] = IF i < count THEN cell[PlaceOf(s, i, bad)] ELSE Untouched
      BY DEF OutIs
    <3>1. i \in k.done .. k.done + k.len - 1 <=> (i < count /\ ~ (i < rest))
      BY <1>1, <1>2, <2>1
    <3>2. CASE i < count /\ ~ (i < rest)
      <4>1. i - rest \in 0 .. k.len - 1 /\ rest + (i - rest) = i
        BY <1>1, <1>2, <2>1, <3>2
      <4> QED
        BY <1>3, <2>1, <3>1, <3>2, <4>1
    <3>3. CASE i < rest
      BY <1>1, <1>2, <2>1, <3>1, <3>3 DEF OutIs
    <3>4. CASE ~ (i < count)
      BY <1>1, <1>2, <2>1, <3>1, <3>4 DEF OutIs
    <3> QED
      BY <3>2, <3>3, <3>4
  <2>3. p = PlaceOf(s, count - 1, bad) + 1
    <3>1. Landing(turn, bad) \in Nat
      BY <1>1, <1>2, LandingFacts
    <3>2. PlaceOf(s, count - 1, bad) = IF count - 1 < rest THEN land + (count - 1)
                                       ELSE Landing(turn, bad) + ((count - 1) - rest)
      BY DEF PlaceOf
    <3> HIDE DEF land, rest, turn, count
    <3> QED
      BY <1>1, <1>2, <2>1, <3>1, <3>2
  <2>4. \A l : l.n = j.n /\ l.out = j.out /\ l.ret = j.len => ReadDone(l, p, s, bad, cell)
    BY <1>1, <2>1, <2>2, <2>3 DEF ReadDone
  <2>5. FreeReturn(c, j, p, j.len)
    BY <1>4 DEF AfterPiece
  <2> QED
    BY <2>4, <2>5, ReadReturns
<1>5. ASSUME k.phase # "second"
      PROVE  /\ k.done = 0 /\ (k.phase = "first" <=> count > rest)
             /\ k.len = (IF count > rest THEN rest ELSE count) /\ p = land + k.len
             /\ k.len \in Nat /\ k.len <= rest
             /\ OutIs(j.out, k.len, s, bad, cell)
  <2>1. /\ k.done = 0 /\ (k.phase = "first" <=> count > rest)
        /\ k.len = (IF count > rest THEN rest ELSE count) /\ p = land + k.len
        /\ OutIs(k.out, 0, s, bad, cell)
    BY <1>5 DEF ReadKnows
  <2>2. k.len \in Nat /\ k.len <= rest
    <3> HIDE DEF land, rest, turn, count
    <3> QED
      BY <1>1, <1>2, <2>1
  <2>3. \A i \in InBlock : j.out[i] = IF i < k.len THEN cell[PlaceOf(s, i, bad)] ELSE Untouched
    <3> SUFFICES ASSUME NEW i \in InBlock
                 PROVE  j.out[i] = IF i < k.len THEN cell[PlaceOf(s, i, bad)] ELSE Untouched
      OBVIOUS
    <3>1. i \in k.done .. k.done + k.len - 1 <=> i < k.len
      BY <1>2, <2>1, <2>2
    <3>2. i - k.done = i /\ k.done + i = i /\ (i < k.len => i \in 0 .. k.len - 1)
      BY <1>2, <2>1, <2>2
    <3>3. k.out[i] = Untouched
      BY <2>1, OutNone
    <3> QED
      BY <1>3, <3>1, <3>2, <3>3
  <2> QED
    BY <2>1, <2>2, <2>3 DEF OutIs
<1>6. CASE k.phase # "second" /\ k.phase # "first"
  <2>1. count <= rest /\ k.len = count /\ p = land + count
        /\ OutIs(j.out, count, s, bad, cell)
    <3>1. /\ (k.phase = "first" <=> count > rest)
          /\ k.len = (IF count > rest THEN rest ELSE count) /\ p = land + k.len
          /\ OutIs(j.out, k.len, s, bad, cell)
      BY <1>5, <1>6
    <3> HIDE DEF land, rest, turn, count
    <3> QED
      BY <1>1, <1>2, <1>6, <3>1
  <2>2. p = PlaceOf(s, count - 1, bad) + 1
    <3>1. count - 1 < rest
      <4> HIDE DEF land, rest, turn, count
      <4> QED
        BY <1>1, <1>2, <2>1
    <3>2. PlaceOf(s, count - 1, bad) = land + (count - 1)
      BY <3>1 DEF PlaceOf
    <3> HIDE DEF land, rest, turn, count
    <3> QED
      BY <1>1, <1>2, <2>1, <3>2
  <2>3. \A l : l.n = j.n /\ l.out = j.out /\ l.ret = j.len => ReadDone(l, p, s, bad, cell)
    BY <1>1, <2>1, <2>2 DEF ReadDone
  <2>4. FreeReturn(c, j, p, j.len)
    BY <1>6 DEF AfterPiece
  <2> QED
    BY <2>3, <2>4, ReadReturns
<1>7. CASE k.phase = "first"
  <2>1. count > rest /\ k.len = rest /\ p = turn /\ OutIs(j.out, rest, s, bad, cell)
    BY <1>2, <1>5, <1>7
  <2>2. CASE /\ Found(p, bad)
             /\ GoOn(c, AtBlock([j EXCEPT !.phase = "second", !.done = j.len], p),
                     Landing(p, bad), "r_read")
    <3> DEFINE i == [j EXCEPT !.phase = "second", !.done = j.len]
               l == AtBlock(i, p)
    <3>1. /\ i \in Call /\ i.op = "read" /\ i.n = k.n /\ i.count = count /\ i.out = j.out
          /\ i.phase = "second" /\ i.done = rest
      <4>1. i.op = j.op /\ i.out = j.out /\ j.len \in Int
        BY DEF Call
      <4> QED
        BY <2>1, <4>1, SecondTyped
    <3>2. FirstGood(p, bad) \in Nat
      BY <1>1, <1>2, <2>1, <2>2, LandingFacts, GeometryAssumption DEF Block
    <3>3. /\ l \in Call /\ l.op = "read" /\ l.n = k.n /\ l.count = count /\ l.out = j.out
          /\ l.phase = "second" /\ l.done = rest
      <4> HIDE DEF i, count, rest
      <4> QED
        BY <3>1, <3>2 DEF AtBlock, Call
    <3> HIDE DEF i, l
    <3>4. ReadKnows("r_read", l, Landing(p, bad), s, bad, cell)
      BY <1>1, <2>1, <2>2, <3>3 DEF ReadKnows
    <3> QED
      BY <2>2, <3>3, <3>4, ReadGoesOn DEF ReadAt, l, i
  <2>3. CASE FreeReturn(c, j, Landing(p, bad),
                        IF BlockOf(p) >= EbCnt THEN j.len ELSE EFAULT)
    <3>1. ~ (BlockOf(p) >= EbCnt)
      <4>1. Size \in Nat /\ (BlockOf(p) >= EbCnt <=> p >= Size)
        BY <1>2, <2>1, BeyondSize
      <4> HIDE DEF land, rest, turn, count
      <4> QED
        BY <1>1, <1>2, <2>1, <4>1
    <3>2. FreeReturn(c, j, Landing(p, bad), EFAULT)
      BY <2>3, <3>1
    <3>3. \A l : l.n = j.n /\ l.out = j.out /\ l.ret = EFAULT
                 => ReadDone(l, Landing(p, bad), s, bad, cell)
      BY <1>1, <2>1 DEF ReadDone, EFAULT
    <3> QED
      BY <3>2, <3>3, ReadReturns
  <2> QED
    BY <1>7, <2>2, <2>3 DEF AfterPiece
<1> QED
  BY <1>4, <1>6, <1>7

LEMMA CopyOutSays ==
  ASSUME FlashInv, NEW c \in Client, CopyOut(c), NEW s \in Nat, NEW z, SaysNow(c, s, z)
  PROVE  SaysNext(c, s, z)
<1> DEFINE k == call[c]
           p == pos[c]
           out == [i \in InBlock |-> IF i \in k.done .. k.done + k.len - 1
                                     THEN k.buf[i - k.done] ELSE k.out[i]]
           j == [k EXCEPT !.out = out]
<1>1. /\ k \in Call /\ Knows("r_copy", k, p) /\ bad \in SUBSET Block
      /\ k.op = "read" /\ ReadKnows("r_copy", k, p, s, bad, cell)
  BY Locals DEF CopyOut, SaysNow, Says, ReadAt
<1>2. k.count \in Nat /\ k.count > 0 /\ k.done \in Int /\ k.len \in Nat
      /\ k.done \in 0 .. k.count - k.len /\ k.n \in Nat
  BY <1>1 DEF Knows, ReadAt, Call
<1>3. CASE AfterPiece(c, j, p)
  <2>1. out \in [InBlock -> Byte]
    <3>1. k.count <= EraseSize /\ EraseSize \in Nat
      <4>1. Found(s, bad) /\ k.count = ReadCount(Landing(s, bad), k.n)
        BY <1>1 DEF ReadKnows
      <4> QED
        BY <1>1, <1>2, <4>1, ReadCountOf, GeometryAssumption
    <3>2. \A i \in InBlock : i \in k.done .. k.done + k.len - 1 => i - k.done \in InBlock
      BY <1>2, <3>1 DEF InBlock
    <3> QED
      BY <1>1, <3>2 DEF Call
  <2>2. /\ j \in Call /\ j.op = "read" /\ j.n = k.n /\ j.count = k.count
        /\ j.phase = k.phase /\ j.len = k.len /\ j.out = out
    <3> HIDE DEF out
    <3> QED
      BY <1>1, <2>1 DEF Call
  <2> HIDE DEF j
  <2> QED
    BY <1>1, <1>2, <1>3, <2>2, AfterPieceSays DEF CopyOut
<1>4. CASE FreeReturn(c, k, p, EFAULT)
  <2>1. \/ OutIs(k.out, 0, s, bad, cell)
        \/ Found(s, bad) /\ k.count > Rest(s, bad) /\ OutIs(k.out, Rest(s, bad), s, bad, cell)
    BY <1>1 DEF ReadKnows
  <2>2. k.count = ReadCount(Landing(s, bad), k.n)
    BY <1>1 DEF ReadKnows
  <2>3. \A l : l.n = k.n /\ l.out = k.out /\ l.ret = EFAULT => ReadDone(l, p, s, bad, cell)
    BY <2>1, <2>2 DEF ReadDone, EFAULT
  <2> QED
    BY <1>1, <1>4, <2>3, ReadReturns DEF CopyOut
<1> QED
  BY <1>3, <1>4 DEF CopyOut
------------------------------------------------------------------------------
(* The steps of at91flash_write. *)

LEMMA WriteReturns ==
  ASSUME FlashInv, NEW c \in Client, NEW k \in Call, NEW p, NEW r, NEW s, NEW z,
         Return(c, k, p, r) \/ FreeReturn(c, k, p, r),
         k.op = "write",
         \A j : j.n = k.n /\ j.ret = r => WriteDone(j, s, bad, cell', z, UserData[c])
  PROVE  SaysNext(c, s, z)
  BY ReturnIs DEF SaysNext, Says, ReadAt, WriteAt

LEMMA WriteGoesOn ==
  ASSUME FlashInv, NEW c \in Client, NEW k \in Call, NEW p, NEW w \in WriteAt, NEW s, NEW z,
         GoOn(c, k, p, w), k.op = "write",
         WriteKnows(w, k, p, s, bad, cell', z, UserData[c])
  PROVE  SaysNext(c, s, z)
  BY MovesOn DEF SaysNext, Says, ReadAt, WriteAt

LEMMA BeginWriteSays ==
  ASSUME FlashInv, NEW c \in Client, NEW off \in Int, NEW p \in Nat, NEW n \in Lens,
         BeginWrite(c, off, p, n)
  PROVE  SaysNext(c, p, cell)
<1> DEFINE land == Landing(p, bad)
           k    == NewCall("write", off, n)
           m    == WriteCount(p, n)
           i    == [k EXCEPT !.count = m, !.boff = OffsetIn(land)]
           j    == AtBlock(i, p)
<1>1. /\ n \in Nat /\ k \in Call /\ k.op = "write" /\ bad \in SUBSET Block
      /\ k.n = n /\ k.phase = "whole"
  BY FlashAssumption, BeyondSize, NewCallTyped, Locals DEF NewCall, MaxLen
<1>2. cell' = cell /\ \A b : Old(b, cell', cell)
  BY DEF BeginWrite, Old
<1>3. ASSUME NEW q, NEW r \in Int, r <= 0, Return(c, k, q, r)
      PROVE  SaysNext(c, p, cell)
  <2>1. \A l : l.n = k.n /\ l.ret = r => WriteDone(l, p, bad, cell', cell, UserData[c])
    BY <1>2, <1>3 DEF WriteDone
  <2> HIDE DEF k
  <2> QED
    BY <1>1, <1>3, <2>1, WriteReturns
<1>4. CASE Found(p, bad) /\ GoOn(c, j, land, "w_alloc")
  <2>1. m \in Int
    BY <1>1, BeyondSize DEF WriteCount
  <2>2. land \in Nat /\ FirstGood(p, bad) \in Nat /\ OffsetIn(land) \in Nat
    BY <1>1, <1>4, FirstPlace, GeometryAssumption DEF Block, InBlock
  <2>3. /\ i \in Call /\ i.op = "write" /\ i.n = n /\ i.count = m
        /\ i.boff = OffsetIn(land) /\ i.phase = "whole"
    <3> HIDE DEF k, m, land
    <3> QED
      BY <1>1, <2>1, <2>2 DEF Call
  <2>4. /\ j \in Call /\ j.op = "write" /\ j.n = n /\ j.count = m
        /\ j.boff = OffsetIn(land) /\ j.phase = "whole"
        /\ j.ebnum = FirstGood(p, bad)
    <3> HIDE DEF i, m, land
    <3> QED
      BY <2>2, <2>3 DEF AtBlock, Call
  <2> HIDE DEF j
  <2>5. WriteKnows("w_alloc", j, land, p, bad, cell', cell, UserData[c])
    BY <1>2, <1>4, <2>4 DEF WriteKnows
  <2> QED
    BY <1>4, <2>4, <2>5, WriteGoesOn DEF WriteAt
<1> QED
  BY <1>3, <1>4 DEF BeginWrite, EFAULT

(* What is known when a step of a write begins. *)
LEMMA WriteLocals ==
  ASSUME FlashInv, NEW c \in Client, pc[c] \in WriteAt, NEW s \in Nat, NEW z,
         SaysNow(c, s, z)
  PROVE  /\ call[c] \in Call /\ call[c].op = "write"
         /\ Knows(pc[c], call[c], pos[c]) /\ bad \in SUBSET Block
         /\ WriteKnows(pc[c], call[c], pos[c], s, bad, cell, z, UserData[c])
         /\ cell \in [Addr -> Byte]
  BY Locals DEF SaysNow, Says

(* A write that fails before it has erased anything, or behind the whole   *)
(* first piece.                                                            *)
LEMMA WriteGivesUp ==
  ASSUME FlashInv, NEW c \in Client, pc[c] \in WriteAt \ { "w_prog" }, NEW s \in Nat, NEW z,
         SaysNow(c, s, z), UNCHANGED cell,
         NEW j \in Call, j.op = "write", j.n = call[c].n,
         NEW p, NEW r \in Int, r <= 0, Return(c, j, p, r) \/ FreeReturn(c, j, p, r)
  PROVE  SaysNext(c, s, z)
<1> DEFINE k == call[c]
           w == pc[c]
           d == UserData[c]
<1>1. /\ w \in WriteAt /\ k \in Call /\ Knows(w, k, pos[c]) /\ bad \in SUBSET Block
      /\ WriteKnows(w, k, pos[c], s, bad, cell, z, d)
  BY WriteLocals
<1>2. CASE k.phase # "second"
  <2>1. \A b \in Reach(s, k.n, bad) : Old(b, cell, z)
    BY <1>1, <1>2 DEF WriteKnows
  <2>2. \A l : l.n = j.n /\ l.ret = r => WriteDone(l, s, bad, cell', z, d)
    BY <2>1 DEF WriteDone
  <2> QED
    BY <2>2, WriteReturns
<1>3. CASE k.phase = "second"
  <2>1. /\ FirstPart(BlockAt(cell, FirstGood(s, bad)), k.n, s, bad, z, d)
        /\ Old(FirstGood(Turn(s, bad), bad), cell, z)
        /\ k.count = WriteCount(s, k.n) /\ k.count \in 1 .. k.n /\ Found(s, bad)
        /\ k.n \in Nat
    BY <1>1, <1>3, WriteReaches DEF WriteKnows
  <2>2. \A b \in Reach(s, k.n, bad) \ { FirstGood(s, bad) } : Old(b, cell, z)
    BY <1>1, <2>1, ReachIs
  <2>3. \A l : l.n = j.n /\ l.ret = r => WriteDone(l, s, bad, cell', z, d)
    BY <2>1, <2>2 DEF WriteDone
  <2> QED
    BY <2>3, WriteReturns
<1> QED
  BY <1>2, <1>3

LEMMA WriteAllocSays ==
  ASSUME FlashInv, NEW c \in Client, WriteAlloc(c), NEW s \in Nat, NEW z, SaysNow(c, s, z)
  PROVE  SaysNext(c, s, z)
<1> DEFINE k == call[c]
           j == [k EXCEPT !.phase = "head"]
<1>1. /\ pc[c] = "w_alloc" /\ pc[c] \in WriteAt \ { "w_prog" } /\ cell' = cell
  BY DEF WriteAlloc, WriteAt
<1>2. /\ k \in Call /\ k.op = "write" /\ Knows("w_alloc", k, pos[c])
      /\ WriteKnows("w_alloc", k, pos[c], s, bad, cell, z, UserData[c])
  BY <1>1, WriteLocals
<1>3. k.phase = "whole"
  BY <1>2 DEF Knows
<1>4. CASE pos[c] = 0 /\ GoOn(c, j, 0, "w_fill")
  <2>1. /\ j \in Call /\ j.op = "write" /\ j.n = k.n /\ j.count = k.count
        /\ j.boff = k.boff /\ j.ebnum = k.ebnum /\ j.phase = "head"
    BY <1>2 DEF Call, Phase
  <2> HIDE DEF j
  <2>2. WriteKnows("w_fill", j, 0, s, bad, cell', z, UserData[c])
    BY <1>1, <1>2, <1>3, <1>4, <2>1 DEF WriteKnows
  <2> QED
    BY <1>4, <2>1, <2>2, WriteGoesOn DEF WriteAt
<1>5. CASE GoOn(c, k, pos[c], "w_load")
  <2>1. WriteKnows("w_load", k, pos[c], s, bad, cell', z, UserData[c])
    BY <1>1, <1>2, <1>3 DEF WriteKnows
  <2> QED
    BY <1>2, <1>5, <2>1, WriteGoesOn DEF WriteAt
<1>6. CASE Return(c, k, pos[c], ENOMEM)
  BY <1>1, <1>2, <1>6, WriteGivesUp DEF ENOMEM
<1> QED
  BY <1>4, <1>5, <1>6 DEF WriteAlloc

LEMMA LoadSays ==
  ASSUME FlashInv, NEW c \in Client, Load(c), mtdFaults' = mtdFaults,
         NEW s \in Nat, NEW z, SaysNow(c, s, z)
  PROVE  SaysNext(c, s, z)
<1> DEFINE k == call[c]
           i == Loaded(k)
           j(ph) == [i EXCEPT !.phase = ph]
<1>1. /\ pc[c] = "w_load" /\ pc[c] \in WriteAt \ { "w_prog" } /\ cell' = cell
  BY DEF Load, WriteAt
<1>2. /\ k \in Call /\ k.op = "write" /\ Knows("w_load", k, pos[c])
      /\ WriteKnows("w_load", k, pos[c], s, bad, cell, z, UserData[c])
      /\ cell \in [Addr -> Byte] /\ bad \in SUBSET Block
  BY <1>1, WriteLocals
<1>3. /\ k.phase \in { "whole", "second" } /\ k.ebnum \in Block
      /\ k.ebnum \in Reach(s, k.n, bad)
  <2>1. k.phase \in { "whole", "second" }
    BY <1>2 DEF Knows
  <2>2. "w_load" \in WriteAt
    BY DEF WriteAt
  <2> QED
    BY <1>2, <2>1, <2>2, WriteReaches
<1>4. BlockAt(cell, k.ebnum) = BlockAt(z, k.ebnum)
  <2>1. Old(k.ebnum, cell, z)
    BY <1>2, <1>3 DEF WriteKnows
  <2> QED
    BY <2>1 DEF Old, BlockAt
<1>5. /\ i \in Call /\ i.op = "write" /\ i.n = k.n /\ i.count = k.count /\ i.boff = k.boff
      /\ i.ebnum = k.ebnum /\ i.phase = k.phase /\ i.buf = BlockAt(z, k.ebnum)
  <2> DEFINE b == BlockAt(cell, k.ebnum)
  <2>1. b \in [InBlock -> Byte]
    BY <1>2, <1>3, BlockCells DEF BlockAt
  <2>2. i = [k EXCEPT !.buf = b]
    BY DEF Loaded, BlockAt
  <2> HIDE DEF b, i
  <2> QED
    BY <1>2, <1>4, <2>1, <2>2 DEF Call, b
<1>6. ~ MtdFault
  BY DEF MtdFault, FlashInv, TypeOK
<1>7. ASSUME NEW ph \in Phase \ { "head" }, (ph = "second") <=> (k.phase = "second"),
             GoOn(c, j(ph), pos[c], "w_fill")
      PROVE  SaysNext(c, s, z)
  <2> DEFINE l == j(ph)
  <2>1. /\ l \in Call /\ l.op = "write" /\ l.n = k.n /\ l.count = k.count /\ l.boff = k.boff
        /\ l.ebnum = k.ebnum /\ l.phase = ph /\ l.buf = BlockAt(z, k.ebnum)
    <3> HIDE DEF i
    <3> QED
      BY <1>5, <1>7 DEF Call
  <2> HIDE DEF j, l
  <2>2. WriteKnows("w_fill", l, pos[c], s, bad, cell', z, UserData[c])
    BY <1>1, <1>2, <1>7, <2>1 DEF WriteKnows
  <2> QED
    BY <1>7, <2>1, <2>2, WriteGoesOn DEF WriteAt, l
<1>8. CASE FreeReturn(c, i, pos[c], EFAULT)
  <2> HIDE DEF i
  <2> QED
    BY <1>1, <1>2, <1>5, <1>8, WriteGivesUp DEF EFAULT
<1>9. \/ FreeReturn(c, i, pos[c], EFAULT)
      \/ \E ph \in Phase \ { "head" } :
           /\ (ph = "second") <=> (k.phase = "second")
           /\ GoOn(c, j(ph), pos[c], "w_fill")
  <2>1. { "whole", "first", "second" } = Phase \ { "head" }
    BY DEF Phase
  <2>2. \/ k.phase = "second" /\ GoOn(c, j("second"), pos[c], "w_fill")
        \/ k.phase = "whole" /\ GoOn(c, j("whole"), pos[c], "w_fill")
        \/ k.phase = "whole" /\ GoOn(c, j("first"), pos[c], "w_fill")
        \/ FreeReturn(c, i, pos[c], EFAULT)
    <3> HIDE DEF i
    <3> QED
      BY <1>5, <1>6 DEF Load, i
  <2> HIDE DEF j, i
  <2> QED
    BY <2>1, <2>2
<1> QED
  BY <1>7, <1>8, <1>9

(* The piece of the data put into the copy of the block. *)
LEMMA FilledIs ==
  ASSUME NEW k \in Call, NEW p, NEW s \in Nat, NEW B \in SUBSET Block, NEW m, NEW z, NEW d,
         Knows("w_fill", k, p), WriteKnows("w_fill", k, p, s, B, m, z, d)
  PROVE  /\ k.phase # "second" => FirstPart(Filled(k, d), k.n, s, B, z, d)
         /\ k.phase = "second" => SecondPart(Filled(k, d), k.n, s, B, z, d)
<1> DEFINE r == Rest(s, B)
           o == OffsetIn(Landing(s, B))
           len == IF k.count > r THEN r ELSE k.count
           F == Filled(k, d)
<1>1. /\ k.n \in Nat /\ k.count \in 1 .. k.n /\ Found(s, B) /\ r = EraseSize - k.boff
      /\ k.phase \in { "first", "second" } => k.count > r
      /\ k.phase = "whole" => k.count <= r
      /\ k.count = WriteCount(s, k.n) /\ k.boff = o
      /\ k.phase = "head" => Landing(s, B) = 0
  BY WriteReaches DEF WriteKnows, WriteAt
<1>2. /\ o \in Nat /\ r \in Nat /\ EraseSize \in Nat
      /\ Landing(s, B) = 0 => o = 0
      /\ \A i \in InBlock : i \in Nat /\ i < EraseSize
  BY <1>1, FirstPlace, BlockCells, GeometryAssumption DEF InBlock
<1>3. /\ k.phase # "head" => k.buf = BlockAt(z, k.ebnum)
      /\ k.ebnum = IF k.phase = "second" THEN FirstGood(Turn(s, B), B) ELSE FirstGood(s, B)
      /\ k.phase \in Phase
  BY DEF WriteKnows, Call
<1>4. CASE k.phase = "second"
  <2>1. PieceAt(k) = 0 /\ PieceLen(k) = k.count - r /\ PieceFrom(k) = r
    BY <1>1, <1>4 DEF PieceAt, PieceLen, PieceFrom
  <2> HIDE DEF r, o
  <2>2. \A i \in InBlock : (i \in 0 .. 0 + (k.count - r) - 1 <=> i < k.count - r) /\ i - 0 = i
    BY <1>1, <1>2
  <2>3. \A i \in InBlock : F[i] = IF i < k.count - r THEN d[r + i]
                                  ELSE z[StartOf(FirstGood(Turn(s, B), B)) + i]
    BY <1>3, <1>4, <2>1, <2>2 DEF Filled, BlockAt
  <2> HIDE DEF F
  <2> QED
    BY <1>1, <1>4, <2>3 DEF SecondPart, r, F
<1>5. CASE k.phase # "second"
  <2>1. PieceFrom(k) = 0 /\ PieceAt(k) = o
    BY <1>1, <1>2, <1>3, <1>5 DEF PieceAt, PieceFrom, Phase
  <2>2. \A i \in InBlock : i \in o .. o + PieceLen(k) - 1 <=> i - o \in 0 .. len - 1
    <3>1. PieceLen(k) = IF k.phase = "first" THEN r ELSE k.count
      BY <1>1, <1>3, <1>5 DEF PieceLen, Phase
    <3>2. k.phase = "head" => o = 0
      BY <1>1, <1>2
    <3>3. k.phase \in { "whole", "first", "head" } /\ r = EraseSize - o /\ k.count \in Int
      BY <1>1, <1>3, <1>5 DEF Phase
    <3> HIDE DEF r, o
    <3>4. CASE k.phase = "whole"
      BY <1>1, <1>2, <3>1, <3>4
    <3>5. CASE k.phase = "first"
      BY <1>1, <1>2, <3>1, <3>5
    <3>6. CASE k.phase = "head"
      BY <1>2, <3>1, <3>2, <3>3, <3>6
    <3> QED
      BY <3>3, <3>4, <3>5, <3>6
  <2>3. \A i \in InBlock : 0 + (i - o) = i - o
    BY <1>2
  <2>4. k.phase = "head" => Landing(s, B) = 0
    BY <1>1
  <2>5. \A i \in InBlock : k.phase # "head" => k.buf[i] = z[StartOf(FirstGood(s, B)) + i]
    BY <1>3, <1>5 DEF BlockAt
  <2>6. \A i \in InBlock : F[i] = IF i \in o .. o + PieceLen(k) - 1 THEN d[0 + (i - o)]
                                  ELSE k.buf[i]
    BY <2>1 DEF Filled
  <2> HIDE DEF F, len, r, o
  <2>7. \A i \in InBlock : IF i - o \in 0 .. len - 1 THEN F[i] = d[i - o]
                           ELSE Landing(s, B) # 0 => F[i] = z[StartOf(FirstGood(s, B)) + i]
    BY <2>2, <2>3, <2>4, <2>5, <2>6
  <2> QED
    BY <1>1, <1>5, <2>7 DEF FirstPart, F, len, r, o
<1> QED
  BY <1>4, <1>5

LEMMA CopyInSays ==
  ASSUME FlashInv, NEW c \in Client, CopyIn(c), NEW s \in Nat, NEW z, SaysNow(c, s, z)
  PROVE  SaysNext(c, s, z)
<1> DEFINE k == call[c]
           d == UserData[c]
           F == Filled(k, d)
           j == [k EXCEPT !.buf = F]
<1>1. pc[c] = "w_fill" /\ pc[c] \in WriteAt \ { "w_prog" } /\ cell' = cell
  BY DEF CopyIn, WriteAt
<1>2. /\ k \in Call /\ k.op = "write" /\ Knows("w_fill", k, pos[c])
      /\ WriteKnows("w_fill", k, pos[c], s, bad, cell, z, d) /\ bad \in SUBSET Block
  BY <1>1, WriteLocals
<1>3. CASE GoOn(c, j, pos[c], "w_erase")
  <2>1. /\ j.op = "write" /\ j.n = k.n /\ j.count = k.count /\ j.boff = k.boff
        /\ j.ebnum = k.ebnum /\ j.phase = k.phase /\ j.buf = F
    <3> HIDE DEF F
    <3> QED
      BY <1>2 DEF Call
  <2>2. /\ k.phase # "second" => FirstPart(F, k.n, s, bad, z, d)
        /\ k.phase = "second" => SecondPart(F, k.n, s, bad, z, d)
    BY <1>2, FilledIs
  <2> HIDE DEF j, F
  <2>3. WriteKnows("w_erase", j, pos[c], s, bad, cell', z, d)
    BY <1>1, <1>2, <2>1, <2>2 DEF WriteKnows
  <2>4. /\ pc'[c] = "w_erase" /\ call'[c] = j /\ pos'[c] = pos[c]
    BY <1>3, MovesOn
  <2> QED
    BY <2>1, <2>3, <2>4 DEF SaysNext, Says, ReadAt, WriteAt
<1>4. CASE FreeReturn(c, k, pos[c], EFAULT)
  BY <1>1, <1>2, <1>4, WriteGivesUp DEF EFAULT
<1> QED
  BY <1>3, <1>4 DEF CopyIn

(* A block put in place leaves the others alone. *)
LEMMA BlockChanged ==
  ASSUME NEW b \in Block, NEW f \in [InBlock -> Byte], cell' = WithBlock(b, f)
  PROVE  BlockAt(cell', b) = f /\ \A e \in Block \ {b} : Old(e, cell', cell)
<1>1. ASSUME NEW e \in Block, NEW i \in InBlock
      PROVE  cell'[StartOf(e) + i] = IF e = b THEN f[i] ELSE cell[StartOf(e) + i]
  <2>1. /\ StartOf(e) + i \in Addr
        /\ StartOf(e) + i \in CellsOf(b) <=> e = b
        /\ (StartOf(e) + i) - StartOf(e) = i
    BY Place
  <2> QED
    BY <2>1 DEF WithBlock
<1> QED
  BY <1>1 DEF BlockAt, Old

(* The blocks of the write, when the one in hand has changed. *)
LEMMA OtherBlock ==
  ASSUME NEW b, NEW e \in Block, b # e, NEW m,
         \A x \in Block \ {b} : Old(x, m, cell)
  PROVE  BlockAt(m, e) = BlockAt(cell, e) /\ \A z : Old(e, cell, z) => Old(e, m, z)
  BY SameBlock

LEMMA EraseSays ==
  ASSUME FlashInv, NEW c \in Client, Erase(c), mtdFaults' = mtdFaults,
         NEW s \in Nat, NEW z, SaysNow(c, s, z)
  PROVE  SaysNext(c, s, z)
<1> DEFINE k == call[c]
           d == UserData[c]
           b == k.ebnum
           f == FirstGood(s, bad)
<1>1. pc[c] = "w_erase" /\ pc[c] \in WriteAt
  BY DEF Erase, WriteAt
<1>2. /\ k \in Call /\ k.op = "write" /\ Knows("w_erase", k, pos[c])
      /\ WriteKnows("w_erase", k, pos[c], s, bad, cell, z, d) /\ bad \in SUBSET Block
  BY <1>1, WriteLocals
<1>3. /\ b \in Block \ bad /\ k.n \in Nat /\ Found(s, bad) /\ f \in Block
      /\ k.phase = "second" => f # b /\ b = FirstGood(Turn(s, bad), bad)
  <2> DEFINE g == FirstGood(Turn(s, bad), bad)
             r == Rest(s, bad)
  <2>1. /\ b \in Block \ bad /\ k.n \in Nat /\ Found(s, bad) /\ f \in Block
        /\ k.phase \in { "first", "second" } => k.count > r
        /\ (k.count > r /\ Found(Turn(s, bad), bad)) => g # f
    BY <1>1, <1>2, WriteReaches
  <2>2. k.phase = "second" => b = g /\ Found(Turn(s, bad), bad)
    BY <1>2 DEF WriteKnows
  <2> HIDE DEF g, r, f, b
  <2> QED
    BY <2>1, <2>2 DEF g
<1>4. ~ MtdFault
  BY DEF MtdFault, FlashInv, TypeOK
<1>5. cell' = WithBlock(b, Erased) /\ GoOn(c, k, pos[c], "w_prog")
  BY <1>3, <1>4 DEF Erase
<1>6. BlockAt(cell', b) = Erased /\ \A e \in Block \ {b} : Old(e, cell', cell)
  <2>1. Erased \in [InBlock -> Byte]
    BY DEF Erased, FF, Byte
  <2> QED
    BY <1>3, <1>5, <2>1, BlockChanged
<1>7. \A e \in Reach(s, k.n, bad) : e \in Block
  BY <1>2, <1>3, ReachIs, FirstPlace, SecondPlace
<1>8. \A e \in Block \ {b} :
        BlockAt(cell', e) = BlockAt(cell, e) /\ (Old(e, cell, z) => Old(e, cell', z))
  BY <1>6, OtherBlock
<1>9. WriteKnows("w_prog", k, pos[c], s, bad, cell', z, d)
  <2>1. CASE k.phase = "second"
    BY <1>2, <1>3, <1>6, <1>8, <2>1 DEF WriteKnows
  <2>2. CASE k.phase # "second"
    <3>1. b = f /\ \A e \in Reach(s, k.n, bad) : Old(e, cell, z)
      BY <1>2, <2>2 DEF WriteKnows
    <3>2. \A e \in Reach(s, k.n, bad) : e = f \/ Old(e, cell', z)
      BY <1>7, <1>8, <3>1
    <3> QED
      BY <1>2, <1>6, <2>2, <3>2 DEF WriteKnows
  <2> QED
    BY <2>1, <2>2
<1> QED
  BY <1>2, <1>5, <1>9, WriteGoesOn DEF WriteAt

LEMMA ProgramSays ==
  ASSUME FlashInv, NEW c \in Client, Program(c), mtdFaults' = mtdFaults,
         NEW s \in Nat, NEW z, SaysNow(c, s, z)
  PROVE  SaysNext(c, s, z)
<1> DEFINE k == call[c]
           p == pos[c]
           d == UserData[c]
           b == k.ebnum
           f == FirstGood(s, bad)
           g == FirstGood(Turn(s, bad), bad)
           count == WriteCount(s, k.n)
           r == Rest(s, bad)
<1>1. pc[c] = "w_prog" /\ pc[c] \in WriteAt
  BY DEF Program, WriteAt
<1>2. /\ k \in Call /\ k.op = "write" /\ Knows("w_prog", k, p)
      /\ WriteKnows("w_prog", k, p, s, bad, cell, z, d) /\ bad \in SUBSET Block
      /\ cell \in [Addr -> Byte]
  BY <1>1, WriteLocals
<1>3. /\ b \in Block \ bad /\ k.n \in Nat /\ Found(s, bad) /\ f \in Block /\ k.count = count
      /\ count \in 1 .. k.n /\ r = EraseSize - k.boff
      /\ k.phase = "second" => f # b /\ b = g
      /\ (count > r /\ Found(Turn(s, bad), bad)) =>
            g \in Block /\ g # f /\ g \in Reach(s, k.n, bad)
      /\ k.phase \in { "first", "second" } => count > r
      /\ k.phase = "whole" => count <= r
      /\ k.phase = "head" => Landing(s, bad) = 0
      /\ k.phase # "second" => b = f /\ p = Landing(s, bad)
      /\ BlockAt(cell, b) = Erased
  <2>1. /\ k.n \in Nat /\ k.count \in 1 .. k.n /\ Found(s, bad) /\ f \in Block
        /\ r = EraseSize - k.boff /\ b \in Block \ bad
        /\ k.phase \in { "first", "second" } => k.count > r
        /\ k.phase = "whole" => k.count <= r
        /\ (k.count > r /\ Found(Turn(s, bad), bad)) =>
              g \in Reach(s, k.n, bad) /\ g \in Block /\ g # f
    BY <1>1, <1>2, WriteReaches
  <2>2. /\ k.count = count
        /\ k.phase = "second" => b = g /\ Found(Turn(s, bad), bad)
        /\ k.phase = "head" => Landing(s, bad) = 0
        /\ k.phase # "second" => b = f /\ p = Landing(s, bad)
        /\ BlockAt(cell, b) = Erased
    BY <1>2 DEF WriteKnows
  <2> HIDE DEF k, p, b, f, g, count, r
  <2> QED
    BY <2>1, <2>2
<1>4. cell' = WithBlock(b, Programmed(k, EraseSize)) /\ AfterProgram(c, k, EraseSize)
  <2>1. ~ MtdFault
    BY DEF MtdFault, FlashInv, TypeOK
  <2> QED
    BY <2>1 DEF Program
<1>5. Programmed(k, EraseSize) = k.buf /\ k.buf \in [InBlock -> Byte]
  <2>1. k.buf \in [InBlock -> Byte]
    BY <1>2 DEF Call
  <2>2. \A i \in InBlock : i \in 0 .. EraseSize - 1 /\ cell[StartOf(b) + i] = FF
    BY <1>3 DEF InBlock, BlockAt, Erased
  <2>3. \A i \in InBlock : Programmed(k, EraseSize)[i] = k.buf[i]
    BY <2>2 DEF Programmed
  <2>4. Programmed(k, EraseSize) = [i \in InBlock |-> Programmed(k, EraseSize)[i]]
    BY DEF Programmed
  <2>5. Programmed(k, EraseSize) = [i \in InBlock |-> k.buf[i]]
    BY <2>3, <2>4
  <2> QED
    BY <2>1, <2>5
<1>6. BlockAt(cell', b) = k.buf /\ \A e \in Block \ {b} : Old(e, cell', cell)
  BY <1>3, <1>4, <1>5, BlockChanged
<1>7. \A e \in Block \ {b} :
        BlockAt(cell', e) = BlockAt(cell, e) /\ (Old(e, cell, z) => Old(e, cell', z))
  BY <1>6, OtherBlock
<1>8. \A e \in Reach(s, k.n, bad) : e \in Block /\ (e = f \/ e = g)
  BY <1>2, <1>3, ReachIs, FirstPlace, SecondPlace
<1>9. k.phase # "second" =>
        /\ FirstPart(BlockAt(cell', f), k.n, s, bad, z, d)
        /\ \A e \in Reach(s, k.n, bad) \ {f} : Old(e, cell', z)
  BY <1>2, <1>3, <1>6, <1>7, <1>8 DEF WriteKnows
<1>10. k.phase = "second" =>
        /\ FirstPart(BlockAt(cell', f), k.n, s, bad, z, d)
        /\ SecondPart(BlockAt(cell', g), k.n, s, bad, z, d)
        /\ Found(Turn(s, bad), bad)
  BY <1>2, <1>3, <1>6, <1>7 DEF WriteKnows
<1>11. ASSUME NEW q, NEW x, FreeReturn(c, k, q, x),
              \/ k.phase = "second"
              \/ k.phase \in { "whole", "head" }
              \/ k.phase = "first" /\ ~ (x > 0)
       PROVE  SaysNext(c, s, z)
  <2>1. ASSUME NEW l, l.n = k.n, l.ret = x
        PROVE  WriteDone(l, s, bad, cell', z, d)
    <3>1. CASE k.phase = "second"
      <4> HIDE DEF f, g, count, r
      <4> QED
        BY <1>3, <1>10, <2>1, <3>1 DEF WriteDone, f, g, count, r
    <3>2. CASE k.phase # "second"
      <4>1. x > 0 => count <= r \/ Landing(s, bad) = 0
        BY <1>3, <1>11, <3>2
      <4> HIDE DEF f, g, count, r
      <4> QED
        BY <1>3, <1>9, <2>1, <3>2, <4>1 DEF WriteDone, f, g, count, r
    <3> QED
      BY <3>1, <3>2
  <2> QED
    BY <1>2, <1>11, <2>1, WriteReturns
<1>12. CASE k.phase \in { "whole", "head" }
  <2>1. FreeReturn(c, k, p + EraseSize, EraseSize)
    BY <1>4, <1>12 DEF AfterProgram
  <2> QED
    BY <1>11, <1>12, <2>1
<1>13. CASE k.phase = "second"
  <2>1. FreeReturn(c, k, p + PieceLen(k), k.count)
    BY <1>4, <1>13 DEF AfterProgram
  <2> QED
    BY <1>11, <1>13, <2>1
<1>14. CASE k.phase = "first"
  <2> DEFINE i == [k EXCEPT !.phase = "second", !.done = EraseSize - k.boff]
             j == AtBlock(i, Turn(s, bad))
  <2>1. p + (EraseSize - k.boff) = Turn(s, bad)
    BY <1>3, <1>14 DEF Turn
  <2>2. \/ Found(Turn(s, bad), bad) /\ GoOn(c, j, Landing(Turn(s, bad), bad), "w_load")
        \/ FreeReturn(c, k, Landing(Turn(s, bad), bad), EFAULT)
    BY <1>4, <1>14, <2>1 DEF AfterProgram
  <2>3. CASE FreeReturn(c, k, Landing(Turn(s, bad), bad), EFAULT)
    BY <1>11, <1>14, <2>3 DEF EFAULT
  <2>4. CASE Found(Turn(s, bad), bad) /\ GoOn(c, j, Landing(Turn(s, bad), bad), "w_load")
    <3>1. /\ i \in Call /\ i.op = "write" /\ i.n = k.n /\ i.count = count
          /\ i.boff = k.boff /\ i.phase = "second"
      <4>1. i.op = k.op /\ EraseSize - k.boff \in Int
        BY <1>2, GeometryAssumption DEF Call
      <4> QED
        BY <1>2, <1>3, <4>1, SecondTyped
    <3>2. g \in Nat
      BY <1>3, <1>14, <2>4, GeometryAssumption DEF Block
    <3>3. /\ j \in Call /\ j.op = "write" /\ j.n = k.n /\ j.count = count
          /\ j.boff = k.boff /\ j.phase = "second" /\ j.ebnum = g
      <4> HIDE DEF i, count
      <4> QED
        BY <3>1, <3>2 DEF AtBlock, Call
    <3>4. Old(g, cell', z)
      BY <1>3, <1>9, <1>14, <2>4
    <3>5. k.boff = OffsetIn(Landing(s, bad))
      BY <1>2 DEF WriteKnows
    <3> HIDE DEF i, j
    <3>6. WriteKnows("w_load", j, Landing(Turn(s, bad), bad), s, bad, cell', z, d)
      BY <1>3, <1>9, <1>14, <2>4, <3>3, <3>4, <3>5 DEF WriteKnows
    <3> QED
      BY <2>4, <3>3, <3>6, WriteGoesOn DEF WriteAt, i, j
  <2> QED
    BY <2>2, <2>3, <2>4
<1> QED
  BY <1>2, <1>12, <1>13, <1>14 DEF Call, Phase
------------------------------------------------------------------------------
(* Other clients. *)

LEMMA ReachGood ==
  ASSUME NEW s \in Nat, NEW B \in SUBSET Block, NEW n \in Nat, NEW b \in Reach(s, n, B)
  PROVE  b \in Block \ B
  BY ReachIs, FirstPlace, SecondPlace

(* The block a write has in hand is one its call reaches, as long as it is *)
(* good.                                                                   *)
LEMMA HandReached ==
  ASSUME FlashInv, NamedInv, NEW d \in Client, pc[d] \in WriteAt, call[d].ebnum \notin bad
  PROVE  call[d].ebnum \in BlocksOf(d)
<1> DEFINE k == call[d]
           e == k.ebnum
           s == start[d]
<1>1. /\ e \in Block /\ k.n \in Nat /\ k.n > 0 /\ s \in Nat /\ bad \in SUBSET Block
      /\ k.phase = "second" => AtSecond(s, k.n, e, k.boff, bad)
      /\ k.phase # "second" => AtFirst(s, e, pos[d], k.boff, bad)
  <2>1. e \in Block /\ k.n \in Nat /\ k.count \in 1 .. k.n /\ bad \in SUBSET Block
    BY Locals DEF Knows, Call
  <2> QED
    BY <2>1 DEF NamedInv, Named
<1>2. CASE k.phase = "second"
  <2>1. PICK f \in Block, p \in Nat :
          /\ AtFirst(s, f, p, k.boff, bad)
          /\ k.n > EraseSize - k.boff
          /\ f < e
          /\ \A x \in f + 1 .. e - 1 : x \in bad
    BY <1>1, <1>2 DEF AtSecond
  <2>2. e \in Reach(s, k.n, bad)
    BY <1>1, <2>1, ReachSecond DEF AtFirst
  <2> QED
    BY <2>2, BlocksNext
<1>3. CASE k.phase # "second"
  <2>1. BlockOf(s) <= e /\ \A x \in BlockOf(s) .. e - 1 : x \in bad
    BY <1>1, <1>3 DEF AtFirst
  <2>2. e \in GoodFrom(s, bad)
    BY <1>1, <2>1, DivBounds, GeometryAssumption DEF GoodFrom, Block
  <2>3. Found(s, bad) /\ FirstGood(s, bad) = e
    BY <1>1, <2>1, <2>2, FirstGoodIs
  <2> QED
    BY <1>1, <2>3, ReachFirst, BlocksNext
<1> QED
  BY <1>2, <1>3

(* A step of another client that does not disturb c's call leaves its      *)
(* blocks alone.                                                           *)
LEMMA OthersLeave ==
  ASSUME FlashInv, NamedInv, NEW c \in Client, NEW d \in Client \ {c}, Step(d) \/ Ask(d),
         pc[c] # "idle", start[c] \in Nat, ~ Disturbs(d, c)
  PROVE  \A b \in Reach(start[c], call[c].n, bad) : Old(b, cell', cell)
<1>1. CASE cell' = cell
  BY <1>1 DEF Old
<1>2. ASSUME NEW f, pc[d] \in WriteAt, cell' = WithBlock(call[d].ebnum, f)
      PROVE  \A b \in Reach(start[c], call[c].n, bad) : Old(b, cell', cell)
  <2> SUFFICES ASSUME NEW b \in Reach(start[c], call[c].n, bad)
               PROVE  Old(b, cell', cell)
    OBVIOUS
  <2>1. b \in Block \ bad /\ b \in BlocksOf(c)
    BY Locals, ReachGood, BlocksNext DEF Call
  <2>2. b # call[d].ebnum
    BY <1>2, <2>1, HandReached DEF Disturbs
  <2>3. call[d].ebnum \in Block
    BY <1>2, Locals DEF Knows
  <2>4. ASSUME NEW i \in InBlock
        PROVE  cell'[StartOf(b) + i] = cell[StartOf(b) + i]
    <3>1. StartOf(b) + i \in Addr /\ StartOf(b) + i \notin CellsOf(call[d].ebnum)
      BY <2>1, <2>2, <2>3, Place
    <3> QED
      BY <1>2, <3>1 DEF WithBlock
  <2> QED
    BY <2>4 DEF Old
<1>3. CASE Erase(d)
  BY <1>1, <1>2, <1>3 DEF Erase, WriteAt
<1>4. CASE Program(d)
  BY <1>2, <1>4 DEF Program, WriteAt
<1>5. CASE ~ Erase(d) /\ ~ Program(d)
  <2>1. Step(d) => cell' = cell
    BY <1>5 DEF Step, ReadAlloc, ReadFlash, CopyOut, WriteAlloc, Load, CopyIn
  <2>2. Ask(d) => cell' = cell
    BY DEF Ask, Resume, Lseek, IoctlRead, ReadCall, IoctlWrite, WriteCall,
       BeginRead, BeginWrite
  <2> QED
    BY <1>1, <2>1, <2>2
<1> QED
  BY <1>3, <1>4, <1>5

(* A call that nothing spoils was quiet, and stays so. *)
LEMMA QuietNext ==
  ASSUME HNext, NEW c \in Client, Quiet(c)'
  PROVE  /\ \A d \in Client : ~ Disturbs(d, c)'
         /\ pc[c] # "idle" =>
              /\ Quiet(c) /\ mtdFaults' = mtdFaults /\ bad' = bad
              /\ start'[c] = start[c] /\ was'[c] = was[c]
         /\ pc[c] = "idle" =>
              /\ start'[c] = IF call'[c].off \in 0 .. Size THEN call'[c].off ELSE pos[c]
              /\ was'[c] = cell'
<1>1. pc'[c] # "idle" /\ c \notin spoiled'
  BY DEF Quiet
<1> QED
  BY <1>1 DEF HNext, Begins, Quiet

LEMMA BeginsAt ==
  ASSUME FlashInv, NEW c \in Client, NEW off \in Int, NEW p \in Nat, NEW n \in Lens,
         BeginRead(c, off, p, n) \/ BeginWrite(c, off, p, n)
  PROVE  call'[c].off = off /\ pc[c] = "idle" /\ bad' = bad /\ cell' = cell
<1>0. n \in Nat
  <2>1. MaxLen \in Nat /\ n \in 0 .. MaxLen
    BY FlashAssumption, BeyondSize DEF MaxLen
  <2> QED
    BY <2>1
<1>1. /\ pc[c] = "idle" /\ bad' = bad /\ cell' = cell
  BY DEF BeginRead, BeginWrite, Begin
<1>2. ASSUME NEW k, NEW q, NEW r, Return(c, k, q, r)
      PROVE  call'[c] = [k EXCEPT !.ret = r]
  BY <1>2 DEF Return, FlashInv, TypeOK
<1>3. ASSUME NEW k, NEW q, NEW w, GoOn(c, k, q, w)
      PROVE  call'[c] = k
  BY <1>3, MovesOn
<1>4. CASE BeginRead(c, off, p, n)
  <2> DEFINE k == NewCall("read", off, n)
             l == [k EXCEPT !.count = ReadCount(Landing(p, bad), n)]
             j == AtBlock(l, p)
  <2>1. k \in Call /\ k.off = off
    BY <1>0, NewCallTyped DEF NewCall
  <2>2. j.off = off
    <3> HIDE DEF k
    <3>1. l.off = off
      BY <2>1 DEF Call
    <3>2. j.off = l.off
      BY <2>1 DEF AtBlock, Call
    <3> QED
      BY <3>1, <3>2
  <2>3. (\E q, r : Return(c, k, q, r)) \/ (\E q, w : GoOn(c, j, q, w))
    BY <1>4 DEF BeginRead
  <2> HIDE DEF k, j
  <2>4. ASSUME NEW q, NEW r, Return(c, k, q, r) PROVE call'[c].off = off
    <3>1. call'[c] = [k EXCEPT !.ret = r]
      BY <1>2, <2>4
    <3> QED
      BY <2>1, <3>1 DEF Call
  <2>5. ASSUME NEW q, NEW w, GoOn(c, j, q, w) PROVE call'[c].off = off
    BY <1>3, <2>2, <2>5
  <2> QED
    BY <1>1, <2>3, <2>4, <2>5
<1>5. CASE BeginWrite(c, off, p, n)
  <2> DEFINE k == NewCall("write", off, n)
             l == [k EXCEPT !.count = WriteCount(p, n), !.boff = OffsetIn(Landing(p, bad))]
             j == AtBlock(l, p)
  <2>1. k \in Call /\ k.off = off
    BY <1>0, NewCallTyped DEF NewCall
  <2>2. j.off = off
    <3> HIDE DEF k
    <3>1. l.off = off
      BY <2>1 DEF Call
    <3>2. j.off = l.off
      BY <2>1 DEF AtBlock, Call
    <3> QED
      BY <3>1, <3>2
  <2>3. (\E q, r : Return(c, k, q, r)) \/ (\E q, w : GoOn(c, j, q, w))
    BY <1>5 DEF BeginWrite
  <2> HIDE DEF k, j
  <2>4. ASSUME NEW q, NEW r, Return(c, k, q, r) PROVE call'[c].off = off
    <3>1. call'[c] = [k EXCEPT !.ret = r]
      BY <1>2, <2>4
    <3> QED
      BY <2>1, <3>1 DEF Call
  <2>5. ASSUME NEW q, NEW w, GoOn(c, j, q, w) PROVE call'[c].off = off
    BY <1>3, <2>2, <2>5
  <2> QED
    BY <1>1, <2>3, <2>4, <2>5
<1> QED
  BY <1>4, <1>5

(* What c's own steps do. *)
LEMMA StepSays ==
  ASSUME FlashInv, NEW c \in Client, Step(c), mtdFaults' = mtdFaults,
         NEW s \in Nat, NEW z, SaysNow(c, s, z)
  PROVE  SaysNext(c, s, z)
  BY ReadAllocSays, ReadFlashSays, CopyOutSays, WriteAllocSays, LoadSays, CopyInSays,
     EraseSays, ProgramSays DEF Step

LEMMA AskSays ==
  ASSUME FlashInv, HNext, NEW c \in Client, Ask(c), Quiet(c)'
  PROVE  /\ start'[c] \in Nat /\ bad' = bad
         /\ SaysNext(c, start'[c], was'[c])
<1>1. pos[c] \in Nat /\ pc'[c] # "idle" /\ ~ Resume(c) /\ ~ Lseek(c)
  <2>1. pos[c] \in Nat /\ pc'[c] # "idle"
    BY Locals DEF Quiet
  <2>2. Resume(c) => pc'[c] = "idle"
    BY DEF Resume, Goto, FlashInv, TypeOK
  <2>3. Lseek(c) => pc'[c] = "idle"
    BY DEF Lseek
  <2> QED
    BY <2>1, <2>2, <2>3
<1>2. ASSUME NEW off \in Int, NEW p \in Nat, NEW n \in Lens,
             p = IF off \in 0 .. Size THEN off ELSE pos[c],
             BeginRead(c, off, p, n) \/ BeginWrite(c, off, p, n)
      PROVE  /\ start'[c] \in Nat /\ bad' = bad
             /\ SaysNext(c, start'[c], was'[c])
  <2>1. call'[c].off = off /\ pc[c] = "idle" /\ bad' = bad /\ cell' = cell
    BY <1>2, BeginsAt
  <2>2. start'[c] = p /\ was'[c] = cell
    BY <1>2, <2>1, QuietNext
  <2> QED
    BY <1>2, <2>1, <2>2, BeginReadSays, BeginWriteSays
<1>3. \A off : SeekTo(pos[c], off) = IF off \in 0 .. Size THEN off ELSE pos[c]
  BY DEF SeekTo
<1>4. \A off \in Offsets : off \in Int /\ SeekTo(pos[c], off) \in Nat
  BY <1>1, FlashAssumption, SeekTyped
<1>5. PICK n \in Lens : \/ IoctlRead(c, n) \/ ReadCall(c, n)
                        \/ IoctlWrite(c, n) \/ WriteCall(c, n)
  BY <1>1 DEF Ask
<1>6. CASE IoctlRead(c, n) \/ IoctlWrite(c, n)
  <2>1. PICK off \in Offsets : \/ BeginRead(c, off, SeekTo(pos[c], off), n)
                               \/ BeginWrite(c, off, SeekTo(pos[c], off), n)
    BY <1>6 DEF IoctlRead, IoctlWrite
  <2> QED
    BY <1>2, <1>3, <1>4, <2>1
<1>7. CASE ReadCall(c, n) \/ WriteCall(c, n)
  <2>1. BeginRead(c, pos[c], pos[c], n) \/ BeginWrite(c, pos[c], pos[c], n)
    BY <1>7 DEF ReadCall, WriteCall
  <2> QED
    BY <1>1, <1>2, <2>1
<1> QED
  BY <1>5, <1>6, <1>7

LEMMA TrackedStep ==
  FlashInv /\ NamedInv /\ TrackedInv /\ [HNext]_historyVars => TrackedInv'
<1> SUFFICES ASSUME FlashInv, NamedInv, TrackedInv, [HNext]_historyVars,
                    NEW c \in Client, Quiet(c)'
             PROVE  /\ start'[c] \in Nat
                    /\ \A d \in Client : ~ Disturbs(d, c)'
                    /\ Says(pc'[c], call'[c], pos'[c], start'[c], bad', cell', was'[c],
                            UserData[c])
  BY DEF TrackedInv, Tracked
<1>1. CASE UNCHANGED historyVars
  BY <1>1 DEF historyVars, TrackedInv, Tracked, Quiet, Disturbs, BlocksOf, Asks,
     Reachable, Target
<1>2. CASE HNext
  <2>1. \A d \in Client : ~ Disturbs(d, c)'
    BY <1>2, QuietNext
  <2>2. pc[c] # "idle" =>
          /\ mtdFaults' = mtdFaults /\ bad' = bad
          /\ start'[c] = start[c] /\ was'[c] = was[c]
          /\ start[c] \in Nat
          /\ \A d \in Client : ~ Disturbs(d, c)
          /\ SaysNow(c, start[c], was[c])
    BY <1>2, QuietNext DEF TrackedInv, Tracked, SaysNow
  <2>3. pc'[c] # "idle"
    BY DEF Quiet
  <2>4. CASE Ask(c)
    BY <1>2, <2>1, <2>4, AskSays DEF SaysNext
  <2>5. CASE Step(c)
    <3>1. pc[c] # "idle"
      BY <2>5 DEF Step, ReadAlloc, ReadFlash, CopyOut, WriteAlloc, Load, CopyIn,
         Erase, Program
    <3>2. SaysNext(c, start[c], was[c])
      BY <2>2, <2>5, <3>1, StepSays
    <3> QED
      BY <2>1, <2>2, <3>1, <3>2 DEF SaysNext
  <2>6. ASSUME NEW d \in Client \ {c}, Step(d) \/ Ask(d)
        PROVE  /\ start'[c] \in Nat
               /\ Says(pc'[c], call'[c], pos'[c], start'[c], bad', cell', was'[c],
                       UserData[c])
    <3>1. pc'[c] = pc[c] /\ call'[c] = call[c] /\ pos'[c] = pos[c]
      BY <1>2, <2>6, StepNamed, AskNamed DEF NamedInv, OthersStill
    <3>2. \A b \in Reach(start[c], call[c].n, bad) : Old(b, cell', cell)
      BY <2>2, <2>3, <2>6, <3>1, OthersLeave
    <3>3. Says(pc[c], call[c], pos[c], start[c], bad, cell', was[c], UserData[c])
      BY <2>2, <2>3, <3>1, <3>2, Locals, SaysStill DEF SaysNow
    <3> QED
      BY <2>2, <2>3, <3>1, <3>3
  <2>7. ASSUME NEW b \in Block, MarkBad(b) PROVE FALSE
    BY <2>2, <2>3, <2>7 DEF MarkBad
  <2>8. CASE PowerCut
    BY <2>3, <2>8 DEF PowerCut
  <2> QED
    BY <1>2, <2>1, <2>4, <2>5, <2>6, <2>7, <2>8 DEF HNext, Next
<1> QED
  BY <1>1, <1>2

LEMMA TrackedInit == HInit => TrackedInv
  BY DEF HInit, Init, TrackedInv, Tracked, Quiet

LEMMA TrackedInvariant == HSpec => [](FlashInv /\ TrackedInv)
<1>1. HInit => FlashInv /\ NamedInv /\ TrackedInv
  BY FlashInvInit, NamedInit, TrackedInit DEF HInit
<1>2. FlashInv /\ [HNext]_historyVars => FlashInv'
  BY FlashInvStep DEF HNext, historyVars, vars
<1> QED
  BY <1>1, <1>2, NamedStep, TrackedStep, PTL DEF HSpec

(* What Tracked says of a call that has returned unspoiled. *)
LEMMA CleanSays ==
  ASSUME FlashInv, TrackedInv, NEW c \in Client, NEW op, Clean(c, op)
  PROVE  /\ start[c] \in Nat /\ bad \in SUBSET Block /\ call[c] \in Call
         /\ call[c].op = op
         /\ op = "read" => ReadDone(call[c], pos[c], start[c], bad, cell)
         /\ op = "write" => WriteDone(call[c], start[c], bad, cell, was[c], UserData[c])
         /\ \A i : Target(start[c], i) = PlaceOf(start[c], i, bad)
         /\ Asks(c) = Asked(start[c], call[c].n, bad)
         /\ BlocksOf(c) = Reach(start[c], call[c].n, bad)
<1>1. \A i : Target(start[c], i) = PlaceOf(start[c], i, bad)
  BY DEF Target, PlaceOf, Rest, Turn
<1> QED
  BY <1>1, Locals, BlocksNext DEF TrackedInv, Tracked, Quiet, Clean, Says
------------------------------------------------------------------------------
(* A write that reports bytes written has put each byte of the client's    *)
(* data at its place, in the block asked for or the next good one and,     *)
(* across a block boundary, in the good block after it                     *)
(* (at91flash.c:303-517), for any partition, data, lengths, offsets and    *)
(* other clients.                                                          *)
THEOREM WritesLand == HSpec => []WriteLands
<1>1. FlashInv /\ TrackedInv => WriteLands
  <2> SUFFICES ASSUME FlashInv, TrackedInv, NEW c \in Client,
                      Clean(c, "write"), call[c].ret > 0, WithinHead(c),
                      NEW i \in Asks(c)
               PROVE  cell[Target(start[c], i)] = UserData[c][i]
    BY DEF WriteLands
  <2> DEFINE s == start[c]
             k == call[c]
  <2>1. Landing(s, bad) = 0 => k.n <= EraseSize
    BY DEF WithinHead, AtHead
  <2>2. /\ s \in Nat /\ bad \in SUBSET Block /\ k \in Call
        /\ WriteDone(k, s, bad, cell, was[c], UserData[c])
        /\ Target(s, i) = PlaceOf(s, i, bad) /\ i \in Asked(s, k.n, bad)
    BY CleanSays
  <2>3. cell[PlaceOf(s, i, bad)] = UserData[c][i]
    BY <2>1, <2>2, WriteDoneLands
  <2> QED
    BY <2>2, <2>3
<1> QED
  BY <1>1, TrackedInvariant, PTL

(* Whatever a write reports, a byte of the blocks it worked on that the    *)
(* client did not name is as it was, and one it did name is as it was or   *)
(* as the client gave it (at91flash.c:378-406).                            *)
THEOREM WritesPreserve == HSpec => []WritePreserves
<1>1. FlashInv /\ TrackedInv => WritePreserves
  <2> SUFFICES ASSUME FlashInv, TrackedInv, NEW c \in Client,
                      Clean(c, "write"), WholeHead(c),
                      NEW a \in Addr, BlockOf(a) \in BlocksOf(c)
               PROVE  \/ cell[a] = was[c][a]
                      \/ \E i \in Asks(c) :
                           a = Target(start[c], i) /\ cell[a] = UserData[c][i]
    BY DEF WritePreserves, Preserved
  <2>1. Landing(start[c], bad) = 0 => call[c].n >= EraseSize
    BY DEF WholeHead, AtHead
  <2>2. \/ cell[a] = was[c][a]
        \/ \E i \in Asked(start[c], call[c].n, bad) :
             a = PlaceOf(start[c], i, bad) /\ cell[a] = UserData[c][i]
    BY <2>1, CleanSays, WriteDonePreserves
  <2> QED
    BY <2>2, CleanSays
<1> QED
  BY <1>1, TrackedInvariant, PTL

(* The bytes a read delivers are those of the good blocks, in order, and   *)
(* one that reports no error has delivered all it could, with f_pos just   *)
(* behind the last of them (at91flash.c:140-301).                          *)
THEOREM ReadsDeliver == HSpec => []ReadDelivers
<1>1. FlashInv /\ TrackedInv => ReadDelivers
  <2> SUFFICES ASSUME FlashInv, TrackedInv, NEW c \in Client, Clean(c, "read")
               PROVE  LET k == call[c]
                          wants == { i \in Asks(c) : i < MaxKmalloc }
                      IN
                      /\ \A i \in InBlock :
                           k.out[i] # Untouched =>
                             i \in wants /\ k.out[i] = cell[Target(start[c], i)]
                      /\ k.ret > 0 =>
                           /\ \A i \in wants : k.out[i] = cell[Target(start[c], i)]
                           /\ \A i \in wants :
                                i + 1 \notin wants => pos[c] = Target(start[c], i) + 1
    BY DEF ReadDelivers
  <2> DEFINE k == call[c]
             s == start[c]
  <2>1. /\ s \in Nat /\ bad \in SUBSET Block /\ k \in Call
        /\ ReadDone(k, pos[c], s, bad, cell)
        /\ \A i : Target(s, i) = PlaceOf(s, i, bad)
        /\ Asks(c) = Asked(s, k.n, bad)
    BY CleanSays
  <2>2. Gave(k, pos[c], s, bad, cell)
    BY <2>1, ReadDoneDelivers
  <2> QED
    BY <2>1, <2>2 DEF Gave
<1> QED
  BY <1>1, TrackedInvariant, PTL
==============================================================================
