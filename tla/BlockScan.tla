------------------------------ MODULE BlockScan ------------------------------
(***************************************************************************)
(* The "find a good block" loop of at91flash_read and at91flash_write, one *)
(* iteration per step.  The loop runs four times in the source (first and  *)
(* second block, read and write) with the same body.                       *)
(***************************************************************************)
EXTENDS FlashGeometry

CONSTANT MaxPos   \* bound on the position the search starts from
ASSUME MaxPosAssumption == MaxPos \in Nat

VARIABLES
  bad,      \* what mtd->block_isbad answers, fixed while the loop runs
  start,    \* history: *ppos when the loop was entered
  ppos,     \* *ppos
  ebnum,    \* the block under test
  outcome   \* "run", or how the loop was left

vars == << bad, start, ppos, ebnum, outcome >>

Init ==
  /\ bad \in SUBSET Block
  /\ start \in 0 .. MaxPos
  /\ ppos = start
  /\ ebnum = 0
  /\ outcome = "run"

(* if (ebnum >= ebcnt) return -EFAULT; *)
BeyondDevice ==
  /\ outcome = "run"
  /\ BlockOf(ppos) >= EbCnt
  /\ ebnum' = BlockOf(ppos)
  /\ outcome' = "beyond"
  /\ UNCHANGED << bad, start, ppos >>

(* *ppos = (ebnum + 1) * mtd->erasesize, after two faults seeded for the   *)
(* mutants: the block itself again, and one block too many.                *)
SameStart(b) == StartOf(b)
StartAfterNext(b) == StartOf(b + 2)
NextStart(b) == StartOf(b + 1)

(* The block is bad: on to the start of the next one, if there is one. *)
SkipBad ==
  /\ outcome = "run"
  /\ BlockOf(ppos) \in bad
  /\ ebnum' = BlockOf(ppos)
  /\ ppos' = NextStart(ebnum')
  /\ outcome' = IF ppos' >= Size THEN "eof" ELSE "run"
  /\ UNCHANGED << bad, start >>

(* The block is good: leave the loop with *ppos as it is. *)
StopAtGood ==
  /\ outcome = "run"
  /\ BlockOf(ppos) < EbCnt
  /\ BlockOf(ppos) \notin bad
  /\ ebnum' = BlockOf(ppos)
  /\ outcome' = "found"
  /\ UNCHANGED << bad, start, ppos >>

Next == BeyondDevice \/ SkipBad \/ StopAtGood
Spec == Init /\ [][Next]_vars
FairSpec == Spec /\ WF_vars(Next)
------------------------------------------------------------------------------
TypeOK ==
  /\ bad \in SUBSET Block
  /\ start \in Nat
  /\ ppos \in Nat
  /\ ebnum \in Nat
  /\ outcome \in { "run", "found", "beyond", "eof" }

(* The loop implements the closed form the handlers are modelled with: it  *)
(* stops at the least good block at or after the start (at91flash.c:152),  *)
(* never skipping a good block, and moves *ppos only over bad ones.        *)
ScanCorrect ==
  outcome # "run" =>
    /\ ppos = Landing(start, bad)
    /\ (outcome = "found") <=> Found(start, bad)
    /\ (outcome = "found") => (ebnum = FirstGood(start, bad))
    /\ (outcome = "beyond") <=> (BlockOf(start) >= EbCnt)

(* while(1) always ends: every iteration moves on by a block. *)
ScanTerminates == <>(outcome # "run")

(* Strengthening for the proof: every block passed so far was bad, and     *)
(* *ppos has moved only to the start of a block.                           *)
Passed ==
  /\ start <= ppos
  /\ BlockOf(start) <= BlockOf(ppos)
  /\ \A b \in BlockOf(start) .. BlockOf(ppos) - 1 : b \in bad
  /\ ppos # start => (ppos = StartOf(BlockOf(ppos)) /\ BlockOf(start) < BlockOf(ppos))
ScanInv ==
  /\ TypeOK
  /\ Passed
  /\ (outcome = "run" /\ ppos # start) => BlockOf(ppos) < EbCnt
  /\ outcome = "found" => /\ ebnum = BlockOf(ppos)
                          /\ ebnum \in Block \ bad
  /\ outcome = "eof" => (ppos = Size /\ BlockOf(start) < EbCnt)
  /\ outcome = "beyond" => (ppos = start /\ BlockOf(start) >= EbCnt)
==============================================================================
