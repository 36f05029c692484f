------------------------------ MODULE FlashStore ------------------------------
(***************************************************************************)
(* What the flash driver makes of a NAND partition: a store of blocks that *)
(* its clients change a block at a time.  A client takes a copy of a       *)
(* block, puts one run of its own bytes into the copy, wipes the block and *)
(* puts the copy back.  A failure or the end of the power costs at most    *)
(* the blocks that are being wiped or put back.                            *)
(***************************************************************************)
EXTENDS Integers

CONSTANTS
  Client,    \* the processes that write
  Block,     \* the blocks
  InBlock,   \* the places in a block
  UserData,  \* the bytes each client has to write
  BadSets,   \* the sets of bad blocks considered
  FF, Junk   \* an erased byte, and one nothing is known of

VARIABLES
  disk,      \* what each block holds
  bad,       \* the blocks that have gone bad
  hand       \* the copy each client is working on

store == << disk, bad, hand >>

Nothing == [stage |-> "none"]
Copy(b, image, stage) == [stage |-> stage, block |-> b, image |-> image]

Erased == [i \in InBlock |-> FF]
Ruined == [i \in InBlock |-> Junk]

Init ==
  /\ disk \in [Block -> [InBlock -> Int]]
  /\ bad \in BadSets
  /\ hand = [c \in Client |-> Nothing]

Holds(c, stage) == hand[c].stage = stage
LetGo(c)        == hand' = [hand EXCEPT ![c] = Nothing]
Change(b, image) == disk' = [disk EXCEPT ![b] = image]

Take(c, b) ==
  /\ Holds(c, "none")
  /\ hand' = [hand EXCEPT ![c] = Copy(b, disk[b], "taken")]
  /\ UNCHANGED << disk, bad >>

(* The first block is rewritten without a look at what it holds. *)
TakeBlank(c) ==
  /\ Holds(c, "none")
  /\ hand' = [hand EXCEPT ![c] = Copy(0, Ruined, "taken")]
  /\ UNCHANGED << disk, bad >>

(* The copy with the client's bytes first, first + 1, ... in the places    *)
(* from at on, up to end.                                                  *)
With(image, data, at, end, first) ==
  [i \in InBlock |-> IF i \in at .. end THEN data[first + (i - at)] ELSE image[i]]

Edit(c) ==
  /\ Holds(c, "taken")
  /\ \E at, end \in InBlock, first \in DOMAIN UserData[c] :
       /\ at <= end /\ first + (end - at) \in DOMAIN UserData[c]
       /\ hand' = [hand EXCEPT ![c] =
           Copy(@.block, With(@.image, UserData[c], at, end, first), "edited")]
  /\ UNCHANGED << disk, bad >>

Wipe(c) ==
  /\ Holds(c, "edited")
  /\ hand[c].block \notin bad
  /\ Change(hand[c].block, Erased)
  /\ hand' = [hand EXCEPT ![c].stage = "wiped"]
  /\ UNCHANGED bad

FailToWipe(c) ==
  /\ Holds(c, "edited")
  /\ hand[c].block \notin bad
  /\ Change(hand[c].block, Ruined)
  /\ LetGo(c)
  /\ UNCHANGED bad

(* The first m bytes go back; a byte that is not erased when its turn      *)
(* comes, because another client has put its own copy back, is lost.       *)
Onto(old, image, m) ==
  [i \in InBlock |-> IF i < m /\ old[i] # image[i]
                     THEN IF old[i] = FF THEN image[i] ELSE Junk
                     ELSE old[i]]

PutBack(c) ==
  /\ Holds(c, "wiped")
  /\ \E m \in { 0 } \cup { i + 1 : i \in InBlock } :
       Change(hand[c].block, Onto(disk[hand[c].block], hand[c].image, m))
  /\ LetGo(c)
  /\ UNCHANGED bad

(* A client that fails gives up its copy, but never after the wipe. *)
Drop(c) ==
  /\ Holds(c, "taken") \/ Holds(c, "edited")
  /\ LetGo(c)
  /\ UNCHANGED << disk, bad >>

Wear(b) ==
  /\ b \notin bad
  /\ bad' = bad \cup {b}
  /\ UNCHANGED << disk, hand >>

PowerCut ==
  LET busy == { hand[c].block : c \in { d \in Client : Holds(d, "edited") \/ Holds(d, "wiped") } }
  IN
  /\ \E hit \in SUBSET busy :
       disk' = [b \in Block |-> IF b \in hit THEN Ruined ELSE disk[b]]
  /\ hand' = [c \in Client |-> Nothing]
  /\ UNCHANGED bad

Next ==
  \/ \E c \in Client :
       \/ \E b \in Block : Take(c, b)
       \/ TakeBlank(c) \/ Edit(c)
       \/ Wipe(c) \/ FailToWipe(c) \/ PutBack(c) \/ Drop(c)
  \/ \E b \in Block : Wear(b)
  \/ PowerCut

Spec == Init /\ [][Next]_store
===============================================================================
