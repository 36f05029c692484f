------------------------------ MODULE FlashCalls ------------------------------
(***************************************************************************)
(* What a client of /dev/at91flash gets from a call: At91Flash with two    *)
(* history variables, and the properties stated over whole calls.          *)
(***************************************************************************)
EXTENDS At91Flash

VARIABLES
  was,      \* history: the partition when each client's call began
  start,    \* history: the position each client's call is about
  named,    \* history: the blocks each client's call may be about
  spoiled   \* history: the clients whose call met a flash failure, a block
            \* going bad, or another client's call on the same blocks

historyVars == << cell, bad, bbt, heap, pos, pc, call, calls, mtdFaults,
                  memFaults, was, start, named, spoiled >>

(* The address of byte i of a transfer that asks for position p: bad       *)
(* blocks are left out, before the first byte and between two blocks.      *)
Target(p, i) ==
  LET land == Landing(p, bad)
      rest == EraseSize - OffsetIn(land)
  IN  IF i < rest THEN land + i
      ELSE Landing(land + rest, bad) + (i - rest)

(* How far the transfer can go: to the end of its second block, and of the *)
(* partition.                                                              *)
Reachable(p, i) ==
  /\ Found(p, bad)
  /\ i < 2 * EraseSize - OffsetIn(Landing(p, bad))
  /\ Target(p, i) < Size

(* The bytes of c's call that have a place on the partition. *)
Asks(c)     == { i \in 0 .. call[c].n - 1 : Reachable(start[c], i) }
BlocksOf(c) == { BlockOf(Target(start[c], i)) : i \in Asks(c) }

(* d is writing to a block that c's call is about. *)
Disturbs(d, c) ==
  /\ d # c
  /\ pc[d] \in WriteAt
  /\ pc[c] # "idle"
  /\ BlocksOf(c) \cap BlocksOf(d) # {}

HInit ==
  /\ Init
  /\ was = [c \in Client |-> cell]
  /\ start = [c \in Client |-> 0]
  /\ named = [c \in Client |-> {}]
  /\ spoiled = {}

(* A call is about the offset it asks for or, when lseek refused that, the *)
(* position of the file.                                                   *)
Begins(c) == pc[c] = "idle" /\ pc'[c] # "idle"

HNext ==
  /\ Next
  /\ was' = [c \in Client |-> IF Begins(c) \/ pc'[c] = "idle" THEN cell' ELSE was[c]]
  /\ start' = [c \in Client |->
       CASE Begins(c) -> IF call'[c].off \in 0 .. Size THEN call'[c].off ELSE pos[c]
         [] pc'[c] = "idle" -> 0
         [] OTHER -> start[c]]
  /\ named' = [c \in Client |->
       CASE Begins(c) -> BlocksOf(c)'
         [] pc'[c] = "idle" -> {}
         [] OTHER -> named[c] \cup BlocksOf(c)']
  /\ spoiled' =
       { c \in Client :
           /\ pc'[c] # "idle"
           /\ \/ pc[c] # "idle" /\ (c \in spoiled \/ mtdFaults' # mtdFaults \/ bad' # bad)
              \/ \E d \in Client : Disturbs(d, c)' }

HSpec == HInit /\ [][HNext]_historyVars
------------------------------------------------------------------------------
(* The calls that have returned and that nothing has spoiled. *)
Clean(c, op) == pc[c] = "done" /\ c \notin spoiled /\ call[c].op = op

(* A client that overwrites the block at address 0 gives no more than the  *)
(* block, or no less: "the length written must be a multiple of erasesize" *)
(* (flash_demo.c:33).                                                      *)
AtHead(c)    == Landing(start[c], bad) = 0
WithinHead(c) == AtHead(c) => call[c].n <= EraseSize
WholeHead(c) == AtHead(c) => call[c].n >= EraseSize

(* A write that reports bytes written has put each byte of the client's    *)
(* data at its place: in the block asked for or the next good one, and     *)
(* across a block boundary in the good block after it; at address 0, if    *)
(* they fit the block, for there nothing tests whether they do             *)
(* (at91flash.c:303-517).                                                  *)
WriteLands ==
  \A c \in Client :
    Clean(c, "write") /\ call[c].ret > 0 /\ WithinHead(c) =>
      \A i \in Asks(c) : cell[Target(start[c], i)] = UserData[c][i]

Preserved(c) ==
  \A a \in { b \in Addr : BlockOf(b) \in BlocksOf(c) } :
    \/ cell[a] = was[c][a]
    \/ \E i \in Asks(c) : a = Target(start[c], i) /\ cell[a] = UserData[c][i]

(* Read-modify-write keeps the rest: whatever a write reports, a byte of   *)
(* the blocks it worked on that the client did not name is as it was, and  *)
(* a byte it did name is as it was or as the client gave it.  It holds of  *)
(* clients that give the whole block when they write at address 0          *)
(* (at91flash.c:378-406).                                                  *)
WritePreserves ==
  \A c \in Client : Clean(c, "write") /\ WholeHead(c) => Preserved(c)

(* The bytes a read delivers are those of the good blocks, in order, and   *)
(* when it reports no error it has delivered all it could, with f_pos just *)
(* behind the last of them (at91flash.c:140-301).                          *)
ReadDelivers ==
  \A c \in Client :
    LET k    == call[c]
        wants == { i \in Asks(c) : i < MaxKmalloc }
    IN
    Clean(c, "read") =>
      /\ \A i \in InBlock :
           k.out[i] # Untouched => i \in wants /\ k.out[i] = cell[Target(start[c], i)]
      /\ k.ret > 0 =>
           /\ \A i \in wants : k.out[i] = cell[Target(start[c], i)]
           /\ \A i \in wants : i + 1 \notin wants => pos[c] = Target(start[c], i) + 1

(* Whatever fails, and whenever the power does, the flash changes only in  *)
(* the blocks that a client's current call has named: those its offset and *)
(* length reach, given the blocks that are bad (at91flash.c:418-517).      *)
Confined ==
  [][ \A a \in Addr :
        cell'[a] # cell[a] =>
          \E c \in Client : BlockOf(a) \in named[c] ]_historyVars
------------------------------------------------------------------------------
(* What the sources say of the device and the code does not do. *)

(* A write reads "the original data,the hole block" first                  *)
(* (at91flash.c:380), so that it keeps the rest of the block wherever it   *)
(* starts: hwtest writes 100 bytes at offset 0.  The path for address 0    *)
(* skips the read (at91flash.c:369) and programs what kmalloc returned.    *)
RestKept ==
  \A c \in Client :
    Clean(c, "write") => Preserved(c)

(* The offsets of flash_demo run to 120MB (flash_demo.c:122), those of the *)
(* partition to 8MB (flash_demo.c:190): a call is to move bytes at the     *)
(* offset it is given or not at all.  The ioctl ignores that lseek refused *)
(* the offset and moves them at the old position.                          *)
OffsetHonoured ==
  \A c \in Client :
    (pc[c] = "done" /\ call[c].off > Size) => call[c].ret <= 0
==============================================================================
