------------------------------ MODULE At91Flash ------------------------------
(***************************************************************************)
(* The character device /dev/at91flash (flash/at91flash.c): read, write,   *)
(* lseek and ioctl on a raw NAND partition, called by several clients,     *)
(* each with its own open file.                                            *)
(*                                                                         *)
(* The kernel is not preemptive and has one CPU, so a handler gives way    *)
(* only where it may sleep: in kmalloc, in mtd->read, mtd->erase and       *)
(* mtd->write, and in copy_to_user and copy_from_user.  One action is the  *)
(* code from one such call to the next.  The search for a good block does  *)
(* not sleep; module BlockScan shows that it computes Landing.             *)
(*                                                                         *)
(* The mtd layer, the allocator and the user copies are external: what     *)
(* they may answer is what the driver tests for.                           *)
(***************************************************************************)
EXTENDS FlashGeometry

CONSTANTS
  Client,       \* the processes that have the device open
  UserData,     \* the bytes each of them writes
  Lens,         \* the lengths they ask for
  Offsets,      \* the offsets they ask for
  MaxKmalloc,   \* MAX_KMALLOC_SIZE, the most a read transfers at once
  MaxCalls,     \* bound on the calls made
  MaxMtdFaults, \* bound on the failures of the mtd layer
  MaxMemFaults, \* bound on the failures of kmalloc and the user copies
  BadSets,      \* the sets of bad blocks considered
  Writers,      \* the clients that write; all of them read
  Seekers       \* the clients that call lseek, read and write; all use the ioctl

FF        == -1    \* an erased byte
Junk      == -2    \* a byte nothing is known of
Untouched == -3    \* a byte of a user's buffer the driver has not filled
Byte      == Int

EFAULT == -14
ENOMEM == -12

InBlock == 0 .. EraseSize - 1
MaxLen  == Size + 1

ASSUME FlashAssumption ==
  /\ UserData \in [Client -> [0 .. MaxLen - 1 -> Byte]]
  /\ Lens \subseteq 0 .. MaxLen
  /\ Offsets \subseteq Int
  /\ MaxKmalloc \in 1 .. EraseSize
  /\ { MaxCalls, MaxMtdFaults, MaxMemFaults } \subseteq Nat
  /\ BadSets \subseteq SUBSET Block
  /\ Writers \subseteq Client
  /\ Seekers \subseteq Client

VARIABLES
  cell,       \* the bytes of the partition
  bad,        \* the blocks mtd->block_isbad reports
  bbt,        \* the driver's bad block table: the blocks with bbt[b] = 1
  heap,       \* the clients whose call owns a kmalloc'ed buffer
  pos,        \* file->f_pos of each client's open file
  pc,         \* where each client's call is
  call,       \* the locals of each client's call
  calls,      \* the number of calls made
  mtdFaults,  \* the number of failures of the mtd layer
  memFaults   \* the number of failures of kmalloc and the user copies

env  == << bad, calls, mtdFaults, memFaults >>
vars == << cell, bad, bbt, heap, pos, pc, call, calls, mtdFaults, memFaults >>

(* Where a call can be: about to make the named call that may sleep. *)
ReadAt  == { "r_alloc", "r_read", "r_copy" }
WriteAt == { "w_alloc", "w_load", "w_fill", "w_erase", "w_prog" }
At      == { "idle", "done" } \cup ReadAt \cup WriteAt

(* Which piece of the transfer is under way: the only one, the first or    *)
(* the second of two, or the write at address 0 that loads nothing.        *)
Phase == { "whole", "first", "second", "head" }

Call == [ op    : { "read", "write" },
          off   : Int,              \* the position asked for
          n     : Nat,              \* the length asked for
          count : Int,              \* count
          ebnum : Nat,              \* ebnum
          boff  : Nat,              \* blockoffset
          phase : Phase,
          done  : Int,              \* bytes moved in the first piece
          len   : Nat,              \* readlen
          buf   : [InBlock -> Byte],   \* readbuf or kbuf
          out   : [InBlock -> Byte],   \* the user's buffer, for a read
          ret   : Int ]             \* the value the handler returns

NewCall(op, off, n) ==
  [ op |-> op, off |-> off, n |-> n, count |-> 0, ebnum |-> 0, boff |-> 0,
    phase |-> "whole", done |-> 0, len |-> 0,
    buf |-> [i \in InBlock |-> Junk], out |-> [i \in InBlock |-> Untouched],
    ret |-> 0 ]

Init ==
  /\ cell = [a \in Addr |-> a]
  /\ bad \in BadSets
  /\ bbt = bad
  /\ heap = {}
  /\ pos = [c \in Client |-> 0]
  /\ pc = [c \in Client |-> "idle"]
  /\ call = [c \in Client |-> NewCall("read", 0, 0)]
  /\ calls = 0
  /\ mtdFaults = 0
  /\ memFaults = 0
------------------------------------------------------------------------------
(* What every step of a call shares. *)

Least(S) == CHOOSE x \in S : \A y \in S : x <= y

Goto(c, where) == pc' = [pc EXCEPT ![c] = where]
MoveTo(c, p)   == pos' = [pos EXCEPT ![c] = p]

(* return r, with *ppos left at p; the caller sees k, the last locals. *)
Return(c, k, p, r) ==
  /\ Goto(c, "done")
  /\ MoveTo(c, p)
  /\ call' = [call EXCEPT ![c] = [k EXCEPT !.ret = r]]

(* Seeded fault: a return that forgets kfree. *)
ReturnUnfreed(c, k, p, r) == Return(c, k, p, r) /\ UNCHANGED heap

(* kfree, and return. *)
FreeReturn(c, k, p, r) ==
  /\ heap' = heap \ {c}
  /\ Return(c, [k EXCEPT !.buf = [i \in InBlock |-> Junk]], p, r)

(* Go on to the next call that may sleep. *)
GoOn(c, k, p, where) ==
  /\ Goto(c, where)
  /\ MoveTo(c, p)
  /\ call' = [call EXCEPT ![c] = k]

MemFault == /\ memFaults < MaxMemFaults
            /\ memFaults' = memFaults + 1
            /\ UNCHANGED << bad, calls, mtdFaults >>
MtdFault == /\ mtdFaults < MaxMtdFaults
            /\ mtdFaults' = mtdFaults + 1
            /\ UNCHANGED << bad, calls, memFaults >>
NoFault  == UNCHANGED env

(* bbt after a search from p. *)
Rescanned(p) == (bbt \ Scanned(p, bad)) \cup (Scanned(p, bad) \cap bad)

(* Seeded fault: the block number one too high after the search. *)
AtBlockAfter(k, p) == [k EXCEPT !.ebnum = Least({ FirstGood(p, bad) + 1, EbCnt - 1 })]

(* The locals once the search from p has found a block. *)
AtBlock(k, p) == [k EXCEPT !.ebnum = FirstGood(p, bad)]

(* at91flash_lseek: the new f_pos; an offset beyond the device is refused  *)
(* and leaves f_pos alone.                                                 *)
SeekTo(p, offset) == IF offset \in 0 .. Size THEN offset ELSE p

(* The system call llseek; whence is where the offset counts from. *)
Lseek(c) ==
  /\ pc[c] = "idle"
  /\ \E offset \in Offsets, whence \in { 0, pos[c], Size } :
       MoveTo(c, SeekTo(pos[c], whence + offset))
  /\ NoFault
  /\ UNCHANGED << cell, bbt, heap, pc, call >>

Begin(c) ==
  /\ pc[c] = "idle"
  /\ calls < MaxCalls
  /\ calls' = calls + 1
  /\ UNCHANGED << bad, mtdFaults, memFaults >>

(* The user's process goes on: the call is over. *)
Resume(c) ==
  /\ pc[c] = "done"
  /\ Goto(c, "idle")
  /\ call' = [call EXCEPT ![c] = NewCall("read", 0, 0)]
  /\ NoFault
  /\ UNCHANGED << cell, bbt, heap, pos >>
------------------------------------------------------------------------------
(* at91flash_read *)

(* Seeded fault: a count not clamped to the end of the partition. *)
ReadCountPastEnd(p, n) == Least({ n, MaxKmalloc })

(* The clamps on count, for a read that starts at p. *)
ReadCount(p, n) == Least({ n, Size - p, MaxKmalloc })

(* Up to the kmalloc of readbuf. *)
BeginRead(c, off, p, n) ==
  LET land == Landing(p, bad)
      k    == NewCall("read", off, n)
  IN
  /\ Begin(c)
  /\ bbt' = Rescanned(p)
  /\ \/ /\ ~ Found(p, bad)
        /\ Return(c, k, land, EFAULT)
     \/ /\ Found(p, bad)
        /\ ReadCount(land, n) = 0
        /\ Return(c, k, land, 0)
     \/ /\ Found(p, bad)
        /\ ReadCount(land, n) > 0
        /\ GoOn(c, AtBlock([k EXCEPT !.count = ReadCount(land, n)], p),
                land, "r_alloc")
  /\ UNCHANGED << cell, heap >>

(* Seeded fault: no test for a read that crosses into a second block. *)
ReadPhaseWhole(k, p) == "whole"

(* kmalloc(count), then the test for a read that crosses into a second     *)
(* block.                                                                  *)
ReadPhase(k, p) ==
  IF p + k.count > StartOf(k.ebnum + 1) THEN "first" ELSE "whole"

ReadAlloc(c) ==
  LET k == call[c] IN
  /\ pc[c] = "r_alloc"
  /\ \/ /\ heap' = heap \cup {c}
        /\ GoOn(c, [k EXCEPT !.phase = ReadPhase(k, pos[c])], pos[c], "r_read")
        /\ NoFault
     \/ /\ Return(c, k, pos[c], ENOMEM)
        /\ MemFault
        /\ UNCHANGED heap
  /\ UNCHANGED << cell, bbt >>

(* The length handed to mtd->read, cut off at the end of the partition as  *)
(* the mtd layer does.                                                     *)
ReadLen(k, p) ==
  LET asked == CASE k.phase = "first"  -> StartOf(k.ebnum + 1) - p
                 [] k.phase = "second" -> k.count - k.done
                 [] OTHER              -> k.count
  IN  Least({ asked, Size - p })

(* After a piece of len bytes: the first is followed by a search for the   *)
(* block of the second, anything else by the return of readlen alone.      *)
AfterPiece(c, k, p) ==
  \/ /\ k.phase # "first"
     /\ FreeReturn(c, k, p, k.len)
     /\ UNCHANGED bbt
  \/ /\ k.phase = "first"
     /\ Found(p, bad)
     /\ GoOn(c, AtBlock([k EXCEPT !.phase = "second", !.done = k.len], p),
             Landing(p, bad), "r_read")
     /\ bbt' = Rescanned(p)
     /\ UNCHANGED heap
  \/ /\ k.phase = "first"
     /\ ~ Found(p, bad)
     /\ FreeReturn(c, k, Landing(p, bad),
                   IF BlockOf(p) >= EbCnt THEN k.len ELSE EFAULT)
     /\ bbt' = Rescanned(p)

(* The locals with m bytes from p in readbuf, correct ones or not. *)
Got(k, p, m, good) ==
  [k EXCEPT !.len = m,
            !.buf = [i \in InBlock |->
                       IF i \in 0 .. m - 1
                       THEN IF good THEN cell[p + i] ELSE Junk
                       ELSE k.buf[i]]]

(* if (readlen != 0): the bytes are copied out. *)
Delivered(c, m, good) ==
  \/ /\ m > 0
     /\ GoOn(c, Got(call[c], pos[c], m, good), pos[c] + m, "r_copy")
     /\ UNCHANGED << heap, bbt >>
  \/ /\ m = 0
     /\ AfterPiece(c, Got(call[c], pos[c], m, good), pos[c])

(* mtd->read into readbuf.  A failed read delivers fewer bytes, or bytes   *)
(* with errors ECC could not correct; the handler only prints a message.   *)
ReadFlash(c) ==
  LET full == ReadLen(call[c], pos[c]) IN
  /\ pc[c] = "r_read"
  /\ \/ Delivered(c, full, TRUE) /\ NoFault
     \/ Delivered(c, full, FALSE) /\ MtdFault
     \/ (\E m \in 0 .. full - 1 : Delivered(c, m, TRUE)) /\ MtdFault
  /\ UNCHANGED cell

(* copy_to_user of the piece, behind what the first piece delivered. *)
CopyOut(c) ==
  LET k == call[c]
      copied ==
        [k EXCEPT !.out = [i \in InBlock |->
                             IF i \in k.done .. k.done + k.len - 1
                             THEN k.buf[i - k.done] ELSE k.out[i]]]
  IN
  /\ pc[c] = "r_copy"
  /\ \/ AfterPiece(c, copied, pos[c]) /\ NoFault
     \/ FreeReturn(c, k, pos[c], EFAULT) /\ MemFault /\ UNCHANGED bbt
  /\ UNCHANGED cell
------------------------------------------------------------------------------
(* at91flash_write *)

(* The clamp on count, which comes before the search for a good block, and *)
(* the refusal of more than a block, made only of what is not clamped.     *)
WriteCount(p, n)   == IF p + n > Size THEN Size - p ELSE n
WriteRefused(p, n) == p + n <= Size /\ n > EraseSize

(* Up to the kmalloc of kbuf. *)
BeginWrite(c, off, p, n) ==
  LET land == Landing(p, bad)
      k    == NewCall("write", off, n)
  IN
  /\ Begin(c)
  /\ \/ /\ WriteRefused(p, n)
        /\ Return(c, k, p, EFAULT)
        /\ UNCHANGED bbt
     \/ /\ ~ WriteRefused(p, n)
        /\ WriteCount(p, n) = 0
        /\ Return(c, k, p, 0)
        /\ UNCHANGED bbt
     \/ /\ ~ WriteRefused(p, n)
        /\ WriteCount(p, n) # 0
        /\ ~ Found(p, bad)
        /\ Return(c, k, land, EFAULT)
        /\ bbt' = Rescanned(p)
     \/ /\ ~ WriteRefused(p, n)
        /\ WriteCount(p, n) # 0
        /\ Found(p, bad)
        /\ GoOn(c, AtBlock([k EXCEPT !.count = WriteCount(p, n),
                                     !.boff = OffsetIn(land)], p),
                land, "w_alloc")
        /\ bbt' = Rescanned(p)
  /\ UNCHANGED << cell, heap >>

(* kmalloc(erasesize); at address 0 the block is not loaded into it. *)
WriteAlloc(c) ==
  LET k == call[c] IN
  /\ pc[c] = "w_alloc"
  /\ \/ /\ heap' = heap \cup {c}
        /\ NoFault
        /\ \/ pos[c] = 0 /\ GoOn(c, [k EXCEPT !.phase = "head"], 0, "w_fill")
           \/ pos[c] # 0 /\ GoOn(c, k, pos[c], "w_load")
     \/ /\ Return(c, k, pos[c], ENOMEM)
        /\ MemFault
        /\ UNCHANGED heap
  /\ UNCHANGED << cell, bbt >>

(* Whether the data end in the block, or in the one after it. *)
EndsBy(k, p, b) == p + k.count <= StartOf(b + 1)

(* Seeded fault: the block of the second piece not loaded. *)
LoadedOnce(k) ==
  IF k.phase = "second" THEN k
  ELSE [k EXCEPT !.buf = [i \in InBlock |-> cell[StartOf(k.ebnum) + i]]]

(* The locals with the whole block in kbuf. *)
Loaded(k) ==
  [k EXCEPT !.buf = [i \in InBlock |-> cell[StartOf(k.ebnum) + i]]]

(* mtd->read of the whole block into kbuf. *)
Load(c) ==
  LET k == Loaded(call[c])
      Fill(ph) == GoOn(c, [k EXCEPT !.phase = ph], pos[c], "w_fill")
  IN
  /\ pc[c] = "w_load"
  /\ \/ /\ k.phase = "second"
        /\ Fill("second")
        /\ NoFault
        /\ UNCHANGED heap
     \/ /\ k.phase = "whole"
        /\ EndsBy(k, pos[c], k.ebnum)
        /\ Fill("whole")
        /\ NoFault
        /\ UNCHANGED heap
     \/ /\ k.phase = "whole"
        /\ ~ EndsBy(k, pos[c], k.ebnum)
        /\ EndsBy(k, pos[c], k.ebnum + 1)
        /\ Fill("first")
        /\ NoFault
        /\ UNCHANGED heap
     \/ /\ k.phase = "whole"
        /\ ~ EndsBy(k, pos[c], k.ebnum + 1)
        /\ FreeReturn(c, k, pos[c], EFAULT)
        /\ NoFault
     \/ /\ FreeReturn(c, call[c], pos[c], EFAULT)
        /\ MtdFault
  /\ UNCHANGED << cell, bbt >>

(* Seeded faults: the block offset forgotten, the second piece not cut     *)
(* short by the first, the second piece taken from the start of the data.  *)
PieceAtStart(k) == 0
PieceLenUncut(k) == IF k.phase = "first" THEN EraseSize - k.boff ELSE k.count
PieceFromStart(k) == 0

(* The piece of the user's data that goes to this block, and where in kbuf *)
(* it goes.                                                                *)
PieceAt(k)  == IF k.phase \in { "whole", "first" } THEN k.boff ELSE 0
PieceLen(k) == CASE k.phase = "first"  -> EraseSize - k.boff
                 [] k.phase = "second" -> k.count - (EraseSize - k.boff)
                 [] OTHER              -> k.count
PieceFrom(k) == IF k.phase = "second" THEN EraseSize - k.boff ELSE 0

Filled(k, data) ==
  [i \in InBlock |->
     IF i \in PieceAt(k) .. PieceAt(k) + PieceLen(k) - 1
     THEN data[PieceFrom(k) + (i - PieceAt(k))] ELSE k.buf[i]]

(* copy_from_user of the piece into kbuf. *)
CopyIn(c) ==
  LET k == call[c] IN
  /\ pc[c] = "w_fill"
  /\ \/ /\ GoOn(c, [k EXCEPT !.buf = Filled(k, UserData[c])], pos[c], "w_erase")
        /\ NoFault
        /\ UNCHANGED heap
     \/ /\ FreeReturn(c, k, pos[c], EFAULT)
        /\ MemFault
  /\ UNCHANGED << cell, bbt >>

(* The partition with block b holding the bytes f gives it. *)
WithBlock(b, f) ==
  [a \in Addr |-> IF a \in CellsOf(b) THEN f[a - StartOf(b)] ELSE cell[a]]
Erased == [i \in InBlock |-> FF]
Ruined == [i \in InBlock |-> Junk]

(* erase_eraseblock.  The mtd layer refuses a block that has gone bad; a   *)
(* failed erase leaves the block as it was or ruined.                      *)
Erase(c) ==
  LET k == call[c] IN
  /\ pc[c] = "w_erase"
  /\ \/ /\ k.ebnum \notin bad
        /\ cell' = WithBlock(k.ebnum, Erased)
        /\ GoOn(c, k, pos[c], "w_prog")
        /\ NoFault
        /\ UNCHANGED heap
     \/ /\ k.ebnum \in bad
        /\ FreeReturn(c, k, pos[c], EFAULT)
        /\ NoFault
        /\ UNCHANGED cell
     \/ /\ k.ebnum \notin bad
        /\ cell' \in { cell, WithBlock(k.ebnum, Ruined) }
        /\ FreeReturn(c, k, pos[c], EFAULT)
        /\ MtdFault
  /\ UNCHANGED bbt

(* What programming the first m bytes of kbuf makes of a block: only an    *)
(* erased byte takes a new value.                                          *)
Programmed(k, m) ==
  [i \in InBlock |->
     LET old == cell[StartOf(k.ebnum) + i] IN
     IF i \in 0 .. m - 1 /\ old # k.buf[i]
     THEN IF old = FF THEN k.buf[i] ELSE Junk
     ELSE old]

(* After mtd->write, whatever it answered, with m bytes written. *)
AfterProgram(c, k, m) ==
  LET p    == pos[c]
      next == p + (EraseSize - k.boff)
  IN
  \/ /\ k.phase \in { "whole", "head" }
     /\ FreeReturn(c, k, p + m, m)
     /\ UNCHANGED bbt
  \/ /\ k.phase = "first"
     /\ bbt' = Rescanned(next)
     /\ \/ /\ Found(next, bad)
           /\ GoOn(c, AtBlock([k EXCEPT !.phase = "second",
                                        !.done = EraseSize - k.boff], next),
                   Landing(next, bad), "w_load")
           /\ UNCHANGED heap
        \/ /\ ~ Found(next, bad)
           /\ FreeReturn(c, k, Landing(next, bad), EFAULT)
  \/ /\ k.phase = "second"
     /\ FreeReturn(c, k, p + PieceLen(k), k.count)
     /\ UNCHANGED bbt

(* mtd->write of the block; a failure is only printed. *)
Program(c) ==
  LET k == call[c]
      Write(m) == cell' = WithBlock(k.ebnum, Programmed(k, m)) /\ AfterProgram(c, k, m)
  IN
  /\ pc[c] = "w_prog"
  /\ \/ Write(EraseSize) /\ NoFault
     \/ (\E m \in 0 .. EraseSize - 1 : Write(m)) /\ MtdFault
------------------------------------------------------------------------------
(* The system calls.  read() and write() start from the file's position;   *)
(* the ioctl seeks first, ignoring the answer, and discards what the       *)
(* handler returns (which the field ret keeps).                            *)
ReadCall(c, n)  == BeginRead(c, pos[c], pos[c], n)
WriteCall(c, n) == BeginWrite(c, pos[c], pos[c], n)
IoctlRead(c, n) ==
  \E offset \in Offsets : BeginRead(c, offset, SeekTo(pos[c], offset), n)
IoctlWrite(c, n) ==
  \E offset \in Offsets : BeginWrite(c, offset, SeekTo(pos[c], offset), n)
------------------------------------------------------------------------------
(* The surroundings. *)

(* Another user of the partition marks a block bad. *)
MarkBad(b) ==
  /\ b \notin bad
  /\ bad \cup {b} \in BadSets
  /\ bad' = bad \cup {b}
  /\ UNCHANGED << cell, bbt, heap, pos, pc, call, calls, mtdFaults, memFaults >>

(* The power fails: calls, buffers and open files are gone, a block whose  *)
(* erase or program was under way may be ruined, and the module's init     *)
(* scans for bad blocks again.                                             *)
PowerCut ==
  LET erasing     == { c \in Client : pc[c] = "w_erase" /\ call[c].ebnum \notin bad }
      programming == { c \in Client : pc[c] = "w_prog" }
      busy        == { call[c].ebnum : c \in erasing \cup programming }
  IN
  /\ MtdFault
  /\ \E hit \in SUBSET busy :
       cell' = [a \in Addr |-> IF BlockOf(a) \in hit THEN Junk ELSE cell[a]]
  /\ bbt' = bad
  /\ heap' = {}
  /\ pos' = [c \in Client |-> 0]
  /\ pc' = [c \in Client |-> "idle"]
  /\ call' = [c \in Client |-> NewCall("read", 0, 0)]

(* A step of c's call, once it has begun. *)
Step(c) ==
  \/ ReadAlloc(c) \/ ReadFlash(c) \/ CopyOut(c)
  \/ WriteAlloc(c) \/ Load(c) \/ CopyIn(c) \/ Erase(c) \/ Program(c)

(* What c's process does of its own accord. *)
Ask(c) ==
  \/ Resume(c)
  \/ c \in Seekers /\ Lseek(c)
  \/ \E n \in Lens :
       \/ IoctlRead(c, n)
       \/ c \in Seekers /\ ReadCall(c, n)
       \/ c \in Writers /\ IoctlWrite(c, n)
       \/ c \in Seekers \cap Writers /\ WriteCall(c, n)

Next ==
  \/ \E c \in Client : Step(c) \/ Ask(c)
  \/ \E b \in Block : MarkBad(b)
  \/ PowerCut

Spec == Init /\ [][Next]_vars
------------------------------------------------------------------------------
TypeOK ==
  /\ cell \in [Addr -> Byte]
  /\ bad \in SUBSET Block
  /\ bbt \in SUBSET Block
  /\ heap \in SUBSET Client
  /\ pos \in [Client -> Nat]
  /\ pc \in [Client -> At]
  /\ call \in [Client -> Call]
  /\ calls \in 0 .. MaxCalls
  /\ mtdFaults \in 0 .. MaxMtdFaults
  /\ memFaults \in 0 .. MaxMemFaults

(* Every way out of a handler frees the buffer it allocated, and none      *)
(* before its last use: a buffer is outstanding exactly while its call is  *)
(* between kmalloc and return (the 19 kfree of at91flash.c:210-515).       *)
OwnsBuffer == { "r_read", "r_copy", "w_load", "w_fill", "w_erase", "w_prog" }
NoLeak == heap = { c \in Client : pc[c] \in OwnsBuffer }

(* The pieces a handler copies stay within the buffer it allocated, within *)
(* the user's buffer and within a block, for clients that ask for no more  *)
(* than a block at a time (flash_demo.c:138).                              *)
ReadFits(c) ==
  pc[c] \in { "r_read", "r_copy" } =>
    LET k == call[c] IN
    /\ k.count <= MaxKmalloc /\ k.count <= k.n
    /\ pc[c] = "r_read" => k.done + ReadLen(k, pos[c]) <= k.count
    /\ pc[c] = "r_copy" => k.len > 0 /\ k.done + k.len <= k.count
WriteFits(c) ==
  (pc[c] = "w_fill" /\ call[c].n <= EraseSize) =>
    LET k == call[c] IN
    /\ PieceLen(k) > 0
    /\ PieceAt(k) + PieceLen(k) <= EraseSize
    /\ PieceFrom(k) + PieceLen(k) <= k.n
BufferFits == \A c \in Client : ReadFits(c) /\ WriteFits(c)

(* What a call knows of its locals k and of *ppos at each point: the       *)
(* strengthening the proofs of the invariants above need.                  *)
Pieced(k) ==
  /\ k.phase \in { "first", "second" } =>
       k.count \in EraseSize - k.boff + 1 .. EraseSize - k.boff + EraseSize
  /\ k.phase = "whole" => k.boff + k.count <= EraseSize

Knows(where, k, p) ==
  /\ where \in ReadAt \cup WriteAt =>
       k.n <= MaxLen /\ k.count \in 1 .. k.n /\ k.ebnum \in Block
  /\ where \in ReadAt => k.count <= MaxKmalloc
  /\ where = "r_alloc" => k.ebnum = BlockOf(p) /\ p + k.count <= Size /\ k.done = 0
  /\ where = "r_read" =>
       /\ p < Size
       /\ k.done \in 0 .. k.count - 1
       /\ k.phase # "second" => k.done = 0
       /\ k.phase = "first" =>
            k.ebnum = BlockOf(p) /\ p + k.count > StartOf(k.ebnum + 1)
  /\ where = "r_copy" =>
       /\ k.len > 0 /\ k.done \in 0 .. k.count - k.len
       /\ k.phase = "first" => k.done = 0 /\ k.len < k.count
  /\ where \in WriteAt => k.boff \in InBlock
  /\ where \in { "w_alloc", "w_load" } => k.phase \in { "whole", "second" }
  /\ where = "w_alloc" => k.phase = "whole"
  /\ (where \in { "w_alloc", "w_load" } /\ k.phase = "whole") =>
       p = StartOf(k.ebnum) + k.boff
  /\ (where = "w_load" /\ k.phase = "second") => Pieced(k)
  /\ where \in { "w_fill", "w_erase", "w_prog" } => Pieced(k)

FlashInv ==
  /\ TypeOK
  /\ NoLeak
  /\ \A c \in Client : Knows(pc[c], call[c], pos[c])
------------------------------------------------------------------------------
(* The driver as a store of blocks: what each block holds, and the block a *)
(* client has in hand, from the load of kbuf to the return of mtd->write.  *)
Disk == [b \in Block |-> [i \in InBlock |-> cell[StartOf(b) + i]]]

HandAt(where, k) ==
  LET InHand(stage) == [stage |-> stage, block |-> k.ebnum, image |-> k.buf]
  IN  CASE where = "w_fill"  -> InHand("taken")
        [] where = "w_erase" -> InHand("edited")
        [] where = "w_prog"  -> InHand("wiped")
        [] OTHER             -> [stage |-> "none"]
Hand == [c \in Client |-> HandAt(pc[c], call[c])]

Store == INSTANCE FlashStore WITH disk <- Disk, hand <- Hand

(* Whatever fails, whatever goes bad and however the clients interleave,   *)
(* the partition changes as a FlashStore does: a block is wiped only by a  *)
(* client that holds an edited copy of that block, gets that copy back and *)
(* nothing else, and is lost only in between (at91flash.c:364-517).        *)
StoreKept == Store!Spec
==============================================================================
