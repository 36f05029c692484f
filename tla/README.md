# Verification of the at91sam9x25 drivers

Linux 2.6.39 character drivers for an AT91SAM9X25 board, and the programs that
exercise them.  This directory holds TLA+ models of the drivers, the TLC
configurations that check them on small instances, and theorems about them
whose proofs TLAPS checks.  Every definition is translated from the C sources;
`PROJECT.json` names the lines each stands for.

    tlc -workers 2 -config MCFlashCalls.cfg MCFlashCalls.tla
    tlapm FlashProofs.tla

## The system

| component | state it keeps | operations |
|---|---|---|
| `flash/at91flash.c`: a raw NAND partition as a file | `mtd`, `ebcnt`, `bbt` (the bad block table), `f_pos` of each open file | read, write, lseek, two ioctls (seek and transfer), init, exit |
| `at91adc/at91adc.c`: averages of eleven ADC channels | eleven rings of 16384 samples, `at91adc_appidx`, clocks, register windows | timer interrupt, read, init, exit |
| `ds18b20/ds18b20.c`: a one-wire thermometer | `DS18B20_PIN`, `tmpdata`, `lastdata`, all global | ioctl (choose the line), read, init, exit |
| `at91gpio/at91gpio.c`: any GPIO line | none of its own: the lines | ioctl (direction, write, read), init, exit |
| `cdma-mc323/at91mc323.c`: power and reset of a modem | none of its own: PA2, PA3, PA7, PA8 | ioctl (power on, reset), init, exit |
| `hwtest/hwtest.c`: the menu of hardware tests | open descriptors, the buffer of the flash test, the locals of the test that runs | a key a test: thermometer, RTC, ADC, flash, modem over a serial line, GPIO; `q` |
| `*_demo.c` | | straight-line users of the devices and of the kernel's RTC |

How they interact.  Each driver is a misc device of its own; user processes
reach it by system calls.  `at91flash` calls the mtd layer, which other users
of the partition share.  The timer interrupt of `at91adc` shares the rings with
its readers.  `at91gpio`, `at91mc323` and `ds18b20` drive the same lines.  No
driver takes a lock, and none knows of another.  `hwtest` is one process that
calls them all, one at a time, and believes what they answer.

What is hard in it.

* **Interleaving.**  The kernel is not preemptive and has one CPU.  A system
  call gives way to other processes only where it sleeps: in `kmalloc`, in the
  mtd calls, in the copies from and to user space, in `misc_register` and the
  like; `udelay` and `mdelay` do not sleep.  Interrupts come anywhere.  One
  action of a model is therefore the code from one sleeping call to the next,
  or, where an interrupt matters, from one load to the next.
* **Failure.**  Allocations, user copies and mtd calls fail; blocks go bad at
  any time; the power fails between the erase of a block and its programming.
* **Arithmetic.**  Block number and offset of a 64-bit position, transfers cut
  at a block boundary or at the end of the partition, sums of 16384 samples in
  32 bits, a ring index, a 256-entry checksum table.
* **Protocol.**  The one-wire bus tells its bits by microseconds and answers
  only commands in its order.

What makes each component correct: `at91flash` must move a client's bytes to
and from the right places, keep the rest of each block, and give back every
buffer; `at91adc` must average the samples that are in the ring, each once,
losing nothing; `ds18b20` must deliver only what a sensor sent; loading and
unloading a driver must leave nothing behind, and nothing missing for those who
use it meanwhile; and `hwtest` must show what the devices hold, keep nothing
from test to test, and end when it is told to.

## The modules

| module | models | its actions |
|---|---|---|
| `FlashGeometry` | blocks and positions; the search for a good block as a closed form | |
| `BlockScan` | the `while(1)` search, one iteration a step | `SkipBad`, `StopAtGood`, `BeyondDevice` |
| `At91Flash` | the flash handlers, several clients with an open file each, the mtd layer, failures, `PowerCut`, `MarkBad` | `Begin*`, `ReadAlloc`, `ReadFlash`, `CopyOut`, `WriteAlloc`, `Load`, `CopyIn`, `Erase`, `Program`, `Lseek` |
| `FlashCalls` | `At91Flash` with history variables: the partition when a call began, the blocks it named, the calls that were disturbed | those of `At91Flash` |
| `FlashStore` | the abstract specification: a store of blocks, changed by taking a copy, editing it, wiping the block and putting the copy back; `At91Flash` implements it | `Take`, `TakeBlank`, `Edit`, `Wipe`, `FailToWipe`, `PutBack`, `Drop`, `Wear`, `PowerCut` |
| `FlashModule` | init and exit of the flash driver, clients opening and closing | one per sleeping call |
| `AdcRing` | the interrupt and `read` of the ADC, one load a step | `Isr`, `BeginRead`, `Add`, `CopyOut` |
| `AdcReads` | `AdcRing` with the samples numbered | those of `AdcRing` |
| `AdcModule` | init and exit of the ADC driver, clients opening and closing | one per sleeping call or label |
| `OneWire` | bytes and bits of the one-wire bus, the checksum table, and the sensor's own checksum | |
| `Ds18b20` | the thermometer driver, one byte of the bus a step; the sensor; interrupts that stretch a time slot or double it; loading and unloading | `Insmod`, `Rmmod`, `Ioctl`, `IoctlGarbage`, `BeginRead`, `ResetPulse`, `WriteByte`, `ReadByte`, `CopyOut`, `ConversionEnds` |
| `GpioLines` | the abstract specification: each line a thing of its own, known by port and pin | one per request |
| `Pins` | the GPIO and modem drivers and the thermometer's line over the registers of the four PIO controllers; implements `GpioLines` | `CtlOut`, `CtlIn`, `Write`, `Read`, `LoadGpio`, `UnloadGpio`, `Choose`, `Measure`, `ReloadThermometer`, `LoadModem`, `UnloadModem`, `Pulse`, `Refuse`, `Outside` |
| `HwTest` | the test program, a call a step, over devices that answer or fail as their own modules say they may | `Getchar`, `Open`, `Close`, `Malloc`, two for most tests, `TtySet`, `TtyTimeout`, `SelectFails`, and of its surroundings `Type` and `Arrive` |

`MC*` modules give the constants their small values.  `*Proofs` modules hold
theorems.  A definition marked "Seeded fault" is a wrong version of the
definition after it; putting it in its place must break the property that
`PROJECT.json` pairs it with.

**`At91Flash` and the code.**  `pc` is the sleeping call a handler is about to
make.  `call` holds its locals under their own names (`count`, `ebnum`,
`boff` for `blockoffset`, `len` for `readlen`, `buf` for `readbuf` or `kbuf`),
`phase` which of the copies of the transfer code is running.  `pos` is `*ppos`,
updated where the code updates it.  The code's two-block path is four nested
repetitions of one pattern; the model has the pattern once and `phase` says
which it is.  NAND is modelled by what it does: an erase sets a block to `FF`,
a program changes only erased bytes, and a failure of either may leave the
block ruined (`Junk`).  `bbt` is kept as the handlers keep it although they
never decide by it.

**`FlashCalls` and the code.**  The variables it adds decide nothing; they
remember, for each call, the partition (`was`), the position it is about
(`start`: the offset given or, where `lseek` refused it, `f_pos`), the blocks
that position and its length reach (`named`), and whether anything disturbed it
(`spoiled`).

**`FlashStore` and the code.**  `Disk` in `At91Flash` cuts the partition into
blocks, and `Hand` gives a client a copy from the end of its load (`w_fill`)
over the copy of the user's data (`w_erase`) to the programming (`w_prog`).
So a transfer over two blocks is two rounds of the store, a failing allocation
or user copy a `Drop`, and a call that reads no step of it at all.  What the
refinement says is that no path, of the four that write, wipes a block without
a copy of it in hand, puts back anything but that copy with one run of the
caller's bytes in it, or drops it between the wipe and the programming.

**`AdcRing` and the code.**  `Add` is one `data_add += pbuf[j]`: a load of a
half word, which an interrupt cannot split.  The interrupt handler is one
action: nothing interrupts it that matters.  Additions wrap at `Word`.

**`AdcModule`, `FlashModule` and the code.**  `at` is the sleeping call, or the
label, that `insmod` or `rmmod` has reached.  A client can open the device from
the moment it is registered, while init is still running.  The kernel refuses
`rmmod` while a file is open and an open while the module is going.  When an
init that a client has overtaken fails, the client is left with a device whose
code is gone; `AdcModule` counts it as open no longer, for nothing in this code
can serve it.  `rings` are those the driver's pointers reach, `heap` the
buffers of `kmalloc` that nobody freed: exit forgets the first and leaves the
second, for its `kfree`s are commented out, and `removed` remembers of which
loads they are.  `clk_get` may answer with an error; the code enables what it
got (`at91adc.c:423-425`, `:483-485`), and that oops ends `insmod` in the
middle (`OopsAt`).

**`Ds18b20` and the code.**  `Proc` is `ds18b20_proc` as a list of resets and
command bytes; nine reads follow.  A read never sleeps, so no other client acts
inside one and the clients need no names.  The sensor is external: it takes
SKIP ROM, CONVERT T and READ SCRATCHPAD in their order, falls deaf on anything
else until the next reset, and finishes a conversion in a later read or between
reads.  A stretched slot turns a 1 sent into a 0, or a 0 read into a 1, which
is what a delayed edge or a delayed sample does.  An interrupt between the two
lows of a read slot (`ds18b20.c:91-97`) makes a slot of its own: the sensor
sends a bit the driver does not sample and is `ahead` by one for the rest of
the read.  `busy` remembers whether the sensor was converting when the read told
it to convert, which it then does not heed.  A line without a sensor
is pulled up, or held low by what is wired to it.

**`Pins` and the code.**  A register of a controller is the set of its bits
that are 1; `osr` and `odsr` are what `at91_set_gpio_input`, `_output` and
`_value` set.  A line is its number less `PIN_BASE`, so port B's pin 2 is 34.
No call sleeps between its first and its last access to a line, so each is one
action; the modem's pulse (low, high, `mdelay`, low; the source defines `HIGH`
as 0 and `LOW` as 1) is one too, and whether the modem sees it is whether the
line is an output.  The refinement mapping to `GpioLines` turns controller and
bit back into port and pin.  Requests keep to the pins 0 to 31 of `at91gpio.h`,
and to lines the ADC driver has not given to its converter: its init takes PB6
to PB15 and PB17 from the PIO (`at91adc.c:437-449`), which `Pins` leaves out.

**`HwTest` and the code.**  `my` holds the locals of the running test, `fds`
and `heap` what the kernel and `malloc` gave, `ttys` those of the descriptors
that are of the serial line.  Keys are typed ahead, since the
menu reads them one by one through stdio and only between tests.  The drivers
are external: a flash ioctl answers 0 whether or not it wrote, all or in part; a
read-back delivers any number of bytes, and after a failing `mtd->read` some
that ECC could not correct (`at91flash.c:273-291`; `garbled` remembers which);
the RTC and the thermometer may fail, the modem
may answer late, never, or of its own accord.  A byte it sends is queued as
long as any descriptor of the line is open, a lost one included, and the model
marks it by when it came: in an earlier session or before the flush of this one
(`stale`), between `tcflush` and `tcsetattr`, which are two actions (`early`),
or after them (`new`).  Nothing else uses the flash or the line meanwhile.

## What is checked

| run | bounds | shows |
|---|---|---|
| `block_scan` | 4 blocks of 3 bytes, all sets of bad blocks, all starts up to beyond the end | the search ends (`ScanTerminates`), at the block the closed form says (`ScanCorrect`) |
| `flash_calls` | 4 blocks of 2 bytes, 1 client with every system call, offsets from -1 to past the end, lengths 1 to 3, 2 calls, bad blocks none, the first, one within, the last or two within, 1 mtd and 1 memory failure or power cut | no path leaks its buffer (`NoLeak`) or copies outside it (`BufferFits`); writes land where they should (`WriteLands`) and keep the rest (`WritePreserves`), reads deliver what is there (`ReadDelivers`), failures and power cuts touch only the blocks named (`Confined`); the partition is a `FlashStore` (`StoreKept`); the inductive invariant of the proofs holds (`FlashInv`) |
| `flash_clients` | 3 blocks, 2 clients, 2 calls interleaved, 1 bad block, no failures | the same of calls that do not meet on a block, and `StoreKept` of all calls |
| `adc_reads` | ring of 4, 2 channels, samples 0 and 3, a word of 16, 6 interrupts, 1 read | no sum overflows or is cut (`SumsExact`), nothing is lost at the wrap (`LatestKept`), a read uses one recent sample of each slot (`ReadsRecent`) and reads a steady input as itself (`SteadyReadsItself`); the inductive bound on the sums (`AdcInv`) |
| `adc_module` | 3 rings, 2 clients, 2 loads | the interrupt finds what it uses (`IsrReady`), and a client of a loaded driver its rings (`Serves`); every init that fails gives back what it took, and exit all but the rings (`GivenBack`) |
| `flash_module` | 3 blocks, 2 clients, 3 loads | a loaded driver serves its clients (`Serves`), its references balance (`Balanced`) |
| `ds18b20` | a line with a sensor, one held low and one pulled up, 2 scratchpads, 2 reads, 3 stretched slots or 1 doubled | whichever three slots of a read are stretched, the checksum accepts only what the sensor had (`AcceptedIntact`), an undisturbed read succeeds, and starts a conversion unless one was under way (`QuietRead`), the user gets the last accepted reading (`Delivered`), the table is the checksum (`ChecksumsAgree`); the inductive invariant of the proofs holds (`DsInv`) |
| `pins` | all three drivers loaded and unloaded, 4 requests (lines of the modem and of the demos, a like-numbered pin of port B, a port there is not), one line driven from outside | a call acts on the line it names alone (`LinesKept`, the refinement of `GpioLines`); the modem's lines are at rest, and its pulses seen, until another driver names them (`ModemUndisturbed`) |
| `hwtest` | 2 keys typed ahead, descriptors 3 and 4, memory for 2 buffers, 2 bytes of flash, a `buff` of 2 | each test gives back its descriptor and buffer but on three paths (`Tidy`), the flash test shows what the flash holds or what a failing read delivered, never what it wrote (`ShowsStored`), the modem test nothing that came before its flush (`AnswersShown`), and a `q` ends the program (`Quits`); the inductive invariant of the proofs holds (`HwInv`) |

Why the bounds are enough.  A transfer touches at most two blocks, each behind
at most one run of bad ones: four blocks, with the bad ones the run names, have
a bad block before, between and after, a run of two of them, and the end of the
partition.  A block of 2 bytes has a first and a last byte and an inside
boundary; lengths 1 to 3 fit, fill and exceed it.  Two calls let one leave the
position, the table and the blocks as the next finds them; one failure per call
path reaches every error return, since a handler that meets an error returns or
merely prints.  A ring of 4 wraps in 6 interrupts with a read anywhere across
the wrap.  `RingSize * MaxSample < Word` is what the real numbers satisfy
(16384 * 1023 < 2^32), and 4 * 3 < 16 is as tight.  The checksum tells up to
three wrong bits; three stretched slots reach that limit in every position of
commands and data.  A doubled slot counts three (`DoubleCost`), so that it is
the only disturbance of its behaviour, in either read and at any slot; the next
read must recover from it.  Two typed keys let a `q` wait behind any test and
any test follow any other; two descriptors let one be lost and the other serve
the next test, and both be lost; two bytes are the fewest that can arrive in
part.

Histories and conditions.  `WriteLands`, `WritePreserves` and `ReadDelivers`
speak of calls that no flash failure, no block going bad and no other client's
write to the same block has spoiled: with those the drivers promise nothing.
`WritePreserves` excepts a write at address 0 of less than a block (see below),
`WriteLands` one at address 0 of more than a block: nothing there tests whether
the data fit, and a write longer than the partition has escaped the test of its
length.  For the same reason `BufferFits` speaks of writes of at most a block.
`Confined` and `StoreKept` have no condition. `AcceptedIntact` is about reads
of which at most three slots are stretched (`Detected`) and none doubled: the
polynomial has multiples of four bits, and of the sets of four bits that can be
stretched in the first scratchpad of the run 717 pass.  It excepts the zeros of
a line held low, whose checksum is right, and a read in which a conversion
replaces the scratchpad *and* a slot is stretched: the two together can pass
the checksum, as TLC shows without that condition.  `Serves` and `Balanced` of
the flash driver except what follows a refused init, `Serves` of the ADC driver
a client that opens while init still runs (see below).  `ShowsStored` excepts
the bytes a failing read delivered uncorrected: the program prints them
(`hwtest.c:209-213`) and the ioctl does not tell it.  `AnswersShown` rules out
bytes from before the flush only: those that come between `tcflush` and
`tcsetattr` (`hwtest.c:303-305`) were received at the earlier settings, stay in
the queue and are shown.  `QuietRead` asks for a new
conversion exactly where none was under way: `CONVERT_T` goes unheeded by a
sensor that converts.  `Tidy` names the three paths on which `hwtest` does
leave something behind.

Fairness.  `BlockScan` has weak fairness of the loop's step, which is
sequential code that nothing in it can block.  `HwTest` has weak fairness of
`Program`, the disjunction of the program's own calls: the kernel lets a
process run, and each driver's calls return, for those drivers loop over
bounded counts and over `BlockScan`'s search.  A wait for the modem returns by
its time-out; that `select` fails, that a byte arrives or that a key is typed
is not assumed.  The other properties are safety: the calls of their models may
fail to return only if the mtd layer or the allocator does not answer, which is
outside this code.  Deadlock is not checked where the bounds on calls,
interrupts and loads let a behaviour end, nor for `hwtest`, which ends.

## What does not hold

Three runs check what the sources say of the drivers, and end in a
counterexample:

* `flash_first_block` (`RestKept`): a write reads the whole block first to keep
  what it does not replace, except at address 0, where it programs the rest of
  the block from what `kmalloc` returned (`at91flash.c:369`).  `hwtest` writes
  100 bytes this way (`hwtest.c:174-175`) and loses the other 130972 of the
  block.
* `flash_offset` (`OffsetHonoured`): the ioctl ignores that lseek refused its
  offset and transfers at the old position (`at91flash.c:547`); the demo offers
  offsets up to 120MB on a partition of 8MB.
* `adc_caught_up` (`NeverCaughtUp`): the comment at `at91adc.c:72` sizes the
  ring so that the interrupt never catches up with a read, but a read walks
  the whole ring.  `ReadsRecent` and `SteadyReadsItself` are what is left.

Seen in the sources and modelled, without a run of their own:

* A write clamped to the end of the partition escapes the test of its length
  (`at91flash.c:315-324`).  The copies of one of at most a block still fit
  (`BufferFits`); of a longer one nothing is claimed.
* The ADC driver's init registers the device before it allocates the rings, and
  sleeps in between (`at91adc.c:354`): a client may open it, and read through
  null pointers.  `AdcModule` lets it.
* The GPIO driver drops the error of `gpio_init` and answers 0 to a direction
  it does not know (`at91gpio.c:156`); the modem's power-off does nothing
  (`at91mc323.c:64`).  Any client can make the modem's power line an input,
  after which its pulses go nowhere until the driver is loaded again.
* The flash driver's init returns 0 when it gives up (`at91flash.c:632`), so
  the module stays loaded without its device and exit deregisters and puts a
  second time.  `FlashModule` follows the code; its properties end there.
* Unloading the ADC driver frees none of its rings: the `kfree`s are commented
  out (`at91adc.c:576-578`).  `GivenBack` says that after `n` removals exactly
  the rings of those `n` loads are allocated.
* The ADC driver's init does not test what `clk_get` answers.
* The modem test flushes the line before it sets it up (`hwtest.c:303-305`): a
  byte that comes in between is received at the old speed and shown.
* The thermometer's ioctl ignores a command it does not know and returns 0;
  `hwtest.c:52` uses one, 0 instead of `AT91_DS18B20_CTL`, so its line is never
  chosen and it reads 0, 0.
* All clients of the thermometer share the line and the last good reading.  A
  line that is held low reads as nine zeros with a right checksum: 0 degrees.
* `hwtest` leaves its descriptor open when the RTC refuses an ioctl
  (`hwtest.c:107`), its buffer allocated when the flash cannot be opened
  (`:194`), and terminates 512 bytes from the modem one byte behind `buff`
  (`:451`), where the build may have put the descriptor it closes next.
* A two-block read or a write returns a length that is not what was asked
  (`at91flash.c:268`, `:516`).

## What is proved

The theorems hold for every value of the constants that the named assumptions
allow: any number of clients, blocks and rings, any block size, any bad blocks.

* `BlockScanProofs!ScanInvariant`, `ScanIsCorrect`: `[]ScanInv` and
  `[]ScanCorrect`.  The invariant
  `ScanInv` says that every block passed was bad and that the position moved
  only to block starts; with it, the block the loop stops at is the least good
  one, which is the closed form.
* `FlashProofs!FlashInvariant`, `TypeCorrect`, `BuffersFreed`, `CopiesFit`:
  `[]FlashInv`, and from it `[]TypeOK`, `[]NoLeak`, `[]BufferFits`.
  `BufferFits` is not inductive: that the second piece of a write fits depends
  on the test that chose the two-block path, several sleeps earlier.  `FlashInv`
  adds what a call knows at each `pc` of its locals and of `*ppos` (`Knows`),
  for each phase.  There is one lemma per action; the arithmetic of blocks is at
  the head of the module.
* `FlashProofs!StoreImplemented`: `Spec => Store!Spec` under the mapping
  `Disk`, `Hand`; `StoreKept` is the steps of it.  It needs `FlashInv`, for the
  place of a client's bytes in its block, and that a buffer is blank until it
  is loaded (`BlankInv`), for the write at address 0.  The lemmas relate cells
  to blocks once; then each action of `At91Flash` is a step of the store or a
  stutter.
* `FlashProofs!ChangesAreConfined`: no byte changes but in a block a
  client's call has named.  The block of a write is the first good one that the
  code found when it got there, and blocks may go bad before it is erased; so
  `NamedInv` says that it is among those named, and, for the first block of a
  transfer over two, that only bad blocks lie between the start and it.  Then
  the first good block from the start stays within the call's reach.
* `FlashProofs!WritesLand`, `WritesPreserve`, `ReadsDeliver`: `[]WriteLands`,
  `[]WritePreserves`, `[]ReadDelivers`.  These speak of finished calls, and
  a program or a copy shows only what it moves itself; so `TrackedInv` says, for
  each point of a call that nothing has spoiled, what the pieces before it have
  moved (`Says`): which bytes are in their places on the partition or in the
  reader's buffer, which are as they were, and what the block in hand holds.
  The pieces are intervals of the call's bytes, and where each byte goes
  depends on the start and the bad blocks alone (`PlaceOf`), so that two pieces
  never meet.  Other clients are kept away by `NamedInv`: a writer changes only
  a block its call has named, and a call that comes to name a block of this one
  has spoiled it.
* `AdcReadsProofs!SumsWithinBound`: `[]AdcInv`, by which the sum of a channel
  never exceeds the number of loads so far times the largest sample.
* `AdcReadsProofs!SumsAreExact`: with that bound, no addition wraps and shift
  and mask lose nothing.
* `AdcReadsProofs!RingKeepsLatest`: slot `s` holds the newest sample whose
  number is congruent to it (`RingInv`), so the ring holds exactly the newest.
* `AdcReadsProofs!ReadsAreRecent`: a sample goes to one slot only (`OneSlot`,
  by the numbers of `RingInv` and that laps are whole, `WholeLaps`), so the
  loop adds a new one at each slot it passes (`UsedInv`), whatever laps the
  interrupt makes meanwhile.
* `AdcReadsProofs!SteadyIsExact`: the slots filled since an input is steady
  hold its value (`SteadyInv`); a read that began a ring later adds only those.
* `AdcModuleProofs!ModuleInvHolds`, and from it `IsrReadyHolds`,
  `GivenBackHolds`, `ServesHolds`.  `ModuleInv` says for each point of init, of
  its labels and of exit which clocks run, which windows are mapped, whether
  the handler and the device are registered, which rings there are and what is
  allocated (`Allocated`: what the pointers reach, and the rings that rmmods
  have left).  None of the three is inductive: they need to know what the
  labels still to come will undo.  `GivenBackHolds` speaks of kfree as the code
  has it: in init, not in exit.  `ServesHolds` adds where no client has the
  device open (`Clientless`).
* `FlashModuleProofs!ModuleInvHolds`, `ServesHolds`, `BalancedHolds`: likewise,
  for the flash driver.
* `PinsProofs!PinsImplementLines`: `Spec => Lines!Spec`, one step of the proof
  per action of `Pins`; the lemmas relate a change of one bit of one controller
  to a change of one line.  `PinsTyped` is the invariant it needs: every number
  that reaches a register is a line.  `ModemUndisturbedHolds` is inductive with
  it and uses the same lemmas, since it compares lines and not bits.

* `HwTestProofs!HwInvariant`, and from it `TidyHolds`, `ShowsStoredHolds`,
  `AnswersShownHolds`.  `HwInv` says which calls belong to which test, that the
  descriptors and buffers held are the running test's and those lost before,
  how many rounds are left, what has been read, and that from the flush to the
  read no byte of an earlier session is in the queue (`HasRead`).  `Tidy`
  speaks of the menu alone, where all of it was decided a test ago.
* `Ds18b20Proofs!DsInvariant`, `QuietReadHolds`, `DeliveredHolds`: `[]DsInv`,
  `[]QuietRead`, `[]Delivered`.  `DsInv` says at each step of `ds18b20_proc`
  where the commands so far have brought a sensor that heard them (`After`) and
  how many bytes it has sent (`Listening`), that the bytes read so far are
  those of its only scratchpad (`Arriving`), that a conversion is a new one
  exactly if this read has asked for it and none was under way (`Asked`,
  `Fresh`), and that `lastdata` is the last good reading turned round
  (`Remembered`).  Two more parts speak of reads that are disturbed.
  `Garbled`: the bits of the bytes read so far that are not the scratchpad's
  are no more than the slots stretched, if none was doubled; a read sees two
  scratchpads at most, for a conversion that it starts does not end in it; and
  where nothing was stretched each byte is of one of the two.  `Silent`: a line
  on which no sensor sends, because there is none or because a stretched slot
  spoiled a command, reads as it is held.  The first lemmas compute the bit
  recursions of `OneWire`: a byte sent bit by bit is the byte received, on
  either side, and every checksum is a byte.
* `Ds18b20Proofs!TableIsChecksum`, `ChecksumsAgreeHolds`: the driver's table is
  the sensor's register.  Eight shifts are eight sums of bits (`Shift8Bits`),
  and those are the bits of the entry, which is compared a row of 16 at a time.
* `Ds18b20Proofs!AcceptedIntactHolds`: `[]AcceptedIntact`.  The checksum of a
  difference is the difference of the checksums (`CrcIsLinear`), so a reading
  that passes differs from a scratchpad that passes by nine bytes that pass
  (`DifferencePasses`).  If at most three of their bits are 1 all are 0
  (`FewAreSeen`): the register keeps the parity of the bits it has taken
  (`CrcOnes`), so one and three do not pass; and a single bit, shifted through
  the 72 of a reading, meets no other single bit (`Trail`, `TrailIsLong`), so
  two do not cancel.  `Tells` is what the register says after each byte.  A
  reading torn between two scratchpads differs from one of them in a single
  byte at most, since they differ in the temperature and the checksum only,
  three bytes, of which two are of the same (`TornIsSeen`), and one byte is
  always seen (`OneIsSeen`).  Nine bytes 255 do not pass (`OnesFail`).
  `MaxHits` plays no part: the theorem counts the slots of the read it speaks
  of (`stretched`). That two scratchpads agree in their third to eighth bytes
  (the alarm limits, the configuration, the reserved bytes) is assumed of the
  sensor (`Ds18b20Assumption`): the driver never sends the command that writes
  them.

Model-checked only: `ScanTerminates` and `Quits`, which are liveness.  Every
other property of a passing run is a theorem.

## What is not modelled

* Threads that share one open file of the flash device, and with it `f_pos`:
  as with any file the position is the callers' to protect, and the sources
  promise nothing.  The ioctl's copies of its own argument; the page counters
  (`pgcnt`, `pgsize`) nothing uses.
* The ADC converter: `Isr` takes any sample, which covers a conversion that is
  not over when the handler, having waited ten `cpu_relax`, reads it.  That
  exit stops the clocks before it removes the handler is in `AdcModule`, but
  `IsrReady` asks nothing of the clocks.  The period of the timer (RC is 3000,
  the comment computes 50000) and the eleven lines of port B that init takes
  from the PIO are outside the models.
* How fresh a reading of the thermometer is: the driver waits 100 us for a
  conversion of 94 to 750 ms and so reads an earlier one.
* Sensor commands the driver never sends.  Two stretched slots can turn READ
  SCRATCHPAD (0xBE) into one of them, READ POWER SUPPLY (0xB4) or RECALL (0xB8);
  the sensor of `Ds18b20` falls deaf on those too, and reads as nine 255s.
* Pin numbers above 31: pin 32 of a port is pin 0 of the next, and the GPIO
  driver does not mind (`at91gpio.c:38`).
* Of `hwtest`: what the settings of its serial line are, what it prints other
  than flash and modem bytes, other clients that move its GPIO line, and the
  end of its input, at which the menu prints "no order" for ever.
* The demos, straight-line users whose arguments are the inputs of the runs;
  the older copies of the ADC driver, vendored mtd headers and generated build
  files.

## Plan

Done, in this order, most important first: the flash handlers and their
proofs; whole flash calls; the ADC ring, its reads and their proofs; loading
and unloading of both; the thermometer; the GPIO lines and their proofs; the
abstract store of blocks and the proof that the flash handlers implement it;
loading and unloading of the other drivers; the hardware test program;
proofs of whole flash calls, of the test program and of the thermometer; and
that its checksum sees what can go wrong on the line.

Left: the two-block transfer as one step of an abstract store of bytes, above
`FlashStore`, for calls that nothing spoils.
