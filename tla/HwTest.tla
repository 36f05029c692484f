------------------------------- MODULE HwTest -------------------------------
(***************************************************************************)
(* hwtest/hwtest.c: the menu of hardware tests, and the tests, each an     *)
(* open, some calls of a device and a close.  One action is one call that  *)
(* may fail or wait.  The drivers are external here: a call of theirs      *)
(* answers, and leaves the device, as their own modules say it may.  No    *)
(* other program uses the flash or the serial line meanwhile.              *)
(***************************************************************************)
EXTENDS Integers, SequencesExt

CONSTANTS
  MaxTyped,   \* bound on the keys typed ahead
  MaxFd,      \* the greatest file descriptor; 0, 1 and 2 are the terminal's
  MaxHeap,    \* the buffers there is memory for
  FlashLen,   \* len, the bytes NAND_FLASH_test writes
  BuffSize    \* the size of buff in CDMA_test

ASSUME HwTestAssumption ==
  /\ { MaxTyped, MaxHeap } \subseteq Nat
  /\ MaxFd \in Nat /\ MaxFd >= 3
  /\ { FlashLen, BuffSize } \subseteq Nat \ {0}

Test == { "ds18b20", "rtc", "adc", "nand", "cdma", "gpio" }    \* keys 1 to 6
Key  == Test \cup { "q", "other" }

FlashData == [1 .. FlashLen -> { 0, 255, -1 }]    \* -1: neither of the two

VARIABLES
  typed,    \* the keys typed and not read yet
  pc,       \* the call the program is about to make
  my,       \* the locals of the test; garbled is history: the bytes of the flash
            \* it was given that ECC could not correct
  fds,      \* the open file descriptors
  ttys,     \* those of the serial line
  heap,     \* the number of malloc'ed buffers
  disk,     \* the bytes of the flash at offset 0
  input,    \* what the modem sent and nobody read
  lost,     \* history: the descriptors of tests that returned without a close
  strayed   \* history: the number of buffers of tests that returned without a free

vars == << typed, pc, my, fds, ttys, heap, disk, input, lost, strayed >>

Pc == { "menu", "quit", "malloc", "open", "close", "ds18b20_ctl", "ds18b20_read",
        "rtc_set", "rtc_read", "adc_read", "nand_write", "nand_read",
        "tty_init", "tty_set", "tty_write", "tty_read", "gpio_ctl", "gpio_write" }

All(byte) == [i \in 1 .. FlashLen |-> byte]

NoTest == [test |-> "none", fd |-> -1, i |-> 0, value |-> 0,
           flashdata |-> All(-1), garbled |-> {}, text |-> << >>]

Init ==
  /\ typed = << >>
  /\ pc = "menu"
  /\ my = NoTest
  /\ fds = {}
  /\ ttys = {}
  /\ heap = 0
  /\ disk \in FlashData
  /\ input = << >>
  /\ lost = {}
  /\ strayed = 0
------------------------------------------------------------------------------
(* The menu.  At the end of its input the program finds no 'q': it goes on *)
(* printing "no order", which changes nothing.                             *)

Type(key) ==
  /\ Len(typed) < MaxTyped
  /\ typed' = Append(typed, key)
  /\ UNCHANGED << pc, my, fds, ttys, heap, disk, input, lost, strayed >>

Getchar ==
  /\ pc = "menu" /\ typed # << >>
  /\ typed' = Tail(typed)
  /\ \/ Head(typed) = "q" /\ pc' = "quit" /\ my' = my
     \/ Head(typed) = "other" /\ UNCHANGED << pc, my >>
     \/ /\ Head(typed) \in Test
        /\ pc' = IF Head(typed) = "nand" THEN "malloc" ELSE "open"
        /\ my' = [NoTest EXCEPT !.test = Head(typed)]
  /\ UNCHANGED << fds, ttys, heap, disk, input, lost, strayed >>
------------------------------------------------------------------------------
(* What the tests share. *)

Return == pc' = "menu" /\ my' = NoTest

(* return, with the descriptor open. *)
ReturnOpen ==
  /\ Return
  /\ lost' = lost \cup { my.fd }
  /\ UNCHANGED << fds, ttys >>

(* close(fd).  With the last descriptor of the line goes what it has       *)
(* received; what stays is of a session that is over.                      *)
CloseFd ==
  /\ fds' = fds \ { my.fd }
  /\ ttys' = ttys \ { my.fd }
  /\ input' = IF ttys' = {} THEN << >> ELSE [i \in 1 .. Len(input) |-> "stale"]

FirstCall == [ds18b20 |-> "ds18b20_ctl", rtc |-> "rtc_set", adc |-> "adc_read",
              nand |-> "nand_write", cdma |-> "tty_init", gpio |-> "gpio_ctl"]

(* A test that cannot open its device returns; NAND_FLASH_test has its     *)
(* buffer by then.                                                         *)
Open ==
  /\ pc = "open"
  /\ \/ \E f \in 3 .. MaxFd :
          /\ f \notin fds /\ \A g \in 3 .. f - 1 : g \in fds
          /\ fds' = fds \cup {f}
          /\ ttys' = IF my.test = "cdma" THEN ttys \cup {f} ELSE ttys
          /\ my' = [my EXCEPT !.fd = f]
          /\ pc' = FirstCall[my.test]
          /\ UNCHANGED strayed
     \/ /\ Return
        /\ strayed' = IF my.test = "nand" THEN strayed + 1 ELSE strayed
        /\ UNCHANGED << fds, ttys >>
  /\ UNCHANGED << typed, heap, disk, input, lost >>

(* The last step of every test; tty_close does not close descriptor 0. *)
Close ==
  /\ pc = "close"
  /\ CloseFd
  /\ Return
  /\ UNCHANGED << typed, heap, disk, lost, strayed >>

(* Seeded fault: one round too many. *)
RoundOver(n, locals) ==
  /\ my' = [locals EXCEPT !.i = @ + 1]
  /\ pc' = IF my.i = n THEN "close" ELSE pc

(* One round of a test that makes n of them. *)
Round(n, locals) ==
  /\ my' = [locals EXCEPT !.i = @ + 1]
  /\ pc' = IF my.i + 1 = n THEN "close" ELSE pc
------------------------------------------------------------------------------
(* DS18B20_test.  The command it gives the ioctl is at91_ds18b20_ctl, the  *)
(* first entry of an enum, where the driver knows AT91_DS18B20_CTL alone:  *)
(* the driver answers 0 and chooses no line.                               *)
Ds18b20Ctl ==
  /\ pc = "ds18b20_ctl"
  /\ pc' = "ds18b20_read"
  /\ UNCHANGED << typed, my, fds, ttys, heap, disk, input, lost, strayed >>

Ds18b20Read ==
  /\ pc = "ds18b20_read"
  /\ Round(10, my)
  /\ UNCHANGED << typed, fds, ttys, heap, disk, input, lost, strayed >>

(* RTC_test: a failing ioctl returns at once. *)
RtcSet ==
  /\ pc = "rtc_set"
  /\ \/ pc' = "rtc_read" /\ UNCHANGED << my, fds, ttys, lost >>
     \/ ReturnOpen
  /\ UNCHANGED << typed, heap, disk, input, strayed >>

RtcRead ==
  /\ pc = "rtc_read"
  /\ \/ Round(10, my) /\ UNCHANGED << fds, ttys, lost >>
     \/ ReturnOpen
  /\ UNCHANGED << typed, heap, disk, input, strayed >>

(* ADC_test: what it prints is the eleven averages or, when the read that  *)
(* it does not test fails, what was on the stack.                          *)
AdcRead ==
  /\ pc = "adc_read"
  /\ pc' = "close"
  /\ UNCHANGED << typed, my, fds, ttys, heap, disk, input, lost, strayed >>
------------------------------------------------------------------------------
(* NAND_FLASH_test *)

Malloc ==
  /\ pc = "malloc"
  /\ \/ /\ heap < MaxHeap
        /\ pc' = "open" /\ heap' = heap + 1 /\ my' = [my EXCEPT !.flashdata = All(0)]
     \/ Return /\ UNCHANGED heap
  /\ UNCHANGED << typed, fds, ttys, disk, input, lost, strayed >>

(* Seeded fault: what was written is left in the buffer of the read. *)
NotOverwritten(flashdata) == flashdata

Overwritten(flashdata) == All(255)

(* The ioctl answers 0 whatever became of the write: the bytes, some of    *)
(* them or none are there, and a block ruined by a failing erase holds     *)
(* anything.  Then the memset for the reading back.                        *)
NandWrite ==
  /\ pc = "nand_write"
  /\ pc' = "nand_read"
  /\ disk' \in FlashData
  /\ my' = [my EXCEPT !.flashdata = Overwritten(@)]
  /\ UNCHANGED << typed, fds, ttys, heap, input, lost, strayed >>

(* Nor does it say how many bytes a read delivered, nor that ECC could not *)
(* correct some of them: those may be anything.  All are printed.          *)
NandRead ==
  /\ pc = "nand_read"
  /\ pc' = "close"
  /\ \E n \in 0 .. FlashLen :
       \E garbled \in SUBSET (1 .. n), junk \in FlashData :
         my' = [my EXCEPT !.garbled = garbled, !.flashdata =
                  [i \in 1 .. FlashLen |->
                     IF i \in garbled THEN junk[i] ELSE IF i <= n THEN disk[i] ELSE @[i]]]
  /\ heap' = heap - 1
  /\ UNCHANGED << typed, fds, ttys, disk, input, lost, strayed >>
------------------------------------------------------------------------------
(* CDMA_test *)

(* Seeded fault: tty_init does not flush. *)
Unflushed(bytes) == bytes

(* tcflush(fd, TCIFLUSH) *)
Flushed(bytes) == << >>

(* Seeded fault: a port that cannot be set up is left open. *)
TtyLeftOpen == Return /\ UNCHANGED << fds, ttys, input >>

TtyRefused == Return /\ CloseFd

(* tty_init up to tcsetattr: tcgetattr may fail, or the queue is flushed.  *)
TtyInit ==
  /\ pc = "tty_init"
  /\ \/ pc' = "tty_set" /\ input' = Flushed(input) /\ UNCHANGED << my, fds, ttys >>
     \/ TtyRefused
  /\ UNCHANGED << typed, heap, disk, lost, strayed >>

(* tcsetattr, which may fail.  What is in the queue by now stays there.    *)
TtySet ==
  /\ pc = "tty_set"
  /\ \/ pc' = "tty_write" /\ UNCHANGED << my, fds, ttys, input >>
     \/ TtyRefused
  /\ UNCHANGED << typed, heap, disk, lost, strayed >>

(* The modem may hear it or not; bytes of its answer, or of its own        *)
(* accord, come when they like.                                            *)
TtyWrite ==
  /\ pc = "tty_write"
  /\ pc' = "tty_read"
  /\ UNCHANGED << typed, my, fds, ttys, heap, disk, input, lost, strayed >>

(* When a byte comes: in an earlier session or before the flush of this    *)
(* one, between the flush and the new settings, or after them.             *)
Age == CASE pc = "tty_set" -> "early"
         [] my.test = "cdma" /\ pc \in { "tty_write", "tty_read", "close" } -> "new"
         [] OTHER -> "stale"

(* A byte comes into the queue of the line, if anyone has it open. *)
Arrive ==
  /\ ttys # {} /\ pc # "quit"
  /\ Len(input) < BuffSize
  /\ input' = Append(input, Age)
  /\ UNCHANGED << typed, pc, my, fds, ttys, heap, disk, lost, strayed >>

(* Seeded fault: a select without its six seconds. *)
WaitsForever == FALSE

TimesOut == TRUE

(* tty_read.  After a time-out or a failing read nothing is printed.       *)
TtyTimeout ==
  /\ pc = "tty_read"
  /\ TimesOut \/ input # << >>
  /\ pc' = "close"
  /\ UNCHANGED << typed, my, fds, ttys, heap, disk, input, lost, strayed >>

(* select fails: tty_read returns errno, which CDMA_test takes for a       *)
(* length, and it prints buff, which is empty.                             *)
SelectFails ==
  /\ pc = "tty_read"
  /\ pc' = "close"
  /\ UNCHANGED << typed, my, fds, ttys, heap, disk, input, lost, strayed >>

(* Bytes are read and printed.  The '\0' behind 512 of them is one byte    *)
(* past buff, where the build may have put the low byte of fd.             *)
TtyRead ==
  /\ pc = "tty_read"
  /\ input # << >>
  /\ pc' = "close"
  /\ \E n \in 1 .. Len(input), f \in { my.fd, 0 } :
       /\ f = 0 => n = BuffSize
       /\ my' = [my EXCEPT !.text = SubSeq(input, 1, n), !.fd = f]
       /\ input' = SubSeq(input, n + 1, Len(input))
       /\ lost' = IF f = 0 THEN lost \cup { my.fd } ELSE lost
  /\ UNCHANGED << typed, fds, ttys, heap, disk, strayed >>
------------------------------------------------------------------------------
(* GPIO_test *)

(* The ioctls of at91gpio, as in Pins: only the level to write, kept in    *)
(* the argument and turned at each round, is the program's own.            *)
GpioCtl ==
  /\ pc = "gpio_ctl"
  /\ pc' = "gpio_write"
  /\ my' = [my EXCEPT !.value = 1]
  /\ UNCHANGED << typed, fds, ttys, heap, disk, input, lost, strayed >>

GpioWrite ==
  /\ pc = "gpio_write"
  /\ Round(20, [my EXCEPT !.value = 1 - @])
  /\ UNCHANGED << typed, fds, ttys, heap, disk, input, lost, strayed >>
------------------------------------------------------------------------------
(* What the program does next.  That select fails is nothing to rely on.   *)
Program ==
  \/ Getchar \/ Malloc \/ Open \/ Close
  \/ Ds18b20Ctl \/ Ds18b20Read \/ RtcSet \/ RtcRead \/ AdcRead
  \/ NandWrite \/ NandRead
  \/ TtyInit \/ TtySet \/ TtyWrite \/ TtyTimeout \/ TtyRead
  \/ GpioCtl \/ GpioWrite

Next ==
  \/ Program
  \/ SelectFails \/ Arrive
  \/ \E key \in Key : Type(key)

(* The kernel lets the program run, and every call of a driver returns. *)
Spec == Init /\ [][Next]_vars /\ WF_vars(Program)
------------------------------------------------------------------------------
Ages   == { "stale", "early", "new" }
Bytes  == Seq(Ages)
Locals == [test : Test \cup { "none" }, fd : -1 .. MaxFd, i : 0 .. 20, value : 0 .. 1,
           flashdata : FlashData, garbled : SUBSET (1 .. FlashLen), text : Bytes]

TypeOK ==
  /\ typed \in Seq(Key) /\ Len(typed) <= MaxTyped
  /\ pc \in Pc
  /\ my \in Locals
  /\ fds \in SUBSET (3 .. MaxFd) /\ ttys \in SUBSET fds
  /\ heap \in 0 .. MaxHeap
  /\ disk \in FlashData
  /\ input \in Bytes /\ Len(input) <= BuffSize
  /\ lost \in SUBSET (3 .. MaxFd)
  /\ strayed \in 0 .. MaxHeap

(* At the menu the program holds nothing but what three of its paths       *)
(* leave behind: a failing ioctl of RTC_test, a NAND_FLASH_test that finds *)
(* no device, and a modem that sends 512 bytes (hwtest.c:107, 194, 451).   *)
Tidy ==
  /\ pc = "menu" => fds = lost /\ heap = strayed
  /\ pc \notin { "menu", "quit", "malloc", "open" } => my.fd \in fds \/ my.fd = 0

(* What the flash test prints behind "read after write" is what the flash  *)
(* holds, or 0xff where the read delivered nothing, or what a failing read *)
(* delivered uncorrected: the zeros just written are shown only where they *)
(* arrived (hwtest.c:208, at91flash.c:273-291).                            *)
ShowsStored ==
  pc = "close" /\ my.test = "nand" =>
    \A i \in (1 .. FlashLen) \ my.garbled : my.flashdata[i] \in { disk[i], 255 }

(* What the modem test prints came after its flush: nothing of an earlier  *)
(* session or from before.  It may have come before the new settings       *)
(* (hwtest.c:303-305, 446-455).                                            *)
AnswersShown == my.test = "cdma" => "stale" \notin ToSet(my.text)

(* What the program knows at each call, for the proofs: the test it is in, *)
(* what it holds, the rounds it has made, and what it has read.            *)
CallsOf == [ds18b20 |-> { "ds18b20_ctl", "ds18b20_read" }, rtc |-> { "rtc_set", "rtc_read" },
            adc |-> { "adc_read" }, nand |-> { "malloc", "nand_write", "nand_read" },
            cdma |-> { "tty_init", "tty_set", "tty_write", "tty_read" },
            gpio |-> { "gpio_ctl", "gpio_write" }]

InTest ==
  /\ pc \in { "menu", "quit" } => my = NoTest
  /\ pc \in { "open", "close" } => my.test \in Test
  /\ \A t \in Test : pc \in CallsOf[t] => my.test = t

HasBuffer == my.test = "nand" /\ pc \in { "open", "nand_write", "nand_read" }

Holds ==
  /\ IF pc \in { "menu", "quit", "malloc", "open" } THEN fds = lost
     ELSE \/ my.fd \in (3 .. MaxFd) \ lost /\ fds = lost \cup { my.fd }
          \/ pc = "close" /\ my.fd = 0 /\ fds = lost
  /\ heap = strayed + (IF HasBuffer THEN 1 ELSE 0)

Rounds ==
  /\ pc \in { "ds18b20_read", "rtc_read" } => my.i < 10
  /\ pc = "gpio_write" => my.i < 20
  /\ pc \notin { "ds18b20_read", "rtc_read", "gpio_write", "close" } => my.i = 0

HasRead ==
  /\ pc = "nand_read" => my.flashdata = All(255)
  /\ pc \in { "tty_set", "tty_write", "tty_read" } => "stale" \notin ToSet(input)
  /\ pc # "close" => my.text = << >>

HwInv ==
  /\ TypeOK /\ InTest /\ Holds /\ Rounds /\ HasRead
  /\ ShowsStored /\ AnswersShown

(* A q that has been typed ends the program, whatever was typed before it  *)
(* and whatever the devices and the modem do, or fail to do                *)
(* (hwtest.c:342, 516).                                                    *)
Quits == "q" \in ToSet(typed) ~> pc = "quit"
=============================================================================
