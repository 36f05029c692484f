---------------------------- MODULE HwTestProofs ----------------------------
(***************************************************************************)
(* What the hardware test program keeps, for any keys, descriptors,        *)
(* memory, and lengths of the flash and the modem data.                    *)
(***************************************************************************)
EXTENDS HwTest, SequenceTheorems, TLAPS

(* The locals of no test. *)
LEMMA NoTestTyped ==
  /\ NoTest \in Locals
  /\ NoTest.test = "none" /\ NoTest.fd = -1 /\ NoTest.i = 0 /\ NoTest.value = 0
  /\ NoTest.text = << >> /\ NoTest.garbled = {}
  /\ All(-1) \in FlashData /\ All(0) \in FlashData /\ All(255) \in FlashData
  BY HwTestAssumption DEF NoTest, Locals, FlashData, All, Bytes, Test

(* What stays in a queue of bytes, and what is read of it.                 *)
LEMMA Queue ==
  ASSUME NEW s \in Bytes, NEW n \in 1 .. Len(s)
  PROVE  /\ SubSeq(s, 1, n) \in Bytes
         /\ SubSeq(s, n + 1, Len(s)) \in Bytes
         /\ Len(SubSeq(s, n + 1, Len(s))) <= Len(s)
         /\ "stale" \notin ToSet(s) => "stale" \notin ToSet(SubSeq(s, 1, n))
<1>1. s \in Seq(Ages) /\ n \in Nat /\ n <= Len(s) /\ Len(s) \in Nat
  BY DEF Bytes
<1>2. /\ SubSeq(s, 1, n) \in Seq(Ages)
      /\ Len(SubSeq(s, 1, n)) = n
      /\ \A i \in 1 .. n : SubSeq(s, 1, n)[i] = s[i]
  BY <1>1
<1>3. /\ SubSeq(s, n + 1, Len(s)) \in Seq(Ages)
      /\ Len(SubSeq(s, n + 1, Len(s))) <= Len(s)
  BY <1>1
<1>4. "stale" \notin ToSet(s) => "stale" \notin ToSet(SubSeq(s, 1, n))
  BY <1>1, <1>2 DEF ToSet
<1> QED
  BY <1>2, <1>3, <1>4 DEF Bytes

(* A byte that arrives is behind the others. *)
LEMMA Arrived ==
  ASSUME NEW s \in Bytes, NEW b \in Ages
  PROVE  /\ Append(s, b) \in Bytes
         /\ Len(Append(s, b)) = Len(s) + 1
         /\ "stale" \notin ToSet(s) /\ b # "stale" => "stale" \notin ToSet(Append(s, b))
  BY DEF Bytes, ToSet

LEMMA NoBytes ==
  << >> \in Bytes /\ Len(<< >>) = 0 /\ ToSet(<< >>) = {}
  BY DEF Bytes, ToSet

(* What is left in the queue of a session that is over. *)
LEMMA Aged ==
  ASSUME NEW s \in Bytes
  PROVE  /\ [i \in 1 .. Len(s) |-> "stale"] \in Bytes
         /\ Len([i \in 1 .. Len(s) |-> "stale"]) = Len(s)
<1>1. Len(s) \in Nat
  BY DEF Bytes
<1> DEFINE n == Len(s)
           t == [i \in 1 .. n |-> "stale"]
<1> HIDE DEF n
<1>2. n \in Nat
  BY <1>1 DEF n
<1>3. t \in [1 .. n -> Ages]
  BY DEF Ages
<1>4. t \in Seq(Ages)
  BY <1>2, <1>3, IsASeq
<1>5. Len(t) = n
  BY <1>2, <1>3, <1>4
<1> QED
  BY <1>4, <1>5 DEF Bytes, n

(* A call belongs to one test. *)
LEMMA OneTest ==
  ASSUME NEW t \in Test, NEW w \in CallsOf[t]
  PROVE  /\ \A u \in Test : w \in CallsOf[u] => u = t
         /\ w \in Pc \ { "menu", "quit", "open", "close" }
  BY DEF Test, CallsOf, Pc

LEMMA InitHolds == Init => HwInv
  BY NoTestTyped, NoBytes, HwTestAssumption
     DEF Init, HwInv, TypeOK, InTest, Holds, HasBuffer, Rounds, HasRead, ShowsStored,
         AnswersShown, Pc, CallsOf, Test

(* A test that returns, with its descriptor closed or lost and its buffer  *)
(* freed or strayed.                                                       *)
LEMMA ReturnKeeps ==
  ASSUME HwInv, Return,
         UNCHANGED << typed, disk >>,
         lost' \in SUBSET (3 .. MaxFd), fds' = lost', ttys' \in SUBSET fds',
         strayed' \in 0 .. MaxHeap, heap' = strayed',
         input' \in Bytes, Len(input') <= BuffSize
  PROVE  HwInv'
<1>1. pc' = "menu" /\ my' = NoTest
  BY DEF Return
<1>2. TypeOK'
  BY <1>1, NoTestTyped DEF HwInv, TypeOK, Pc
<1>3. InTest' /\ Holds' /\ Rounds' /\ HasRead'
  <2>1. InTest'
    BY <1>1 DEF InTest, CallsOf, Test
  <2>2. Holds'
    BY <1>1, NoTestTyped DEF Holds, HasBuffer
  <2>3. Rounds' /\ HasRead'
    BY <1>1, NoTestTyped DEF Rounds, HasRead
  <2> QED
    BY <2>1, <2>2, <2>3
<1>4. ShowsStored' /\ AnswersShown'
  BY <1>1, NoTestTyped DEF ShowsStored, AnswersShown
<1> QED
  BY <1>2, <1>3, <1>4 DEF HwInv

(* A test that goes on to its next call, or to its close, and changes of   *)
(* its locals what Rounds, HasRead and the two properties say nothing of.  *)
LEMMA GoesOn ==
  ASSUME HwInv, NEW t \in Test, pc \in CallsOf[t] \ { "malloc" },
         pc' \in (CallsOf[t] \ { "malloc" }) \cup { "close" },
         UNCHANGED << typed, fds, ttys, lost, strayed >>,
         my' \in Locals, my'.test = my.test, my'.fd = my.fd,
         heap' = strayed + (IF t = "nand" /\ pc' # "close" THEN 1 ELSE 0), heap' \in 0 .. MaxHeap,
         disk' \in FlashData, input' \in Bytes, Len(input') <= BuffSize,
         Rounds', HasRead', ShowsStored', AnswersShown'
  PROVE  HwInv'
<1>1. /\ my.test = t
      /\ pc \notin { "menu", "quit", "malloc", "open", "close" }
      /\ pc' \in Pc \ { "menu", "quit", "malloc", "open" }
      /\ \A u \in Test : pc' \in CallsOf[u] => u = t
  <2>1. my.test = t
    BY DEF HwInv, InTest
  <2>2. /\ pc \notin { "menu", "quit", "malloc", "open", "close" }
        /\ pc' \in Pc \ { "menu", "quit", "malloc", "open" }
        /\ \A u \in Test : pc' \in CallsOf[u] => u = t
    BY DEF Test, CallsOf, Pc
  <2> QED
    BY <2>1, <2>2
<1>2. TypeOK'
  BY <1>1 DEF HwInv, TypeOK
<1>3. InTest'
  BY <1>1 DEF InTest
<1>4. Holds'
  <2>1. HasBuffer' <=> (t = "nand" /\ pc' # "close")
    BY <1>1 DEF HasBuffer, CallsOf
  <2>2. fds' = lost' \cup { my'.fd } /\ my'.fd \in (3 .. MaxFd) \ lost'
    BY <1>1 DEF HwInv, Holds
  <2> QED
    BY <1>1, <2>1, <2>2 DEF Holds
<1> QED
  BY <1>2, <1>3, <1>4 DEF HwInv

(* What is known at a call of test t. *)
LEMMA AtCall ==
  ASSUME HwInv, NEW t \in Test, pc \in CallsOf[t] \ { "malloc" }
  PROVE  /\ my.test = t /\ my \in Locals
         /\ my.fd \in (3 .. MaxFd) \ lost /\ fds = lost \cup { my.fd }
         /\ heap = strayed + (IF t = "nand" THEN 1 ELSE 0)
         /\ heap \in 0 .. MaxHeap /\ strayed \in 0 .. MaxHeap
         /\ disk \in FlashData /\ input \in Bytes /\ Len(input) <= BuffSize
         /\ lost \in SUBSET (3 .. MaxFd) /\ ttys \in SUBSET fds
         /\ my.text = << >>
<1>1. my.test = t
  BY DEF HwInv, InTest
<1>2. /\ pc \notin { "menu", "quit", "malloc", "open", "close" }
      /\ t = "nand" <=> pc \in { "nand_write", "nand_read" }
  BY DEF Test, CallsOf
<1>3. HasBuffer <=> t = "nand"
  BY <1>1, <1>2 DEF HasBuffer
<1> QED
  BY <1>1, <1>2, <1>3 DEF HwInv, TypeOK, Holds, HasRead

LEMMA TypeKeeps ==
  ASSUME HwInv, NEW key \in Key, Type(key)
  PROVE  HwInv'
<1>1. typed' \in Seq(Key) /\ Len(typed') <= MaxTyped
  BY HwTestAssumption DEF HwInv, TypeOK, Type
<1> QED
  BY <1>1 DEF HwInv, TypeOK, InTest, Holds, HasBuffer, Rounds, HasRead, ShowsStored,
         AnswersShown, Type

LEMMA GetcharKeeps ==
  ASSUME HwInv, Getchar
  PROVE  HwInv'
<1>1. /\ typed' \in Seq(Key) /\ Len(typed') <= MaxTyped
      /\ Head(typed) \in Key
      /\ pc = "menu" /\ my = NoTest
      /\ UNCHANGED << fds, ttys, heap, disk, input, lost, strayed >>
  BY HwTestAssumption DEF HwInv, TypeOK, InTest, Getchar
<1>2. /\ disk \in FlashData /\ input \in Bytes /\ Len(input) <= BuffSize
      /\ fds = lost /\ lost \in SUBSET (3 .. MaxFd) /\ ttys \in SUBSET fds
      /\ heap = strayed /\ heap \in 0 .. MaxHeap /\ strayed \in 0 .. MaxHeap
  BY <1>1 DEF HwInv, TypeOK, Holds, HasBuffer
<1>3. CASE my' = NoTest /\ pc' \in { "menu", "quit" }
  BY <1>1, <1>2, <1>3, NoTestTyped
     DEF HwInv, TypeOK, InTest, Holds, HasBuffer, Rounds, HasRead, ShowsStored,
         AnswersShown, Pc, Test, CallsOf
<1>4. CASE Head(typed) \in Test
  <2> DEFINE t == Head(typed)
  <2>1. /\ pc' = IF t = "nand" THEN "malloc" ELSE "open"
        /\ my' = [NoTest EXCEPT !.test = t]
        /\ t \in Test
    BY <1>4 DEF Getchar, Test
  <2> HIDE DEF t
  <2>2. /\ my' \in Locals /\ my'.test = t /\ my'.fd = -1 /\ my'.i = 0
        /\ my'.text = << >>
    BY <2>1, NoTestTyped DEF Locals
  <2>3. TypeOK'
    BY <1>1, <1>2, <2>1, <2>2 DEF TypeOK, Pc
  <2>4. InTest' /\ Holds'
    BY <1>1, <1>2, <2>1, <2>2 DEF InTest, Holds, HasBuffer, Test, CallsOf
  <2>5. Rounds' /\ HasRead' /\ ShowsStored' /\ AnswersShown'
    BY <2>1, <2>2, NoBytes DEF Rounds, HasRead, ShowsStored, AnswersShown
  <2> QED
    BY <2>3, <2>4, <2>5 DEF HwInv
<1> QED
  BY <1>1, <1>3, <1>4 DEF Getchar

LEMMA OpenKeeps ==
  ASSUME HwInv, Open
  PROVE  HwInv'
<1> DEFINE t == my.test
<1>1. /\ t \in Test /\ pc = "open" /\ my \in Locals /\ my.i = 0 /\ my.text = << >>
      /\ fds = lost /\ lost \in SUBSET (3 .. MaxFd) /\ ttys \in SUBSET fds
      /\ heap = strayed + (IF t = "nand" THEN 1 ELSE 0)
      /\ heap \in 0 .. MaxHeap /\ strayed \in 0 .. MaxHeap
      /\ disk \in FlashData /\ input \in Bytes /\ Len(input) <= BuffSize
      /\ UNCHANGED << typed, heap, disk, input, lost >>
  BY DEF HwInv, TypeOK, InTest, Holds, HasBuffer, Rounds, HasRead, Open
<1>2. ASSUME NEW f \in 3 .. MaxFd, f \notin fds, fds' = fds \cup {f},
             ttys' \in { ttys, ttys \cup {f} },
             my' = [my EXCEPT !.fd = f], pc' = FirstCall[t], UNCHANGED strayed
      PROVE  HwInv'
  <2>1. /\ my' \in Locals /\ my'.test = t /\ my'.fd = f /\ my'.i = 0
        /\ my'.text = << >>
    <3>1. f \in -1 .. MaxFd
      BY HwTestAssumption
    <3> QED
      BY <1>1, <1>2, <3>1 DEF Locals
  <2>2. /\ pc' \in CallsOf[t] /\ pc' \in Pc
        /\ pc' \notin { "menu", "quit", "malloc", "open", "close", "ds18b20_read",
                        "rtc_read", "nand_read", "tty_set", "tty_write", "tty_read",
                        "gpio_write" }
        /\ t = "nand" <=> pc' = "nand_write"
        /\ \A u \in Test : pc' \in CallsOf[u] => u = t
    BY <1>1, <1>2 DEF FirstCall, Test, CallsOf, Pc
  <2>3. TypeOK'
    BY <1>1, <1>2, <2>1, <2>2 DEF HwInv, TypeOK
  <2>4. InTest' /\ Holds'
    BY <1>1, <1>2, <2>1, <2>2 DEF InTest, Holds, HasBuffer
  <2>5. Rounds' /\ HasRead' /\ ShowsStored' /\ AnswersShown'
    BY <1>1, <2>1, <2>2, NoBytes DEF Rounds, HasRead, ShowsStored, AnswersShown
  <2> QED
    BY <2>3, <2>4, <2>5 DEF HwInv
<1>3. CASE /\ Return
           /\ strayed' = IF t = "nand" THEN strayed + 1 ELSE strayed
           /\ UNCHANGED << fds, ttys >>
  BY <1>1, <1>3, ReturnKeeps
<1> QED
  BY <1>2, <1>3 DEF Open

(* Closing a descriptor leaves a queue of bytes. *)
LEMMA CloseFdLeaves ==
  ASSUME input \in Bytes, Len(input) <= BuffSize, ttys \in SUBSET fds, CloseFd
  PROVE  /\ fds' = fds \ { my.fd } /\ ttys' \in SUBSET fds'
         /\ input' \in Bytes /\ Len(input') <= BuffSize
<1>1. /\ fds' = fds \ { my.fd } /\ ttys' = ttys \ { my.fd }
      /\ input' = << >> \/ input' = [i \in 1 .. Len(input) |-> "stale"]
  BY DEF CloseFd
<1>2. input' \in Bytes /\ Len(input') <= BuffSize
  BY <1>1, Aged, NoBytes, HwTestAssumption
<1> QED
  BY <1>1, <1>2

LEMMA CloseKeeps ==
  ASSUME HwInv, Close
  PROVE  HwInv'
<1>1. /\ lost \in SUBSET (3 .. MaxFd)
      /\ heap = strayed /\ strayed \in 0 .. MaxHeap
      /\ input \in Bytes /\ Len(input) <= BuffSize /\ ttys \in SUBSET fds
      /\ fds \ { my.fd } = lost
  BY DEF HwInv, TypeOK, Holds, HasBuffer, Close
<1>2. Return /\ CloseFd /\ UNCHANGED << typed, heap, disk, lost, strayed >>
  BY DEF Close
<1>3. /\ fds' = lost /\ ttys' \in SUBSET fds'
      /\ input' \in Bytes /\ Len(input') <= BuffSize
  BY <1>1, <1>2, CloseFdLeaves
<1> QED
  BY <1>1, <1>2, <1>3, ReturnKeeps

(* Counting a round changes nothing else.                                  *)
LEMMA Counted ==
  ASSUME NEW l \in Locals, NEW i \in 0 .. 20
  PROVE  LET k == [l EXCEPT !.i = i]
         IN  k \in Locals /\ k.i = i /\ k.test = l.test /\ k.fd = l.fd /\ k.text = l.text
  BY DEF Locals

(* A round of a test is made, by which the loop ends or goes on.           *)
LEMMA RoundKeeps ==
  ASSUME HwInv, NEW n \in 1 .. 20, NEW locals \in Locals, Round(n, locals),
         pc \in { "ds18b20_read", "rtc_read", "gpio_write" },
         n = IF pc = "gpio_write" THEN 20 ELSE 10,
         locals.test = my.test, locals.fd = my.fd, locals.i = my.i, locals.text = my.text,
         UNCHANGED << typed, fds, ttys, heap, disk, input, lost, strayed >>
  PROVE  HwInv'
<1>1. PICK t \in Test : pc \in CallsOf[t] \ { "malloc" } /\ t \notin { "nand", "cdma" }
  BY DEF Test, CallsOf
<1>2. /\ my.test = t /\ my \in Locals /\ my.text = << >>
      /\ my.i \in 0 .. 20 /\ my.i < n
      /\ heap = strayed + 0 /\ heap \in 0 .. MaxHeap
      /\ disk \in FlashData /\ input \in Bytes /\ Len(input) <= BuffSize
  BY <1>1, AtCall DEF HwInv, Rounds, Locals
<1>3. my.i + 1 \in 0 .. 20 /\ my.i + 1 <= n
  <2>1. ASSUME NEW i \in 0 .. 20, NEW m \in 1 .. 20, i < m
        PROVE  i + 1 \in 0 .. 20 /\ i + 1 <= m
    BY <2>1
  <2> QED
    BY <1>2, <2>1, Zenon
<1>4. /\ my' \in Locals /\ my'.test = t /\ my'.fd = my.fd /\ my'.i = my.i + 1
      /\ my'.text = << >>
  <2>1. /\ locals.test = t /\ locals.fd = my.fd /\ locals.i = my.i
        /\ locals.text = << >>
    BY <1>2
  <2>2. my' = [locals EXCEPT !.i = my.i + 1]
    BY <2>1 DEF Round
  <2> QED
    BY <1>2, <1>3, <2>1, <2>2, Counted
<1>5. pc' = IF my.i + 1 = n THEN "close" ELSE pc
  BY DEF Round
<1>6. Rounds'
  <2>1. CASE my.i + 1 = n
    <3>1. pc' = "close"
      BY <1>5, <2>1
    <3> QED
      BY <3>1 DEF Rounds
  <2>2. CASE my.i + 1 # n
    <3>1. my.i + 1 < n
      BY <1>3, <2>2
    <3>2. my'.i < n /\ pc' = pc
      BY <1>4, <1>5, <2>2, <3>1
    <3> QED
      BY <3>2 DEF Rounds
  <2> QED
    BY <2>1, <2>2
<1>7. HasRead' /\ ShowsStored' /\ AnswersShown'
  <2>1. pc' \notin { "nand_read", "tty_set", "tty_write", "tty_read" }
    BY <1>5
  <2>2. HasRead'
    BY <1>4, <2>1 DEF HasRead
  <2>3. my'.test \notin { "nand", "cdma" }
    BY <1>1, <1>4
  <2>4. ShowsStored' /\ AnswersShown'
    BY <2>3 DEF ShowsStored, AnswersShown
  <2> QED
    BY <2>2, <2>4
<1>8. pc' \in (CallsOf[t] \ { "malloc" }) \cup { "close" }
  BY <1>1, <1>5
<1> QED
  BY <1>1, <1>2, <1>4, <1>6, <1>7, <1>8, GoesOn

(* The tests whose calls leave the locals alone. *)
LEMMA DevicesKeep ==
  ASSUME HwInv, Ds18b20Ctl \/ AdcRead \/ (RtcSet /\ pc' = "rtc_read")
  PROVE  HwInv'
<1>1. PICK t \in { "ds18b20", "adc", "rtc" } :
        /\ pc \in CallsOf[t] \ { "malloc" }
        /\ pc \in { "ds18b20_ctl", "adc_read", "rtc_set" }
        /\ pc' \in (CallsOf[t] \ { "malloc" }) \cup { "close" }
        /\ pc' \in { "ds18b20_read", "rtc_read", "close" }
  BY DEF Ds18b20Ctl, AdcRead, RtcSet, CallsOf
<1>2. UNCHANGED << typed, my, fds, ttys, heap, disk, input, lost, strayed >>
  BY DEF Ds18b20Ctl, AdcRead, RtcSet, ReturnOpen, Return
<1>3. t \in Test /\ t \notin { "nand", "cdma" }
  BY DEF Test
<1>4. /\ my.test = t /\ my \in Locals /\ my.text = << >> /\ my.i = 0
      /\ heap = strayed + 0 /\ heap \in 0 .. MaxHeap
      /\ disk \in FlashData /\ input \in Bytes /\ Len(input) <= BuffSize
  BY <1>1, <1>3, AtCall DEF HwInv, Rounds
<1>5. Rounds'
  BY <1>1, <1>2, <1>4 DEF Rounds
<1>6. HasRead' /\ ShowsStored' /\ AnswersShown'
  BY <1>1, <1>2, <1>3, <1>4, NoBytes DEF HasRead, ShowsStored, AnswersShown
<1> QED
  BY <1>1, <1>2, <1>3, <1>4, <1>5, <1>6, GoesOn

(* An ioctl of RTC_test fails. *)
LEMMA RtcFails ==
  ASSUME HwInv, pc \in { "rtc_set", "rtc_read" }, ReturnOpen,
         UNCHANGED << typed, heap, disk, input, strayed >>
  PROVE  HwInv'
<1>1. "rtc" \in Test /\ pc \in CallsOf["rtc"] \ { "malloc" } /\ "rtc" # "nand"
  BY DEF Test, CallsOf
<1>2. /\ my.fd \in 3 .. MaxFd /\ fds = lost \cup { my.fd }
      /\ heap = strayed /\ strayed \in 0 .. MaxHeap
      /\ lost \in SUBSET (3 .. MaxFd) /\ ttys \in SUBSET fds
      /\ input \in Bytes /\ Len(input) <= BuffSize
  BY <1>1, AtCall
<1>3. Return /\ lost' = lost \cup { my.fd } /\ fds' = fds /\ ttys' = ttys
  BY DEF ReturnOpen
<1> QED
  BY <1>2, <1>3, ReturnKeeps

LEMMA RtcSetKeeps == ASSUME HwInv, RtcSet PROVE HwInv'
  BY DevicesKeep, RtcFails DEF RtcSet

LEMMA RtcReadKeeps ==
  ASSUME HwInv, RtcRead
  PROVE  HwInv'
<1>1. CASE Round(10, my) /\ UNCHANGED << fds, ttys, lost >>
  <2>1. my \in Locals
    BY DEF HwInv, TypeOK
  <2> QED
    BY <1>1, <2>1, RoundKeeps DEF RtcRead
<1>2. CASE ReturnOpen
  BY <1>2, RtcFails DEF RtcRead
<1> QED
  BY <1>1, <1>2 DEF RtcRead

LEMMA Ds18b20ReadKeeps ==
  ASSUME HwInv, Ds18b20Read
  PROVE  HwInv'
<1>1. my \in Locals
  BY DEF HwInv, TypeOK
<1> QED
  BY <1>1, RoundKeeps DEF Ds18b20Read

LEMMA GpioWriteKeeps ==
  ASSUME HwInv, GpioWrite
  PROVE  HwInv'
<1> DEFINE v == 1 - my.value
           locals == [my EXCEPT !.value = v]
<1>1. my \in Locals
  BY DEF HwInv, TypeOK
<1>2. v \in 0 .. 1
  BY <1>1 DEF Locals
<1>3. Round(20, locals)
  BY DEF GpioWrite
<1> HIDE DEF v
<1>4. locals \in Locals
  BY <1>1, <1>2 DEF Locals
<1>5. locals.test = my.test /\ locals.fd = my.fd /\ locals.i = my.i /\ locals.text = my.text
  BY <1>1 DEF Locals
<1> HIDE DEF locals
<1> QED
  BY <1>3, <1>4, <1>5, RoundKeeps DEF GpioWrite

LEMMA GpioCtlKeeps ==
  ASSUME HwInv, GpioCtl
  PROVE  HwInv'
<1>1. /\ "gpio" \in Test /\ "gpio" \notin { "nand", "cdma" }
      /\ pc \in CallsOf["gpio"] \ { "malloc" }
      /\ pc' \in (CallsOf["gpio"] \ { "malloc" }) \cup { "close" }
      /\ pc = "gpio_ctl" /\ pc' = "gpio_write"
      /\ UNCHANGED << typed, fds, ttys, heap, disk, input, lost, strayed >>
  BY DEF GpioCtl, Test, CallsOf
<1>2. /\ my.test = "gpio" /\ my \in Locals /\ my.text = << >> /\ my.i = 0
      /\ heap = strayed + 0 /\ heap \in 0 .. MaxHeap
      /\ disk \in FlashData /\ input \in Bytes /\ Len(input) <= BuffSize
  BY <1>1, AtCall DEF HwInv, Rounds
<1>3. /\ my' \in Locals /\ my'.test = "gpio" /\ my'.fd = my.fd /\ my'.i = 0
      /\ my'.text = << >>
  <2>1. my' = [my EXCEPT !.value = 1]
    BY DEF GpioCtl
  <2>2. my' \in Locals
    BY <1>2, <2>1 DEF Locals
  <2>3. my'.test = my.test /\ my'.fd = my.fd /\ my'.i = my.i /\ my'.text = my.text
    BY <1>2, <2>1 DEF Locals
  <2> QED
    BY <1>2, <2>2, <2>3
<1>4. Rounds' /\ HasRead' /\ ShowsStored' /\ AnswersShown'
  <2>1. Rounds'
    BY <1>1, <1>3 DEF Rounds
  <2>2. HasRead'
    BY <1>1, <1>3 DEF HasRead
  <2>3. ShowsStored' /\ AnswersShown'
    BY <1>3 DEF ShowsStored, AnswersShown
  <2> QED
    BY <2>1, <2>2, <2>3
<1> QED
  BY <1>1, <1>2, <1>3, <1>4, GoesOn

LEMMA MallocKeeps ==
  ASSUME HwInv, Malloc
  PROVE  HwInv'
<1>1. /\ pc = "malloc" /\ my.test = "nand" /\ my \in Locals /\ my.i = 0 /\ my.text = << >>
      /\ fds = lost /\ lost \in SUBSET (3 .. MaxFd) /\ ttys \in SUBSET fds
      /\ heap = strayed /\ heap \in 0 .. MaxHeap
      /\ disk \in FlashData /\ input \in Bytes /\ Len(input) <= BuffSize
      /\ UNCHANGED << typed, fds, ttys, disk, input, lost, strayed >>
  BY DEF HwInv, TypeOK, InTest, Holds, HasBuffer, Rounds, HasRead, CallsOf, Test, Malloc
<1>2. CASE heap < MaxHeap /\ pc' = "open" /\ heap' = heap + 1
           /\ my' = [my EXCEPT !.flashdata = All(0)]
  <2>1. /\ my' \in Locals /\ my'.test = "nand" /\ my'.i = 0 /\ my'.text = << >>
    BY <1>1, <1>2, NoTestTyped DEF Locals
  <2>2. heap' \in 0 .. MaxHeap
    BY <1>1, <1>2, HwTestAssumption
  <2>3. TypeOK'
    BY <1>1, <1>2, <2>1, <2>2 DEF HwInv, TypeOK, Pc
  <2>4. InTest' /\ Holds'
    BY <1>1, <1>2, <2>1 DEF InTest, Holds, HasBuffer, CallsOf, Test
  <2>5. Rounds' /\ HasRead' /\ ShowsStored' /\ AnswersShown'
    BY <1>2, <2>1, NoBytes DEF Rounds, HasRead, ShowsStored, AnswersShown
  <2> QED
    BY <2>3, <2>4, <2>5 DEF HwInv
<1>3. CASE Return /\ UNCHANGED heap
  BY <1>1, <1>3, ReturnKeeps
<1> QED
  BY <1>2, <1>3 DEF Malloc

(* What becomes of the buffer changes no other of the locals. *)
LEMMA Refilled ==
  ASSUME NEW l \in Locals, NEW d \in FlashData
  PROVE  LET k == [l EXCEPT !.flashdata = d]
         IN  /\ k \in Locals
             /\ k.test = l.test /\ k.fd = l.fd /\ k.i = l.i /\ k.text = l.text
             /\ k.flashdata = d
<1> DEFINE k == [l EXCEPT !.flashdata = d]
<1>1. k \in Locals
  BY DEF Locals
<1>2. k.test = l.test /\ k.fd = l.fd /\ k.i = l.i /\ k.text = l.text /\ k.flashdata = d
  BY DEF Locals
<1> QED
  BY <1>1, <1>2

LEMMA NandWriteKeeps ==
  ASSUME HwInv, NandWrite
  PROVE  HwInv'
<1>1. /\ "nand" \in Test /\ pc \in CallsOf["nand"] \ { "malloc" }
      /\ pc' \in (CallsOf["nand"] \ { "malloc" }) \cup { "close" }
      /\ pc = "nand_write" /\ pc' = "nand_read"
      /\ UNCHANGED << typed, fds, ttys, heap, input, lost, strayed >>
  BY DEF NandWrite, Test, CallsOf
<1>2. /\ my.test = "nand" /\ my \in Locals /\ my.text = << >> /\ my.i = 0
      /\ heap = strayed + 1 /\ heap \in 0 .. MaxHeap
      /\ disk \in FlashData /\ input \in Bytes /\ Len(input) <= BuffSize
  BY <1>1, AtCall DEF HwInv, Rounds
<1>3. /\ my' \in Locals /\ my'.test = "nand" /\ my'.fd = my.fd /\ my'.i = 0
      /\ my'.text = << >> /\ my'.flashdata = All(255)
  BY <1>2, NoTestTyped, Refilled DEF NandWrite, Overwritten
<1>4. disk' \in FlashData
  BY DEF NandWrite
<1>5. Rounds' /\ HasRead' /\ ShowsStored' /\ AnswersShown'
  BY <1>1, <1>3, NoBytes DEF Rounds, HasRead, ShowsStored, AnswersShown
<1> QED
  BY <1>1, <1>2, <1>3, <1>4, <1>5, GoesOn

LEMMA NandReadKeeps ==
  ASSUME HwInv, NandRead
  PROVE  HwInv'
<1>1. /\ "nand" \in Test /\ pc \in CallsOf["nand"] \ { "malloc" }
      /\ pc = "nand_read" /\ pc' = "close" /\ heap' = heap - 1
      /\ UNCHANGED << typed, fds, ttys, disk, input, lost, strayed >>
  BY DEF NandRead, Test, CallsOf
<1>2. /\ my.test = "nand" /\ my \in Locals /\ my.text = << >>
      /\ my.flashdata = All(255)
      /\ heap = strayed + 1 /\ heap \in 0 .. MaxHeap /\ strayed \in 0 .. MaxHeap
      /\ disk \in FlashData /\ input \in Bytes /\ Len(input) <= BuffSize
  BY <1>1, AtCall DEF HwInv, HasRead
<1>3. PICK n \in 0 .. FlashLen :
        \E garbled \in SUBSET (1 .. n), junk \in FlashData :
          my' = [my EXCEPT !.garbled = garbled, !.flashdata =
                   [i \in 1 .. FlashLen |->
                      IF i \in garbled THEN junk[i] ELSE IF i <= n THEN disk[i] ELSE @[i]]]
  BY DEF NandRead
<1>4. PICK garbled \in SUBSET (1 .. n), junk \in FlashData :
         my' = [my EXCEPT !.garbled = garbled, !.flashdata =
                  [i \in 1 .. FlashLen |->
                     IF i \in garbled THEN junk[i] ELSE IF i <= n THEN disk[i] ELSE @[i]]]
  BY <1>3
<1> DEFINE read == [i \in 1 .. FlashLen |->
                      IF i \in garbled THEN junk[i]
                      ELSE IF i <= n THEN disk[i] ELSE my.flashdata[i]]
<1>5. /\ read \in FlashData
      /\ \A i \in (1 .. FlashLen) \ garbled : read[i] \in { disk[i], 255 }
  BY <1>2 DEF FlashData, All
<1>6. my' = [my EXCEPT !.garbled = garbled, !.flashdata = read]
  BY <1>4
<1>7. garbled \in SUBSET (1 .. FlashLen)
  <2>1. \A i \in 1 .. n : i \in 1 .. FlashLen
    BY HwTestAssumption
  <2> QED
    BY <2>1
<1> HIDE DEF read
<1>8. /\ my' \in Locals /\ my'.test = "nand" /\ my'.fd = my.fd /\ my'.flashdata = read
      /\ my'.text = << >> /\ my'.garbled = garbled
  <2>1. my \in Locals /\ read \in FlashData /\ garbled \in SUBSET (1 .. FlashLen)
    BY <1>2, <1>5, <1>7
  <2>2. my' \in Locals
    BY <1>6, <2>1 DEF Locals
  <2>3. my'.test = my.test /\ my'.fd = my.fd /\ my'.text = my.text
    BY <1>6, <2>1 DEF Locals
  <2>4. my'.flashdata = read /\ my'.garbled = garbled
    BY <1>6, <2>1 DEF Locals
  <2> QED
    BY <1>2, <2>2, <2>3, <2>4
<1>9. Rounds' /\ HasRead' /\ ShowsStored' /\ AnswersShown'
  BY <1>1, <1>5, <1>8 DEF Rounds, HasRead, ShowsStored, AnswersShown
<1>10. heap' = strayed + 0 /\ heap' \in 0 .. MaxHeap
  BY <1>1, <1>2
<1> QED
  BY <1>1, <1>2, <1>8, <1>9, <1>10, GoesOn

(* The port cannot be set up. *)
LEMMA TtyRefusedKeeps ==
  ASSUME HwInv, pc \in { "tty_init", "tty_set" }, TtyRefused,
         UNCHANGED << typed, heap, disk, lost, strayed >>
  PROVE  HwInv'
<1>1. "cdma" \in Test /\ pc \in CallsOf["cdma"] \ { "malloc" } /\ "cdma" # "nand"
  BY DEF Test, CallsOf
<1>2. /\ my.fd \in (3 .. MaxFd) \ lost /\ fds = lost \cup { my.fd }
      /\ lost \in SUBSET (3 .. MaxFd) /\ ttys \in SUBSET fds
      /\ heap = strayed /\ strayed \in 0 .. MaxHeap
      /\ input \in Bytes /\ Len(input) <= BuffSize
  BY <1>1, AtCall
<1>3. Return /\ CloseFd
  BY DEF TtyRefused
<1>4. /\ fds' = lost /\ ttys' \in SUBSET fds'
      /\ input' \in Bytes /\ Len(input') <= BuffSize
  BY <1>2, <1>3, CloseFdLeaves
<1> QED
  BY <1>2, <1>3, <1>4, ReturnKeeps

LEMMA TtyInitKeeps ==
  ASSUME HwInv, TtyInit
  PROVE  HwInv'
<1>1. /\ "cdma" \in Test /\ pc \in CallsOf["cdma"] \ { "malloc" } /\ "cdma" # "nand"
      /\ pc = "tty_init"
      /\ UNCHANGED << typed, heap, disk, lost, strayed >>
  BY DEF TtyInit, Test, CallsOf
<1>2. /\ my.test = "cdma" /\ my \in Locals /\ my.text = << >> /\ my.i = 0
      /\ heap = strayed + 0 /\ heap \in 0 .. MaxHeap /\ disk \in FlashData
  BY <1>1, AtCall DEF HwInv, Rounds
<1>3. << >> \in Bytes /\ Len(<< >>) <= BuffSize
  BY NoBytes, HwTestAssumption
<1>4. CASE pc' = "tty_set" /\ input' = Flushed(input) /\ UNCHANGED << my, fds, ttys >>
  <2>1. input' = << >>
    BY <1>4 DEF Flushed
  <2>2. pc' \in (CallsOf["cdma"] \ { "malloc" }) \cup { "close" }
    BY <1>4 DEF CallsOf
  <2>3. Rounds' /\ HasRead' /\ ShowsStored' /\ AnswersShown'
    BY <1>2, <1>4, <2>1, NoBytes DEF Rounds, HasRead, ShowsStored, AnswersShown
  <2> QED
    BY <1>1, <1>2, <1>3, <1>4, <2>1, <2>2, <2>3, GoesOn
<1>5. CASE TtyRefused
  BY <1>1, <1>5, TtyRefusedKeeps
<1> QED
  BY <1>4, <1>5 DEF TtyInit

(* The calls on the modem that leave the queue alone. *)
LEMMA TtyKeeps ==
  ASSUME HwInv, \/ TtyWrite \/ TtyTimeout \/ SelectFails
                \/ TtySet /\ pc' = "tty_write" /\ UNCHANGED << my, fds, ttys, input >>
  PROVE  HwInv'
<1>1. /\ "cdma" \in Test /\ pc \in CallsOf["cdma"] \ { "malloc" } /\ "cdma" # "nand"
      /\ pc' \in (CallsOf["cdma"] \ { "malloc" }) \cup { "close" }
      /\ pc \in { "tty_set", "tty_write", "tty_read" }
      /\ pc' \in { "tty_write", "tty_read", "close" }
      /\ UNCHANGED << typed, my, fds, ttys, heap, disk, input, lost, strayed >>
  BY DEF TtySet, TtyWrite, TtyTimeout, SelectFails, Test, CallsOf
<1>2. /\ my.test = "cdma" /\ my \in Locals /\ my.text = << >>
      /\ heap = strayed + 0 /\ heap \in 0 .. MaxHeap
      /\ disk \in FlashData /\ input \in Bytes /\ Len(input) <= BuffSize
  BY <1>1, AtCall
<1>3. Rounds' /\ HasRead' /\ ShowsStored' /\ AnswersShown'
  BY <1>1, <1>2, NoBytes DEF HwInv, Rounds, HasRead, ShowsStored, AnswersShown
<1> QED
  BY <1>1, <1>2, <1>3, GoesOn

LEMMA TtySetKeeps ==
  ASSUME HwInv, TtySet
  PROVE  HwInv'
<1>1. CASE pc' = "tty_write" /\ UNCHANGED << my, fds, ttys, input >>
  BY <1>1, TtyKeeps DEF TtySet
<1>2. CASE TtyRefused
  BY <1>2, TtyRefusedKeeps DEF TtySet
<1> QED
  BY <1>1, <1>2 DEF TtySet

LEMMA ArriveKeeps ==
  ASSUME HwInv, Arrive
  PROVE  HwInv'
<1>1. /\ Len(input) < BuffSize /\ input' = Append(input, Age)
      /\ UNCHANGED << typed, pc, my, fds, ttys, heap, disk, lost, strayed >>
      /\ input \in Bytes
  BY DEF Arrive, HwInv, TypeOK
<1>2. /\ Age \in Ages
      /\ pc \in { "tty_set", "tty_write", "tty_read" } => Age # "stale"
  <2>1. pc \in { "tty_set", "tty_write", "tty_read" } => my.test = "cdma"
    BY DEF HwInv, InTest, CallsOf, Test
  <2> QED
    BY <2>1 DEF Age, Ages
<1> DEFINE b == Age
<1> HIDE DEF b
<1>3. /\ input' \in Bytes /\ Len(input') = Len(input) + 1
      /\ "stale" \notin ToSet(input) /\ b # "stale" => "stale" \notin ToSet(input')
  BY <1>1, <1>2, Arrived DEF b
<1>4. Len(input') <= BuffSize
  BY <1>1, <1>3, HwTestAssumption DEF Bytes
<1>5. TypeOK'
  BY <1>1, <1>3, <1>4 DEF HwInv, TypeOK
<1>6. HasRead'
  BY <1>1, <1>2, <1>3 DEF HwInv, HasRead, b
<1>7. InTest' /\ Holds' /\ Rounds' /\ ShowsStored' /\ AnswersShown'
  BY <1>1 DEF HwInv, InTest, Holds, HasBuffer, Rounds, ShowsStored, AnswersShown
<1> QED
  BY <1>5, <1>6, <1>7 DEF HwInv

(* The read, and the byte behind buff that it may put on the descriptor.   *)
LEMMA TtyReadKeeps ==
  ASSUME HwInv, TtyRead
  PROVE  HwInv'
<1>1. /\ "cdma" \in Test /\ pc \in CallsOf["cdma"] \ { "malloc" } /\ "cdma" # "nand"
      /\ pc = "tty_read" /\ pc' = "close"
      /\ UNCHANGED << typed, fds, ttys, heap, disk, strayed >>
  BY DEF TtyRead, Test, CallsOf
<1>2. /\ my.test = "cdma" /\ my \in Locals
      /\ my.fd \in (3 .. MaxFd) \ lost /\ fds = lost \cup { my.fd }
      /\ lost \in SUBSET (3 .. MaxFd)
      /\ heap = strayed /\ heap \in 0 .. MaxHeap
      /\ disk \in FlashData /\ input \in Bytes /\ Len(input) <= BuffSize
      /\ "stale" \notin ToSet(input) /\ ttys \in SUBSET fds
  BY <1>1, AtCall DEF HwInv, HasRead
<1>3. PICK n \in 1 .. Len(input), f \in { my.fd, 0 } :
        /\ my' = [my EXCEPT !.text = SubSeq(input, 1, n), !.fd = f]
        /\ input' = SubSeq(input, n + 1, Len(input))
        /\ lost' = IF f = 0 THEN lost \cup { my.fd } ELSE lost
  BY DEF TtyRead
<1> DEFINE text == SubSeq(input, 1, n)
<1>4. /\ text \in Bytes /\ "stale" \notin ToSet(text)
      /\ input' \in Bytes /\ Len(input') <= Len(input)
  BY <1>2, <1>3, Queue
<1> HIDE DEF text
<1>5. f \in -1 .. MaxFd
  BY <1>2, HwTestAssumption
<1>6. /\ my' \in Locals /\ my'.test = "cdma" /\ my'.fd = f /\ my'.text = text
  BY <1>2, <1>3, <1>4, <1>5 DEF Locals, text
<1>7. Len(input') <= BuffSize
  BY <1>2, <1>4, HwTestAssumption DEF Bytes
<1>8. TypeOK'
  BY <1>1, <1>2, <1>3, <1>4, <1>6, <1>7 DEF HwInv, TypeOK, Pc
<1>9. InTest'
  BY <1>1, <1>6 DEF InTest, CallsOf, Test
<1>10. Holds'
  BY <1>1, <1>2, <1>3, <1>6 DEF Holds, HasBuffer
<1>11. Rounds' /\ HasRead' /\ ShowsStored' /\ AnswersShown'
  BY <1>1, <1>4, <1>6 DEF Rounds, HasRead, ShowsStored, AnswersShown
<1> QED
  BY <1>8, <1>9, <1>10, <1>11 DEF HwInv

LEMMA HwStep == HwInv /\ [Next]_vars => HwInv'
<1> SUFFICES ASSUME HwInv, [Next]_vars PROVE HwInv'
  OBVIOUS
<1>1. CASE Program
  BY <1>1, GetcharKeeps, MallocKeeps, OpenKeeps, CloseKeeps, DevicesKeep, Ds18b20ReadKeeps,
     RtcSetKeeps, RtcReadKeeps, NandWriteKeeps, NandReadKeeps, TtyInitKeeps, TtySetKeeps,
     TtyKeeps, TtyReadKeeps, GpioCtlKeeps, GpioWriteKeeps DEF Program
<1>2. CASE SelectFails \/ Arrive
  BY <1>2, TtyKeeps, ArriveKeeps
<1>3. CASE \E key \in Key : Type(key)
  BY <1>3, TypeKeeps
<1>4. CASE UNCHANGED vars
  BY <1>4 DEF vars, HwInv, TypeOK, InTest, Holds, HasBuffer, Rounds, HasRead,
              ShowsStored, AnswersShown
<1> QED
  BY <1>1, <1>2, <1>3, <1>4 DEF Next
------------------------------------------------------------------------------
(* At each call the program is in the test the call belongs to, holds the  *)
(* descriptor and the buffer of that test and no other but what it has     *)
(* lost, has made fewer rounds than its loops allow, and reads no byte     *)
(* that came before its flush (hwtest.c:36-560), for any keys, devices and *)
(* sizes.                                                                  *)
THEOREM HwInvariant == Spec => []HwInv
<1> QED
  BY InitHolds, HwStep, PTL DEF Spec

(* At the menu the program holds nothing but what three of its paths leave *)
(* behind (hwtest.c:107, 194, 451).                                        *)
THEOREM TidyHolds == Spec => []Tidy
<1>1. HwInv => Tidy
  BY DEF HwInv, TypeOK, Holds, HasBuffer, Tidy
<1> QED
  BY <1>1, HwInvariant, PTL

(* What the flash test prints is what the flash holds, or 0xff where the   *)
(* read delivered nothing, or what a failing read delivered uncorrected;   *)
(* never what is left of the write (hwtest.c:189-216).                     *)
THEOREM ShowsStoredHolds == Spec => []ShowsStored
<1>1. HwInv => ShowsStored
  BY DEF HwInv
<1> QED
  BY <1>1, HwInvariant, PTL

(* What the modem test prints came after the flush of tty_init, though     *)
(* perhaps before its new settings (hwtest.c:303-305, 446-455).            *)
THEOREM AnswersShownHolds == Spec => []AnswersShown
<1>1. HwInv => AnswersShown
  BY DEF HwInv
<1> QED
  BY <1>1, HwInvariant, PTL
=============================================================================
