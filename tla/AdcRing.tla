------------------------------- MODULE AdcRing -------------------------------
(***************************************************************************)
(* at91adc/at91adc.c: the timer interrupt fills a ring of samples for each *)
(* channel, and read() averages the whole ring.  Nothing locks the ring:   *)
(* the interrupt can come between any two loads of a read.  The handler    *)
(* itself is not interrupted.                                              *)
(*                                                                         *)
(* Channel i is at91adc_buf[i]: the ADC inputs 0 to 4 and 6 to 11.         *)
(***************************************************************************)
EXTENDS Integers

CONSTANTS
  RingSize,   \* MAX_ADCSAMPLES, 16*1024; also the divisor of >>14
  Channels,   \* the number of channels, 11
  MaxSample,  \* 0x3ff, the largest sample
  Samples,    \* the values the converter delivers
  Word,       \* the width of an unsigned int: values 0 .. Word - 1
  Reader,     \* the processes that read
  MaxTicks,   \* bound on the number of timer interrupts
  MaxReads    \* bound on the number of reads

ASSUME AdcAssumption ==
  /\ RingSize \in Nat \ {0}
  /\ Channels \in Nat \ {0}
  /\ MaxSample \in Nat
  /\ Samples \subseteq 0 .. MaxSample
  /\ Word \in Nat
  /\ RingSize * MaxSample < Word
  /\ MaxTicks \in Nat
  /\ MaxReads \in Nat

Slot    == 0 .. RingSize - 1
Channel == 0 .. Channels - 1

VARIABLES
  ring,    \* at91adc_pbuf0 .. at91adc_pbuf11
  appidx,  \* at91adc_appidx
  pc,      \* where each reader's call is
  j,       \* the loop index of at91adc_read
  ch,      \* the channel whose sum is next
  sum,     \* data_add0 .. data_add11
  out,     \* the user's buffer
  ticks,   \* the number of interrupts so far
  reads    \* the number of reads so far

reader == << pc, j, ch, sum, out, reads >>
adcVars == << ring, appidx, pc, j, ch, sum, out, ticks, reads >>

Zeros == [c \in Channel |-> 0]

(* at91adc_init leaves the rings zeroed and starts the timer. *)
Init ==
  /\ ring = [c \in Channel |-> [s \in Slot |-> 0]]
  /\ appidx = 0
  /\ pc = [r \in Reader |-> "idle"]
  /\ j = [r \in Reader |-> 0]
  /\ ch = [r \in Reader |-> 0]
  /\ sum = [r \in Reader |-> Zeros]
  /\ out = [r \in Reader |-> Zeros]
  /\ ticks = 0
  /\ reads = 0

(* Seeded fault: the index wraps one slot late. *)
WrapLate(i) == IF i + 1 > RingSize THEN 0 ELSE i + 1

(* Seeded fault: the last slot of the ring is never written. *)
WrapEarly(i) == IF i + 1 >= RingSize - 1 THEN 0 ELSE i + 1

(* at91adc_appidx += 1, back to 0 at the end of the ring. *)
NextIndex(i) == IF i + 1 >= RingSize THEN 0 ELSE i + 1

(* at91tc0_isr: store one sample of every channel. *)
Isr(x) ==
  /\ ticks < MaxTicks
  /\ ring' = [c \in Channel |-> [ring[c] EXCEPT ![appidx] = x[c]]]
  /\ appidx' = NextIndex(appidx)
  /\ ticks' = ticks + 1
  /\ UNCHANGED reader

(* Up to the first load of at91adc_read. *)
BeginRead(r) ==
  /\ pc[r] = "idle"
  /\ reads < MaxReads
  /\ reads' = reads + 1
  /\ pc' = [pc EXCEPT ![r] = "sum"]
  /\ j' = [j EXCEPT ![r] = 0]
  /\ ch' = [ch EXCEPT ![r] = 0]
  /\ sum' = [sum EXCEPT ![r] = Zeros]
  /\ UNCHANGED << ring, appidx, out, ticks >>

(* Seeded fault: a sum kept in as many bits as a sample. *)
AddNarrow(a, b) == (a + b) % (MaxSample + 1)

(* The addition of unsigned ints. *)
AddWord(a, b) == (a + b) % Word

(* One "data_add += pbuf[j]" of the loop over the ring. *)
Add(r) ==
  LET last == ch[r] = Channels - 1
      J    == j[r] + 1
  IN
  /\ pc[r] = "sum"
  /\ sum' = [sum EXCEPT ![r][ch[r]] = AddWord(@, ring[ch[r]][j[r]])]
  /\ \/ /\ ~ last
        /\ ch' = [ch EXCEPT ![r] = ch[r] + 1]
        /\ UNCHANGED << j, pc >>
     \/ /\ last
        /\ ch' = [ch EXCEPT ![r] = 0]
        /\ j' = [j EXCEPT ![r] = J]
        /\ pc' = IF J < RingSize THEN pc ELSE [pc EXCEPT ![r] = "copy"]
  /\ UNCHANGED << ring, appidx, out, ticks, reads >>

(* Seeded fault: the shift of a ring half the size (at91adc.c.ch5 had >>10). *)
MeanOfHalf(s) == ((s * 2) \div RingSize) % (MaxSample + 1)

(* data_add >> 14, then & 0x3ff. *)
Mean(s) == (s \div RingSize) % (MaxSample + 1)

(* copy_to_user of the averages; it may fail. *)
CopyOut(r) ==
  /\ pc[r] = "copy"
  /\ pc' = [pc EXCEPT ![r] = "done"]
  /\ \/ out' = [out EXCEPT ![r] = [c \in Channel |-> Mean(sum[r][c])]]
     \/ UNCHANGED out
  /\ UNCHANGED << ring, appidx, j, ch, sum, ticks, reads >>

(* The process goes on with what it read. *)
Resume(r) ==
  /\ pc[r] = "done"
  /\ pc' = [pc EXCEPT ![r] = "idle"]
  /\ sum' = [sum EXCEPT ![r] = Zeros]
  /\ out' = [out EXCEPT ![r] = Zeros]
  /\ j' = [j EXCEPT ![r] = 0]
  /\ UNCHANGED << ring, appidx, ch, ticks, reads >>

Next ==
  \/ \E x \in [Channel -> Samples] : Isr(x)
  \/ \E r \in Reader : BeginRead(r) \/ Add(r) \/ CopyOut(r) \/ Resume(r)

Spec == Init /\ [][Next]_adcVars
------------------------------------------------------------------------------
TypeOK ==
  /\ ring \in [Channel -> [Slot -> 0 .. MaxSample]]
  /\ appidx \in Slot
  /\ pc \in [Reader -> { "idle", "sum", "copy", "done" }]
  /\ j \in [Reader -> 0 .. RingSize]
  /\ ch \in [Reader -> Channel]
  /\ sum \in [Reader -> [Channel -> Nat]]
  /\ out \in [Reader -> [Channel -> 0 .. MaxSample]]
  /\ ticks \in 0 .. MaxTicks
  /\ reads \in 0 .. MaxReads

(* What a reader's sum has been given so far: one sample of each slot up   *)
(* to the loop index.                                                      *)
Added(r, c) == IF c < ch[r] THEN j[r] + 1 ELSE j[r]

(* The reader is in the loop or past it, its place agrees with the loop    *)
(* index, and each sum is at most that of so many full-scale samples: what *)
(* makes 32 bits, the shift and the mask of at91adc.c:271-317 enough.      *)
AdcInv ==
  /\ TypeOK
  /\ \A r \in Reader :
       /\ pc[r] = "sum" => j[r] < RingSize
       /\ pc[r] = "copy" => j[r] = RingSize /\ ch[r] = 0
       /\ \A c \in Channel :
            pc[r] \in { "sum", "copy" } => sum[r][c] <= Added(r, c) * MaxSample
==============================================================================
