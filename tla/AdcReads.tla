------------------------------ MODULE AdcReads ------------------------------
(***************************************************************************)
(* Which samples a read of the ADC averages: AdcRing with the samples      *)
(* numbered, the k-th interrupt storing sample k.                          *)
(***************************************************************************)
EXTENDS AdcRing, FiniteSets

VARIABLES
  stamp,   \* history: the number of the sample in each slot, 0 for none
  exact,   \* history: what each sum of a reader would be without overflow
  used,    \* history: the numbers of the samples in each sum of a reader
  since,   \* history: the number of samples taken when the read began
  last,    \* history: the latest sample of each channel
  steady   \* history: how many samples in a row have had that value

hist == << stamp, exact, used, since, last, steady >>
readVars == << adcVars, hist >>

None == [c \in Channel |-> {}]

HInit ==
  /\ Init
  /\ stamp = [s \in Slot |-> 0]
  /\ exact = [r \in Reader |-> Zeros]
  /\ used = [r \in Reader |-> None]
  /\ since = [r \in Reader |-> 0]
  /\ last = Zeros
  /\ steady = [c \in Channel |-> 0]

HIsr(x) ==
  /\ Isr(x)
  /\ stamp' = [stamp EXCEPT ![appidx] = ticks + 1]
  /\ last' = x
  /\ steady' = [c \in Channel |-> IF x[c] = last[c] THEN steady[c] + 1 ELSE 1]
  /\ UNCHANGED << exact, used, since >>

HBegin(r) ==
  /\ BeginRead(r)
  /\ exact' = [exact EXCEPT ![r] = Zeros]
  /\ used' = [used EXCEPT ![r] = None]
  /\ since' = [since EXCEPT ![r] = ticks]
  /\ UNCHANGED << stamp, last, steady >>

HAdd(r) ==
  /\ Add(r)
  /\ exact' = [exact EXCEPT ![r][ch[r]] = @ + ring[ch[r]][j[r]]]
  /\ used' = [used EXCEPT ![r][ch[r]] = @ \cup { stamp[j[r]] }]
  /\ UNCHANGED << stamp, since, last, steady >>

HResume(r) ==
  /\ Resume(r)
  /\ exact' = [exact EXCEPT ![r] = Zeros]
  /\ used' = [used EXCEPT ![r] = None]
  /\ since' = [since EXCEPT ![r] = 0]
  /\ UNCHANGED << stamp, last, steady >>

HNext ==
  \/ \E x \in [Channel -> Samples] : HIsr(x)
  \/ \E r \in Reader :
       \/ HBegin(r) \/ HAdd(r) \/ HResume(r)
       \/ CopyOut(r) /\ UNCHANGED hist

HSpec == HInit /\ [][HNext]_readVars
------------------------------------------------------------------------------
(* The ring holds the newest samples, each where the read looks for it:    *)
(* nothing is lost or kept too long at the wrap of the index.              *)
LatestKept ==
  { stamp[s] : s \in Slot } \ {0} =
    { t \in 1 .. ticks : t > ticks - RingSize }

(* The sums are the sums: however interrupts and loads interleave, the     *)
(* 32 bits, the shift and the mask of at91adc.c:271-317 cut nothing off.   *)
SumsExact ==
  \A r \in Reader, c \in Channel :
    /\ sum[r][c] = exact[r][c]
    /\ pc[r] = "copy" => Mean(sum[r][c]) = exact[r][c] \div RingSize

(* A read averages RingSize different samples of each channel, none older  *)
(* than the ring was when the read began, if the ring was full by then;    *)
(* the interrupts that come during the read never make it use a slot       *)
(* twice or leave one out.                                                 *)
ReadsRecent ==
  \A r \in Reader, c \in Channel :
    (pc[r] = "copy" /\ since[r] >= RingSize) =>
      /\ Cardinality(used[r][c]) = RingSize
      /\ \A t \in used[r][c] : t > since[r] - RingSize /\ t <= ticks

(* An input that has been steady since before the oldest sample of the     *)
(* ring reads as itself (at91adc.c:271-317): averaging takes nothing away. *)
SteadyReadsItself ==
  \A r \in Reader, c \in Channel :
    (pc[r] = "copy" /\ steady[c] >= RingSize + (ticks - since[r])) =>
      Mean(sum[r][c]) = last[c]

(* "Allocate to be at least 5 x bigger so that ISR will never catch up     *)
(* with reading" (at91adc.c:72): a read uses only samples taken before it  *)
(* began.  The read walks the whole ring, so the interrupt does catch up.  *)
NeverCaughtUp ==
  \A r \in Reader, c \in Channel :
    \A t \in used[r][c] : t <= since[r]
==============================================================================
