--------------------------- MODULE AdcReadsProofs ---------------------------
(***************************************************************************)
(* Proofs about AdcRing and AdcReads, for every ring size, number of       *)
(* channels, sample width and order of interrupts and loads: the variables *)
(* keep their types, the sums stay within a bound and never overflow, the  *)
(* ring holds the newest samples, a read uses one recent sample of each    *)
(* slot, and a steady input reads as itself.                               *)
(***************************************************************************)
EXTENDS AdcReads, FiniteSetTheorems, TLAPS

LEMMA Constants ==
  /\ RingSize \in Nat /\ RingSize > 0
  /\ Channels \in Nat /\ Channels > 0
  /\ MaxSample \in Nat
  /\ Word \in Nat
  /\ 0 \in Slot /\ 0 \in Channel
  BY AdcAssumption DEF Slot, Channel

(* A product grows with its factor. *)
LEMMA ProductMono ==
  ASSUME NEW a \in Nat, NEW b \in Nat, NEW m \in Nat, a <= b
  PROVE  a * m <= b * m
<1>1. b * m = a * m + (b - a) * m
  BY SMT
<1>2. (b - a) * m >= 0
  <2>1. PICK d \in Nat : d = b - a  OBVIOUS
  <2>2. d * m >= 0  BY SMT
  <2> QED BY <2>1, <2>2
<1>3. a * m \in Int /\ b * m \in Int /\ (b - a) * m \in Int
  BY SMT
<1> QED BY <1>1, <1>2, <1>3

(* No more samples than the ring has slots add up to less than a word, so  *)
(* an addition does not wrap.                                              *)
LEMMA FitsWord ==
  ASSUME NEW n \in Nat, n <= RingSize,
         NEW s \in Nat, s <= n * MaxSample
  PROVE  s < Word
<1>1. n * MaxSample <= RingSize * MaxSample
  BY Constants, ProductMono
<1>2. n * MaxSample \in Int /\ RingSize * MaxSample \in Int
  BY Constants, SMT
<1>3. RingSize * MaxSample < Word
  BY AdcAssumption
<1> QED BY <1>1, <1>2, <1>3, Constants

(* One more full-scale sample. *)
LEMMA OneMore ==
  ASSUME NEW n \in Nat, NEW s \in Nat, s <= n * MaxSample,
         NEW x \in 0 .. MaxSample
  PROVE  s + x <= (n + 1) * MaxSample
<1>1. (n + 1) * MaxSample = n * MaxSample + MaxSample
  BY Constants, SMT
<1>2. n * MaxSample \in Int
  BY Constants, SMT
<1> QED BY <1>1, <1>2, Constants

(* unsigned addition is addition while the sum fits. *)
LEMMA AddExact ==
  ASSUME NEW n \in Nat, n < RingSize,
         NEW s \in Nat, s <= n * MaxSample,
         NEW x \in 0 .. MaxSample
  PROVE  /\ AddWord(s, x) = s + x
         /\ s + x <= (n + 1) * MaxSample
<1>1. s + x <= (n + 1) * MaxSample
  BY OneMore
<1>2. s + x < Word
  <2>1. n + 1 \in Nat /\ n + 1 <= RingSize /\ s + x \in Nat
    BY Constants
  <2> QED BY <1>1, <2>1, FitsWord
<1>3. s + x \in Nat
  BY Constants
<1> QED BY <1>1, <1>2, <1>3, Constants DEF AddWord

(* The average of a sum that fits is a sample. *)
LEMMA MeanType == ASSUME NEW s \in Nat PROVE Mean(s) \in 0 .. MaxSample
<1>1. s \div RingSize \in Nat
  BY Constants
<1> QED BY <1>1, Constants DEF Mean

(* The initial states. *)
LEMMA AdcInit == Init => AdcInv
  BY AdcAssumption, Constants DEF Init, AdcInv, TypeOK, Zeros, Channel, Slot

(* An addition of the loop keeps the bound: the one sum it changes gets    *)
(* one sample more and counts as one sample more.                          *)
LEMMA AddKeeps ==
  ASSUME AdcInv, NEW r \in Reader, Add(r)
  PROVE  AdcInv'
<1> DEFINE x == ring[ch[r]][j[r]]
           J == j[r] + 1
<1>1. /\ pc[r] = "sum" /\ j[r] < RingSize /\ j[r] \in Nat
      /\ ch[r] \in Channel
      /\ sum[r][ch[r]] \in Nat
      /\ sum[r][ch[r]] <= j[r] * MaxSample
      /\ x \in 0 .. MaxSample
  <2>1. pc[r] = "sum" /\ j[r] < RingSize /\ j[r] \in Nat /\ ch[r] \in Channel
    BY DEF Add, AdcInv, TypeOK
  <2>2. Added(r, ch[r]) = j[r]
    BY <2>1 DEF Added, Channel
  <2>3. j[r] \in Slot
    BY <2>1, Constants DEF Slot
  <2> QED BY <2>1, <2>2, <2>3 DEF AdcInv, TypeOK
<1>2. /\ AddWord(sum[r][ch[r]], x) = sum[r][ch[r]] + x
      /\ sum[r][ch[r]] + x <= J * MaxSample
  BY <1>1, AddExact
<1>3. sum' = [sum EXCEPT ![r][ch[r]] = sum[r][ch[r]] + x]
  BY <1>2 DEF Add
<1>4. /\ ch[r] # Channels - 1 => /\ ch' = [ch EXCEPT ![r] = ch[r] + 1]
                                 /\ j' = j /\ pc' = pc
      /\ ch[r] = Channels - 1 =>
           /\ ch' = [ch EXCEPT ![r] = 0]
           /\ j' = [j EXCEPT ![r] = J]
           /\ pc' = IF J < RingSize THEN pc ELSE [pc EXCEPT ![r] = "copy"]
  BY DEF Add
<1>5. TypeOK'
  <2>1. sum' \in [Reader -> [Channel -> Nat]]
    <3>1. sum[r][ch[r]] + x \in Nat
      BY <1>1, Constants
    <3> QED BY <1>1, <1>3, <3>1 DEF AdcInv, TypeOK
  <2>2. ch' \in [Reader -> Channel]
    <3>1. 0 \in Channel /\ (ch[r] # Channels - 1 => ch[r] + 1 \in Channel)
      BY <1>1, Constants DEF Channel
    <3> QED BY <1>4, <3>1 DEF AdcInv, TypeOK
  <2>3. j' \in [Reader -> 0 .. RingSize]
    <3>1. J \in 0 .. RingSize
      BY <1>1, Constants
    <3> QED BY <1>4, <3>1 DEF AdcInv, TypeOK
  <2>4. pc' \in [Reader -> { "idle", "sum", "copy", "done" }]
    BY <1>1, <1>4 DEF AdcInv, TypeOK
  <2> QED BY <2>1, <2>2, <2>3, <2>4 DEF Add, AdcInv, TypeOK
<1>6. ASSUME NEW q \in Reader
      PROVE  /\ pc'[q] = "sum" => j'[q] < RingSize
             /\ pc'[q] = "copy" => j'[q] = RingSize /\ ch'[q] = 0
  <2>1. CASE q # r
    BY <1>4, <2>1 DEF AdcInv, TypeOK
  <2>2. CASE q = r /\ ch[r] # Channels - 1
    BY <1>1, <1>4, <2>2 DEF AdcInv, TypeOK
  <2>3. CASE q = r /\ ch[r] = Channels - 1
    <3>1. j'[r] = J /\ ch'[r] = 0
      BY <1>4, <2>3 DEF AdcInv, TypeOK
    <3>2. J \in Nat /\ J <= RingSize
      BY <1>1, Constants
    <3>3. pc'[r] = IF J < RingSize THEN "sum" ELSE "copy"
      BY <1>1, <1>4, <2>3 DEF AdcInv, TypeOK
    <3> QED BY <2>3, <3>1, <3>2, <3>3, Constants
  <2> QED BY <2>1, <2>2, <2>3
<1>7. ASSUME NEW q \in Reader, NEW c \in Channel, pc'[q] \in { "sum", "copy" }
      PROVE  sum'[q][c] <= Added(q, c)' * MaxSample
  <2>1. CASE q # r
    BY <1>3, <1>4, <1>7, <2>1 DEF Added, AdcInv, TypeOK
  <2>2. CASE q = r /\ c = ch[r]
    <3>1. sum'[r][c] = sum[r][ch[r]] + x
      BY <1>1, <1>3, <2>2 DEF AdcInv, TypeOK
    <3>2. Added(r, c)' = J
      <4>1. CASE ch[r] # Channels - 1
        BY <1>1, <1>4, <2>2, <4>1 DEF Added, AdcInv, TypeOK, Channel
      <4>2. CASE ch[r] = Channels - 1
        BY <1>1, <1>4, <2>2, <4>2 DEF Added, AdcInv, TypeOK, Channel
      <4> QED BY <4>1, <4>2
    <3> QED BY <1>2, <2>2, <3>1, <3>2
  <2>3. CASE q = r /\ c # ch[r]
    <3>1. sum'[r][c] = sum[r][c]
      BY <1>1, <1>3, <2>3 DEF AdcInv, TypeOK
    <3>2. Added(r, c)' = Added(r, c)
      <4>1. CASE ch[r] # Channels - 1
        <5>1. ch'[r] = ch[r] + 1 /\ j'[r] = j[r]
          BY <1>4, <4>1 DEF AdcInv, TypeOK
        <5>2. c < ch[r] + 1 <=> c < ch[r]
          BY <1>1, <2>3 DEF Channel
        <5> QED BY <5>1, <5>2 DEF Added
      <4>2. CASE ch[r] = Channels - 1
        <5>1. ch'[r] = 0 /\ j'[r] = J
          BY <1>4, <4>2 DEF AdcInv, TypeOK
        <5>2. ~ (c < 0) /\ c < ch[r]
          BY <1>1, <2>3, <4>2, Constants DEF Channel
        <5> QED BY <5>1, <5>2 DEF Added
      <4> QED BY <4>1, <4>2
    <3>3. sum[r][c] <= Added(r, c) * MaxSample
      BY <1>1 DEF AdcInv
    <3> QED BY <2>3, <3>1, <3>2, <3>3
  <2> QED BY <2>1, <2>2, <2>3
<1> QED BY <1>5, <1>6, <1>7 DEF AdcInv

(* Every step keeps the invariant. *)
LEMMA AdcStep == AdcInv /\ [Next]_adcVars => AdcInv'
<1> SUFFICES ASSUME AdcInv, [Next]_adcVars PROVE AdcInv'
  OBVIOUS
<1>1. ASSUME NEW x \in [Channel -> Samples], Isr(x) PROVE AdcInv'
  <2>1. \A c \in Channel : x[c] \in 0 .. MaxSample
    BY <1>1, AdcAssumption
  <2>2. ring' \in [Channel -> [Slot -> 0 .. MaxSample]]
    BY <1>1, <2>1 DEF Isr, AdcInv, TypeOK
  <2>3. appidx' \in Slot
    BY <1>1, Constants DEF Isr, NextIndex, AdcInv, TypeOK, Slot
  <2>4. ticks' \in 0 .. MaxTicks
    BY <1>1, AdcAssumption DEF Isr, AdcInv, TypeOK
  <2> QED BY <1>1, <2>2, <2>3, <2>4 DEF Isr, reader, Added, AdcInv, TypeOK
<1>2. ASSUME NEW r \in Reader, BeginRead(r) PROVE AdcInv'
  <2>1. TypeOK'
    BY <1>2, Constants, AdcAssumption
    DEF BeginRead, AdcInv, TypeOK, Zeros
  <2>2. ASSUME NEW q \in Reader, NEW c \in Channel,
               pc'[q] \in { "sum", "copy" }
        PROVE  sum'[q][c] <= Added(q, c)' * MaxSample
    <3>1. CASE q = r
      <4>1. sum'[r][c] = 0 /\ Added(r, c)' = 0
        BY <1>2 DEF BeginRead, Added, Zeros, AdcInv, TypeOK, Channel
      <4> QED BY <3>1, <4>1, Constants
    <3>2. CASE q # r
      BY <1>2, <2>2, <3>2 DEF BeginRead, Added, AdcInv, TypeOK
    <3> QED BY <3>1, <3>2
  <2>3. ASSUME NEW q \in Reader
        PROVE  /\ pc'[q] = "sum" => j'[q] < RingSize
               /\ pc'[q] = "copy" => j'[q] = RingSize /\ ch'[q] = 0
    BY <1>2, Constants DEF BeginRead, AdcInv, TypeOK
  <2> QED BY <2>1, <2>2, <2>3 DEF AdcInv
<1>3. ASSUME NEW r \in Reader, Add(r) PROVE AdcInv'
  BY <1>3, AddKeeps
<1>4. ASSUME NEW r \in Reader, CopyOut(r) PROVE AdcInv'
  <2>1. \A c \in Channel : Mean(sum[r][c]) \in 0 .. MaxSample
    BY MeanType DEF AdcInv, TypeOK
  <2>2. [c \in Channel |-> Mean(sum[r][c])] \in [Channel -> 0 .. MaxSample]
    BY <2>1
  <2>3. out \in [Reader -> [Channel -> 0 .. MaxSample]]
    BY DEF AdcInv, TypeOK
  <2>4. out' \in [Reader -> [Channel -> 0 .. MaxSample]]
    BY <1>4, <2>2, <2>3, Zenon DEF CopyOut
  <2> QED BY <1>4, <2>4 DEF CopyOut, Added, AdcInv, TypeOK
<1>5. ASSUME NEW r \in Reader, Resume(r) PROVE AdcInv'
  <2>1. TypeOK'
    BY <1>5, Constants DEF Resume, AdcInv, TypeOK, Zeros
  <2> QED BY <1>5, <2>1 DEF Resume, Added, AdcInv, TypeOK
<1>6. CASE UNCHANGED adcVars
  BY <1>6 DEF adcVars, Added, AdcInv, TypeOK
<1> QED BY <1>1, <1>2, <1>3, <1>4, <1>5, <1>6 DEF Next

(* Whatever the order of interrupts and loads, a reader's sums are at most *)
(* those of as many full-scale samples as it has loaded (AdcRing).         *)
THEOREM SumsWithinBound == Spec => []AdcInv
  BY AdcInit, AdcStep, PTL DEF Spec

(* The variables keep the types the driver's indexing and the 10-bit       *)
(* results rely on.                                                        *)
THEOREM AdcTypes == Spec => []TypeOK
<1>1. AdcInv => TypeOK
  BY DEF AdcInv
<1> QED BY <1>1, SumsWithinBound, PTL
------------------------------------------------------------------------------

(* AdcRing's steps are what drives AdcReads. *)
LEMMA HistoryStep == [HNext]_readVars => [Next]_adcVars
  BY DEF HNext, HIsr, HBegin, HAdd, HResume, readVars, Next

LEMMA AdcInvHolds == HSpec => []AdcInv
<1>1. HInit => AdcInv
  BY AdcInit DEF HInit
<1>2. AdcInv /\ [HNext]_readVars => AdcInv'
  BY HistoryStep, AdcStep
<1> QED BY <1>1, <1>2, PTL DEF HSpec
------------------------------------------------------------------------------
(* The sums. *)

SumsAgree == exact = sum

LEMMA SumsInit == HInit => SumsAgree
  BY DEF HInit, Init, SumsAgree

LEMMA SumsStep == AdcInv /\ SumsAgree /\ [HNext]_readVars => SumsAgree'
<1> SUFFICES ASSUME AdcInv, SumsAgree, [HNext]_readVars PROVE SumsAgree'
  OBVIOUS
<1>1. ASSUME NEW r \in Reader, HAdd(r) PROVE SumsAgree'
  <2>1. /\ pc[r] = "sum" /\ j[r] < RingSize /\ j[r] \in Nat
        /\ ch[r] \in Channel /\ sum[r][ch[r]] \in Nat
        /\ sum[r][ch[r]] <= j[r] * MaxSample
        /\ ring[ch[r]][j[r]] \in 0 .. MaxSample
    <3>1. pc[r] = "sum" /\ j[r] < RingSize /\ j[r] \in Nat /\ ch[r] \in Channel
      BY <1>1 DEF HAdd, Add, AdcInv, TypeOK
    <3>2. Added(r, ch[r]) = j[r]
      BY <3>1 DEF Added, Channel
    <3>3. j[r] \in Slot
      BY <3>1, Constants DEF Slot
    <3> QED BY <3>1, <3>2, <3>3 DEF AdcInv, TypeOK
  <2>2. AddWord(sum[r][ch[r]], ring[ch[r]][j[r]])
          = sum[r][ch[r]] + ring[ch[r]][j[r]]
    BY <2>1, AddExact
  <2> QED BY <1>1, <2>2 DEF HAdd, Add, SumsAgree
<1>2. ASSUME NEW r \in Reader, HBegin(r) PROVE SumsAgree'
  BY <1>2 DEF HBegin, BeginRead, SumsAgree
<1>3. ASSUME NEW r \in Reader, HResume(r) PROVE SumsAgree'
  BY <1>3 DEF HResume, Resume, SumsAgree
<1>4. ASSUME NEW x \in [Channel -> Samples], HIsr(x) PROVE SumsAgree'
  BY <1>4 DEF HIsr, Isr, reader, SumsAgree
<1>5. ASSUME NEW r \in Reader, CopyOut(r), UNCHANGED hist PROVE SumsAgree'
  BY <1>5 DEF CopyOut, hist, SumsAgree
<1>6. CASE UNCHANGED readVars
  BY <1>6 DEF readVars, adcVars, hist, SumsAgree
<1> QED BY <1>1, <1>2, <1>3, <1>4, <1>5, <1>6 DEF HNext

(* A quotient that is at most MaxSample passes the mask unchanged. *)
LEMMA MeanExact ==
  ASSUME NEW s \in Nat, s <= RingSize * MaxSample
  PROVE  Mean(s) = s \div RingSize
<1> DEFINE q == s \div RingSize
<1>1. q \in Nat /\ RingSize * q <= s
  BY Constants
<1>2. q <= MaxSample
  <2>1. SUFFICES ASSUME q >= MaxSample + 1 PROVE FALSE
    BY <1>1, Constants
  <2>2. (MaxSample + 1) * RingSize <= q * RingSize
    BY <1>1, <2>1, Constants, ProductMono, MaxSample + 1 \in Nat
  <2>3. /\ (MaxSample + 1) * RingSize = RingSize * MaxSample + RingSize
        /\ q * RingSize = RingSize * q
        /\ RingSize * MaxSample \in Int /\ RingSize * q \in Int
    BY <1>1, Constants, SMT
  <2> QED BY <1>1, <2>2, <2>3, Constants
<1> HIDE DEF q
<1>3. q % (MaxSample + 1) = q
  BY <1>1, <1>2, Constants
<1> QED BY <1>3 DEF Mean, q

(* The 32-bit sums, the shift and the mask of at91adc_read lose nothing,   *)
(* for every ring and sample width whose product fits a word.              *)
THEOREM SumsAreExact == HSpec => []SumsExact
<1>1. AdcInv /\ SumsAgree => SumsExact
  <2> SUFFICES ASSUME AdcInv, SumsAgree, NEW r \in Reader, NEW c \in Channel,
                      pc[r] = "copy"
               PROVE  Mean(sum[r][c]) = exact[r][c] \div RingSize
    BY DEF SumsExact, SumsAgree
  <2>1. sum[r][c] \in Nat /\ sum[r][c] <= Added(r, c) * MaxSample
    BY DEF AdcInv, TypeOK
  <2>2. Added(r, c) = RingSize
    BY Constants DEF AdcInv, TypeOK, Added, Channel
  <2> QED BY <2>1, <2>2, MeanExact DEF SumsAgree
<1> QED BY <1>1, AdcInvHolds, SumsInit, SumsStep, PTL DEF HSpec
------------------------------------------------------------------------------
(* The ring. *)

(* The number of the sample at the start of the lap the interrupt is in.   *)
Lap == ticks - appidx

(* Below the index the ring holds this lap's samples in order, above it    *)
(* the last lap's, if there was one.                                       *)
RingInv ==
  /\ appidx <= ticks
  /\ Lap = 0 \/ Lap >= RingSize
  /\ stamp \in [Slot -> Int]
  /\ \A s \in Slot :
       stamp[s] = IF s < appidx THEN Lap + s + 1
                  ELSE IF Lap = 0 THEN 0 ELSE Lap + s + 1 - RingSize

LEMMA RingInit == HInit => RingInv
  BY Constants DEF HInit, Init, RingInv, Lap, Slot

LEMMA RingStep == AdcInv /\ RingInv /\ [HNext]_readVars => RingInv'
<1> SUFFICES ASSUME AdcInv, RingInv, [HNext]_readVars PROVE RingInv'
  OBVIOUS
<1>1. ASSUME NEW x \in [Channel -> Samples], HIsr(x) PROVE RingInv'
  <2>1. /\ ticks' = ticks + 1 /\ appidx' = NextIndex(appidx)
        /\ stamp' = [stamp EXCEPT ![appidx] = ticks + 1]
    BY <1>1 DEF HIsr, Isr
  <2>2. ticks \in Nat /\ appidx \in Nat /\ appidx < RingSize
    BY AdcAssumption DEF AdcInv, TypeOK, Slot
  <2>3. stamp' \in [Slot -> Int] /\ appidx \in Slot
    BY <2>1, <2>2 DEF RingInv, AdcInv, TypeOK
  <2>4. CASE appidx + 1 < RingSize
    <3>1. appidx' = appidx + 1 /\ Lap' = Lap
      BY <2>1, <2>2, <2>4, Constants DEF NextIndex, Lap
    <3>2. ASSUME NEW s \in Slot
          PROVE  stamp'[s] = IF s < appidx' THEN Lap + s + 1
                             ELSE IF Lap = 0 THEN 0 ELSE Lap + s + 1 - RingSize
      <4>1. CASE s = appidx
        BY <2>1, <2>2, <2>3, <3>1, <4>1 DEF RingInv, Lap
      <4>2. CASE s # appidx
        <5>1. stamp'[s] = stamp[s]
          BY <2>1, <4>2 DEF RingInv
        <5>2. s < appidx' <=> s < appidx
          BY <2>2, <3>1, <4>2 DEF Slot
        <5> QED BY <5>1, <5>2 DEF RingInv
      <4> QED BY <4>1, <4>2
    <3> QED BY <2>1, <2>2, <2>3, <3>1, <3>2 DEF RingInv
  <2>5. CASE ~ (appidx + 1 < RingSize)
    <3>1. appidx' = 0 /\ appidx = RingSize - 1 /\ Lap' = Lap + RingSize
      BY <2>1, <2>2, <2>5, Constants DEF NextIndex, Lap
    <3>2. Lap \in Nat
      BY <2>2 DEF RingInv, Lap
    <3>3. ASSUME NEW s \in Slot
          PROVE  stamp'[s] = Lap + s + 1
      <4>1. CASE s = appidx
        BY <2>1, <2>2, <2>3, <4>1 DEF RingInv, Lap
      <4>2. CASE s # appidx
        <5>1. stamp'[s] = stamp[s]
          BY <2>1, <4>2 DEF RingInv
        <5>2. s < appidx
          BY <3>1, <4>2, Constants DEF Slot
        <5> QED BY <5>1, <5>2 DEF RingInv
      <4> QED BY <4>1, <4>2
    <3>4. ASSUME NEW s \in Slot
          PROVE  stamp'[s] = IF s < appidx' THEN Lap' + s + 1
                             ELSE IF Lap' = 0 THEN 0 ELSE Lap' + s + 1 - RingSize
      <4>1. s \in Nat /\ ~ (s < 0) /\ Lap' # 0
        BY <3>1, <3>2, Constants DEF Slot
      <4>2. Lap' + s + 1 - RingSize = Lap + s + 1
        BY <3>1, <3>2, <4>1, Constants
      <4> QED BY <3>1, <3>3, <4>1, <4>2
    <3>5. appidx' <= ticks' /\ Lap' >= RingSize
      BY <2>1, <2>2, <3>1, <3>2, Constants
    <3> QED BY <2>3, <3>4, <3>5 DEF RingInv
  <2> QED BY <2>4, <2>5
<1>2. CASE UNCHANGED << ticks, appidx, stamp >>
  BY <1>2 DEF RingInv, Lap
<1>3. ASSUME NEW r \in Reader,
             HBegin(r) \/ HAdd(r) \/ HResume(r) \/ (CopyOut(r) /\ UNCHANGED hist)
      PROVE  UNCHANGED << ticks, appidx, stamp >>
  BY <1>3 DEF HBegin, HAdd, HResume, BeginRead, Add, Resume, CopyOut, hist
<1>4. CASE UNCHANGED readVars
  BY <1>2, <1>4 DEF readVars, adcVars, hist
<1> QED BY <1>1, <1>2, <1>3, <1>4 DEF HNext

(* After any number of interrupts the ring holds the newest RingSize       *)
(* samples, or all there are: the wrap of at91adc_appidx loses none and    *)
(* keeps none too long, for every ring size.                               *)
THEOREM RingKeepsLatest == HSpec => []LatestKept
<1>1. AdcInv /\ RingInv => LatestKept
  <2> SUFFICES ASSUME AdcInv, RingInv PROVE LatestKept
    OBVIOUS
  <2>1. ticks \in Nat /\ appidx \in Nat /\ appidx < RingSize /\ Lap \in Nat
    BY AdcAssumption DEF AdcInv, TypeOK, Slot, RingInv, Lap
  <2>2. ASSUME NEW s \in Slot, stamp[s] # 0
        PROVE  stamp[s] \in 1 .. ticks /\ stamp[s] > ticks - RingSize
    <3>1. s \in Nat /\ s < RingSize
      BY Constants DEF Slot
    <3>2. CASE s < appidx
      BY <2>1, <3>1, <3>2, Constants DEF RingInv, Lap
    <3>3. CASE ~ (s < appidx)
      <4>1. Lap >= RingSize /\ stamp[s] = Lap + s + 1 - RingSize
        BY <2>2, <3>3 DEF RingInv
      <4> QED BY <2>1, <3>1, <3>3, <4>1, Constants DEF Lap
    <3> QED BY <3>2, <3>3
  <2>3. ASSUME NEW t \in 1 .. ticks, t > ticks - RingSize
        PROVE  \E s \in Slot : stamp[s] = t
    <3>1. CASE t > Lap
      <4>1. t - 1 - Lap \in Slot /\ t - 1 - Lap < appidx
        BY <2>1, <2>3, <3>1, Constants DEF Slot, Lap
      <4>2. stamp[t - 1 - Lap] = t
        BY <2>1, <4>1 DEF RingInv
      <4> QED BY <4>1, <4>2
    <3>2. CASE ~ (t > Lap)
      <4>1. Lap # 0 /\ Lap >= RingSize
        BY <2>1, <3>2 DEF RingInv
      <4>2. /\ t - 1 - Lap + RingSize \in Slot
            /\ ~ (t - 1 - Lap + RingSize < appidx)
        BY <2>1, <2>3, <3>2, Constants DEF Slot, Lap
      <4>3. stamp[t - 1 - Lap + RingSize] = t
        BY <2>1, <4>1, <4>2, Constants DEF RingInv
      <4> QED BY <4>2, <4>3
    <3> QED BY <3>1, <3>2
  <2>4. 0 \notin 1 .. ticks
    BY <2>1
  <2> QED BY <2>2, <2>3, <2>4 DEF LatestKept
<1> QED BY <1>1, AdcInvHolds, RingInit, RingStep, PTL DEF HSpec
------------------------------------------------------------------------------
(* Sample t is one of those that go to slot s. *)
At(t, s) == \E k \in Nat : t = k * RingSize + s + 1

(* The samples before the lap the interrupt is in fill whole laps. *)
WholeLaps == \E k \in Nat : Lap = k * RingSize

(* A sample goes to one slot. *)
LEMMA OneSlot ==
  ASSUME NEW t, NEW s \in Slot, NEW u \in Slot, At(t, s), At(t, u)
  PROVE  s = u
<1>1. PICK k \in Nat : t = k * RingSize + s + 1
  BY DEF At
<1>2. PICK l \in Nat : t = l * RingSize + u + 1
  BY DEF At
<1>3. /\ s \in Nat /\ u \in Nat /\ s < RingSize /\ u < RingSize
      /\ k * RingSize \in Nat /\ l * RingSize \in Nat
  <2>1. s \in Nat /\ u \in Nat /\ s < RingSize /\ u < RingSize
    BY Constants DEF Slot
  <2>2. k * RingSize \in Nat /\ l * RingSize \in Nat
    BY Constants, SMT
  <2> QED BY <2>1, <2>2
<1>4. ASSUME NEW a \in Nat, NEW b \in Nat, a + 1 <= b
      PROVE  a * RingSize + RingSize <= b * RingSize
  <2>1. (a + 1) * RingSize <= b * RingSize
    BY <1>4, Constants, ProductMono, a + 1 \in Nat
  <2>2. (a + 1) * RingSize = a * RingSize + RingSize
    BY Constants, SMT
  <2> QED BY <2>1, <2>2
<1>5. k = l
  <2>1. CASE k + 1 <= l
    <3>1. k * RingSize + RingSize <= l * RingSize
      BY <1>4, <2>1
    <3> QED BY <1>1, <1>2, <1>3, <3>1, Constants
  <2>2. CASE l + 1 <= k
    <3>1. l * RingSize + RingSize <= k * RingSize
      BY <1>4, <2>2
    <3> QED BY <1>1, <1>2, <1>3, <3>1, Constants
  <2> QED BY <2>1, <2>2
<1> QED BY <1>1, <1>2, <1>3, <1>5

LEMMA LapsInit == HInit => WholeLaps
<1> SUFFICES ASSUME HInit PROVE WholeLaps
  OBVIOUS
<1>1. Lap = 0 * RingSize
  BY Constants DEF HInit, Init, Lap
<1> QED BY <1>1 DEF WholeLaps

LEMMA LapsStep == AdcInv /\ RingInv /\ WholeLaps /\ [HNext]_readVars => WholeLaps'
<1> SUFFICES ASSUME AdcInv, RingInv, WholeLaps, [HNext]_readVars PROVE WholeLaps'
  OBVIOUS
<1>1. ASSUME NEW x \in [Channel -> Samples], HIsr(x) PROVE WholeLaps'
  <2>1. ticks' = ticks + 1 /\ appidx' = NextIndex(appidx)
    BY <1>1 DEF HIsr, Isr
  <2>2. ticks \in Nat /\ appidx \in Nat /\ appidx < RingSize
    BY AdcAssumption DEF AdcInv, TypeOK, Slot
  <2>3. PICK k \in Nat : Lap = k * RingSize
    BY DEF WholeLaps
  <2>4. CASE appidx + 1 < RingSize
    <3>1. Lap' = Lap
      BY <2>1, <2>2, <2>4, Constants DEF NextIndex, Lap
    <3> QED BY <2>3, <3>1 DEF WholeLaps
  <2>5. CASE ~ (appidx + 1 < RingSize)
    <3>1. Lap' = Lap + RingSize
      BY <2>1, <2>2, <2>5, Constants DEF NextIndex, Lap
    <3>2. k * RingSize + RingSize = (k + 1) * RingSize /\ k + 1 \in Nat
      BY Constants, SMT
    <3> QED BY <2>3, <3>1, <3>2 DEF WholeLaps
  <2> QED BY <2>4, <2>5
<1>2. CASE UNCHANGED << ticks, appidx >>
  BY <1>2 DEF WholeLaps, Lap
<1>3. ASSUME NEW r \in Reader,
             HBegin(r) \/ HAdd(r) \/ HResume(r) \/ (CopyOut(r) /\ UNCHANGED hist)
      PROVE  UNCHANGED << ticks, appidx >>
  BY <1>3 DEF HBegin, HAdd, HResume, BeginRead, Add, Resume, CopyOut, hist
<1>4. CASE UNCHANGED readVars
  BY <1>2, <1>4 DEF readVars, adcVars
<1> QED BY <1>1, <1>2, <1>3, <1>4 DEF HNext

(* Once the ring is full, each slot holds one of its own samples, and one  *)
(* of the newest.                                                          *)
LEMMA StampIs ==
  ASSUME AdcInv, RingInv, WholeLaps, NEW s \in Slot, ticks >= RingSize
  PROVE  /\ stamp[s] \in Nat /\ At(stamp[s], s)
         /\ stamp[s] > ticks - RingSize /\ stamp[s] <= ticks
<1>1. /\ ticks \in Nat /\ appidx \in Nat /\ appidx < RingSize /\ Lap \in Nat
      /\ s \in Nat /\ s < RingSize
  BY AdcAssumption DEF AdcInv, TypeOK, Slot, RingInv, Lap
<1>2. PICK k \in Nat : Lap = k * RingSize
  BY DEF WholeLaps
<1>3. Lap # 0 /\ Lap >= RingSize
  BY <1>1, Constants DEF RingInv, Lap
<1>4. CASE s < appidx
  <2>1. stamp[s] = Lap + s + 1
    BY <1>4 DEF RingInv
  <2> QED BY <1>1, <1>2, <1>4, <2>1, Constants DEF At, Lap
<1>5. CASE ~ (s < appidx)
  <2>1. stamp[s] = Lap + s + 1 - RingSize
    BY <1>3, <1>5 DEF RingInv
  <2>2. k # 0 /\ k - 1 \in Nat
    <3>1. 0 * RingSize = 0
      BY Constants
    <3> QED BY <1>2, <1>3, <3>1
  <2>3. (k - 1) * RingSize + RingSize = k * RingSize
    BY <2>2, Constants, SMT
  <2>4. (k - 1) * RingSize \in Nat
    BY <2>2, Constants, SMT
  <2>5. stamp[s] = (k - 1) * RingSize + s + 1
    BY <1>1, <1>2, <2>1, <2>3, <2>4, Constants
  <2>6. At(stamp[s], s)
    BY <2>2, <2>5 DEF At
  <2> QED BY <1>1, <1>3, <1>5, <2>1, <2>6, Constants DEF Lap
<1> QED BY <1>4, <1>5
------------------------------------------------------------------------------
(* The samples in a sum: one of each slot the loop has passed. *)
Gathered(r, c) ==
  /\ IsFiniteSet(used[r][c]) /\ Cardinality(used[r][c]) = Added(r, c)
  /\ \A t \in used[r][c] :
       /\ t \in Nat /\ t > since[r] - RingSize /\ t <= ticks
       /\ \E s \in Slot : s < Added(r, c) /\ At(t, s)

UsedInv ==
  /\ since \in [Reader -> Nat]
  /\ used \in [Reader -> [Channel -> SUBSET Nat]]
  /\ \A r \in Reader : since[r] <= ticks
  /\ \A r \in Reader, c \in Channel :
       pc[r] \in { "sum", "copy" } /\ since[r] >= RingSize => Gathered(r, c)

LEMMA UsedInit == HInit => UsedInv
<1> SUFFICES ASSUME HInit PROVE UsedInv
  OBVIOUS
<1>1. since = [r \in Reader |-> 0] /\ used = [r \in Reader |-> None] /\ ticks = 0
      /\ pc = [r \in Reader |-> "idle"]
  BY DEF HInit, Init
<1>2. None \in [Channel -> SUBSET Nat]
  BY DEF None
<1> QED BY <1>1, <1>2 DEF UsedInv

(* An addition counts one sample more in the sum it adds to, no other. *)
LEMMA AddedStep ==
  ASSUME AdcInv, NEW r \in Reader, Add(r), NEW c \in Channel
  PROVE  Added(r, c)' = IF c = ch[r] THEN Added(r, c) + 1 ELSE Added(r, c)
<1>1. /\ pc[r] = "sum" /\ j[r] \in Nat /\ ch[r] \in Nat /\ ch[r] < Channels
      /\ c \in Nat /\ c < Channels
  BY Constants DEF Add, AdcInv, TypeOK, Channel
<1>2. CASE ch[r] = Channels - 1
  <2>1. ch'[r] = 0 /\ j'[r] = j[r] + 1
    BY <1>2 DEF Add, AdcInv, TypeOK
  <2> QED BY <1>1, <1>2, <2>1, Constants DEF Added
<1>3. CASE ch[r] # Channels - 1
  <2>1. ch'[r] = ch[r] + 1 /\ j'[r] = j[r]
    BY <1>3 DEF Add, AdcInv, TypeOK
  <2> QED BY <1>1, <1>3, <2>1, Constants DEF Added
<1> QED BY <1>2, <1>3

LEMMA UsedStep ==
  ASSUME AdcInv, RingInv, WholeLaps, UsedInv, [HNext]_readVars,
         \A s \in Slot : stamp[s] \in Nat
  PROVE  UsedInv'
<1>0. ticks \in Nat /\ \A r \in Reader : since[r] \in Nat
  BY AdcAssumption DEF AdcInv, TypeOK, UsedInv
<1>1. ASSUME NEW x \in [Channel -> Samples], HIsr(x) PROVE UsedInv'
  <2>1. ticks' = ticks + 1 /\ UNCHANGED << since, used, pc, ch, j >>
    BY <1>1 DEF HIsr, Isr, reader
  <2> QED BY <1>0, <2>1 DEF UsedInv, Gathered, Added
<1>2. ASSUME NEW r \in Reader, HBegin(r) PROVE UsedInv'
  <2>1. /\ since' = [since EXCEPT ![r] = ticks] /\ used' = [used EXCEPT ![r] = None]
        /\ pc' = [pc EXCEPT ![r] = "sum"]
        /\ j' = [j EXCEPT ![r] = 0] /\ ch' = [ch EXCEPT ![r] = 0]
        /\ ticks' = ticks
    BY <1>2 DEF HBegin, BeginRead
  <2>2. None \in [Channel -> SUBSET Nat] /\ \A c \in Channel : None[c] = {}
    BY DEF None
  <2>3. /\ since' \in [Reader -> Nat] /\ used' \in [Reader -> [Channel -> SUBSET Nat]]
        /\ \A q \in Reader : since'[q] <= ticks'
    BY <1>0, <2>1, <2>2 DEF UsedInv
  <2>4. ASSUME NEW c \in Channel PROVE Gathered(r, c)'
    <3>1. used'[r][c] = {} /\ Added(r, c)' = 0
      BY <2>1, <2>2, Constants DEF UsedInv, AdcInv, TypeOK, Added, Channel
    <3> QED BY <3>1, FS_EmptySet DEF Gathered
  <2>5. ASSUME NEW q \in Reader, q # r, NEW c \in Channel, Gathered(q, c)
        PROVE  Gathered(q, c)'
    BY <2>1, <2>5 DEF Gathered, Added, UsedInv, AdcInv, TypeOK
  <2>6. ASSUME NEW q \in Reader, q # r PROVE pc'[q] = pc[q] /\ since'[q] = since[q]
    BY <2>1, <2>6 DEF UsedInv, AdcInv, TypeOK
  <2> QED BY <2>3, <2>4, <2>5, <2>6 DEF UsedInv
<1>3. ASSUME NEW r \in Reader, HAdd(r) PROVE UsedInv'
  <2> DEFINE d == ch[r]   t == stamp[j[r]]
  <2>1. /\ pc[r] = "sum" /\ j[r] \in Nat /\ j[r] < RingSize /\ d \in Channel
        /\ j[r] \in Slot /\ t \in Nat
    <3>1. pc[r] = "sum"
      BY <1>3 DEF HAdd, Add
    <3>2. j[r] \in Nat /\ j[r] < RingSize /\ d \in Channel
      BY <3>1 DEF AdcInv, TypeOK
    <3>3. j[r] \in Slot
      BY <3>2, Constants DEF Slot
    <3> QED BY <3>1, <3>2, <3>3
  <2>2. /\ used' = [used EXCEPT ![r][d] = @ \cup {t}] /\ UNCHANGED << since, ticks >>
    BY <1>3 DEF HAdd, Add
  <2>3. used[r] \in [Channel -> SUBSET Nat]
    BY DEF UsedInv
  <2>4. /\ used'[r][d] = used[r][d] \cup {t}
        /\ \A c \in Channel : c # d => used'[r][c] = used[r][c]
        /\ \A q \in Reader : q # r => used'[q] = used[q]
    BY <2>1, <2>2, <2>3 DEF UsedInv
  <2>5. used' \in [Reader -> [Channel -> SUBSET Nat]]
    BY <2>1, <2>2, <2>3 DEF UsedInv
  <2>6. \A c \in Channel :
          Added(r, c)' = IF c = d THEN Added(r, c) + 1 ELSE Added(r, c)
    BY <1>3, AddedStep DEF HAdd
  <2>7. Added(r, d) = j[r]
    BY <2>1, Constants DEF Added, Channel
  <2>8. ASSUME NEW c \in Channel, since[r] >= RingSize PROVE Gathered(r, c)'
    <3>1. Gathered(r, c)
      BY <2>1, <2>8 DEF UsedInv
    <3>2. CASE c # d
      BY <2>2, <2>4, <2>6, <3>1, <3>2 DEF Gathered
    <3>3. CASE c = d
      <4>1. ticks >= RingSize
        BY <1>0, <2>8, Constants DEF UsedInv
      <4>2. At(t, j[r]) /\ t > ticks - RingSize /\ t <= ticks
        BY <2>1, <4>1, StampIs
      <4>3. t > since[r] - RingSize
        BY <1>0, <2>1, <4>2, Constants DEF UsedInv
      <4>4. Added(r, c) = j[r] /\ Added(r, c)' = j[r] + 1 /\ used'[r][c] = used[r][c] \cup {t}
        BY <2>4, <2>6, <2>7, <3>3
      <4>5. t \notin used[r][c]
        <5>1. SUFFICES ASSUME t \in used[r][c] PROVE FALSE
          OBVIOUS
        <5>2. PICK s \in Slot : s < j[r] /\ At(t, s)
          BY <3>1, <4>4, <5>1 DEF Gathered
        <5>3. s = j[r]
          BY <2>1, <4>2, <5>2, OneSlot
        <5> QED BY <2>1, <5>2, <5>3
      <4>6. /\ IsFiniteSet(used'[r][c])
            /\ Cardinality(used'[r][c]) = Added(r, c)'
        <5>1. IsFiniteSet(used[r][c]) /\ Cardinality(used[r][c]) = j[r]
          BY <3>1, <4>4 DEF Gathered
        <5>2. /\ IsFiniteSet(used[r][c] \cup {t})
              /\ Cardinality(used[r][c] \cup {t}) = Cardinality(used[r][c]) + 1
          BY <4>5, <5>1, FS_AddElement
        <5> QED BY <4>4, <5>1, <5>2
      <4>7. ASSUME NEW u \in used'[r][c]
            PROVE  /\ u \in Nat /\ u > since[r] - RingSize /\ u <= ticks
                   /\ \E s \in Slot : s < j[r] + 1 /\ At(u, s)
        <5>1. CASE u = t
          BY <2>1, <4>2, <4>3, <5>1
        <5>2. CASE u # t
          <6>1. u \in used[r][c]
            BY <4>4, <4>7, <5>2
          <6>2. PICK s \in Slot : s < j[r] /\ At(u, s)
            BY <3>1, <4>4, <6>1 DEF Gathered
          <6>3. s < j[r] + 1
            BY <2>1, <6>2, Constants DEF Slot
          <6> QED BY <3>1, <6>1, <6>2, <6>3 DEF Gathered
        <5> QED BY <5>1, <5>2
      <4> QED BY <2>2, <4>4, <4>6, <4>7 DEF Gathered
    <3> QED BY <3>2, <3>3
  <2>9. ASSUME NEW q \in Reader, q # r, NEW c \in Channel, Gathered(q, c)
        PROVE  Gathered(q, c)'
    <3>1. ch'[q] = ch[q] /\ j'[q] = j[q] /\ used'[q][c] = used[q][c]
      BY <1>3, <2>4, <2>9 DEF HAdd, Add, AdcInv, TypeOK
    <3> QED BY <2>2, <2>9, <3>1 DEF Gathered, Added
  <2>10. ASSUME NEW q \in Reader, q # r PROVE pc'[q] = pc[q]
    BY <1>3, <2>10 DEF HAdd, Add, AdcInv, TypeOK
  <2> QED BY <2>2, <2>5, <2>8, <2>9, <2>10 DEF UsedInv
<1>4. ASSUME NEW r \in Reader, HResume(r) PROVE UsedInv'
  <2>1. /\ since' = [since EXCEPT ![r] = 0] /\ used' = [used EXCEPT ![r] = None]
        /\ pc' = [pc EXCEPT ![r] = "idle"] /\ j' = [j EXCEPT ![r] = 0]
        /\ ticks' = ticks /\ ch' = ch
    BY <1>4 DEF HResume, Resume
  <2>2. None \in [Channel -> SUBSET Nat]
    BY DEF None
  <2>3. /\ since' \in [Reader -> Nat] /\ used' \in [Reader -> [Channel -> SUBSET Nat]]
        /\ \A q \in Reader : since'[q] <= ticks'
    BY <1>0, <2>1, <2>2 DEF UsedInv
  <2>4. ASSUME NEW q \in Reader, q # r, NEW c \in Channel, Gathered(q, c)
        PROVE  Gathered(q, c)'
    BY <2>1, <2>4 DEF Gathered, Added, UsedInv, AdcInv, TypeOK
  <2>5. pc'[r] = "idle" /\ \A q \in Reader : q # r => pc'[q] = pc[q] /\ since'[q] = since[q]
    BY <2>1 DEF UsedInv, AdcInv, TypeOK
  <2> QED BY <2>3, <2>4, <2>5 DEF UsedInv
<1>5. ASSUME NEW r \in Reader, CopyOut(r), UNCHANGED hist PROVE UsedInv'
  <2>1. pc' = [pc EXCEPT ![r] = "done"] /\ UNCHANGED << j, ch, ticks, since, used >>
    BY <1>5 DEF CopyOut, hist
  <2>2. \A q \in Reader : pc'[q] \in { "sum", "copy" } => pc'[q] = pc[q]
    BY <2>1 DEF AdcInv, TypeOK
  <2> QED BY <2>1, <2>2 DEF UsedInv, Gathered, Added
<1>6. CASE UNCHANGED readVars
  BY <1>6 DEF readVars, adcVars, hist, UsedInv, Gathered, Added
<1> QED BY <1>1, <1>2, <1>3, <1>4, <1>5, <1>6 DEF HNext

LEMMA StampsNat ==
  ASSUME AdcInv, RingInv, NEW s \in Slot
  PROVE  stamp[s] \in Nat /\ stamp[s] <= ticks
<1>1. /\ ticks \in Nat /\ appidx \in Nat /\ appidx < RingSize /\ Lap \in Nat
      /\ s \in Nat /\ s < RingSize
  BY AdcAssumption DEF AdcInv, TypeOK, Slot, RingInv, Lap
<1> QED BY <1>1, Constants DEF RingInv, Lap

LEMMA UsedInvHolds == HSpec => [](AdcInv /\ RingInv /\ WholeLaps /\ UsedInv)
<1>1. AdcInv /\ RingInv /\ WholeLaps /\ UsedInv /\ [HNext]_readVars => UsedInv'
  BY UsedStep, StampsNat
<1> QED
  BY AdcInvHolds, RingInit, RingStep, LapsInit, LapsStep, UsedInit, <1>1, PTL DEF HSpec

(* However the interrupt laps a read, the read uses one sample of each     *)
(* slot, and none older than a ring when it began (at91adc.c:271-284), for *)
(* every ring size and every number of readers.                            *)
THEOREM ReadsAreRecent == HSpec => []ReadsRecent
<1>1. AdcInv /\ UsedInv => ReadsRecent
  <2> SUFFICES ASSUME AdcInv, UsedInv, NEW r \in Reader, NEW c \in Channel,
                      pc[r] = "copy", since[r] >= RingSize
               PROVE  /\ Cardinality(used[r][c]) = RingSize
                      /\ \A t \in used[r][c] : t > since[r] - RingSize /\ t <= ticks
    BY DEF ReadsRecent
  <2>1. Gathered(r, c)
    BY DEF UsedInv
  <2>2. Added(r, c) = RingSize
    BY Constants DEF AdcInv, TypeOK, Added, Channel
  <2> QED BY <2>1, <2>2 DEF Gathered
<1> QED BY <1>1, UsedInvHolds, PTL
------------------------------------------------------------------------------
(* A steady input. *)

(* The slots that were filled since a channel's input is steady hold it,   *)
(* and a sum of such slots alone is a multiple of it.                      *)
Covered(r, c) == steady[c] >= RingSize + (ticks - since[r])

SteadyInv ==
  /\ last \in [Channel -> 0 .. MaxSample]
  /\ exact \in [Reader -> [Channel -> Nat]]
  /\ steady \in [Channel -> Nat]
  /\ \A c \in Channel : steady[c] <= ticks
  /\ \A c \in Channel, s \in Slot :
       stamp[s] > ticks - steady[c] => ring[c][s] = last[c]
  /\ \A r \in Reader, c \in Channel :
       pc[r] \in { "sum", "copy" } /\ Covered(r, c) =>
         exact[r][c] = Added(r, c) * last[c]

LEMMA SteadyInit == HInit => SteadyInv
<1> SUFFICES ASSUME HInit PROVE SteadyInv
  OBVIOUS
<1>1. /\ last = Zeros /\ exact = [r \in Reader |-> Zeros] /\ ticks = 0
      /\ steady = [c \in Channel |-> 0] /\ stamp = [s \in Slot |-> 0]
      /\ pc = [r \in Reader |-> "idle"]
  BY DEF HInit, Init
<1>2. Zeros \in [Channel -> 0 .. MaxSample] /\ Zeros \in [Channel -> Nat]
  BY Constants DEF Zeros
<1>3. \A c \in Channel, s \in Slot : ~ (stamp[s] > ticks - steady[c])
  BY <1>1
<1> QED BY <1>1, <1>2, <1>3 DEF SteadyInv

LEMMA SteadyStep ==
  ASSUME AdcInv, RingInv, WholeLaps, UsedInv, SteadyInv, [HNext]_readVars,
         \A s \in Slot : stamp[s] \in Nat /\ stamp[s] <= ticks
  PROVE  SteadyInv'
<1>0. ticks \in Nat /\ \A r \in Reader : since[r] \in Nat /\ since[r] <= ticks
  BY AdcAssumption DEF AdcInv, TypeOK, UsedInv
<1>1. ASSUME NEW x \in [Channel -> Samples], HIsr(x) PROVE SteadyInv'
  <2>1. /\ ticks' = ticks + 1 /\ UNCHANGED << since, exact, pc, ch, j >>
        /\ last' = x /\ stamp' = [stamp EXCEPT ![appidx] = ticks + 1]
        /\ steady' = [c \in Channel |-> IF x[c] = last[c] THEN steady[c] + 1 ELSE 1]
        /\ ring' = [c \in Channel |-> [ring[c] EXCEPT ![appidx] = x[c]]]
    BY <1>1 DEF HIsr, Isr, reader
  <2>2. last' \in [Channel -> 0 .. MaxSample]
    BY <2>1, AdcAssumption
  <2>3. steady' \in [Channel -> Nat] /\ \A c \in Channel : steady'[c] <= ticks'
    BY <1>0, <2>1 DEF SteadyInv
  <2>4. ASSUME NEW c \in Channel, NEW s \in Slot, stamp'[s] > ticks' - steady'[c]
        PROVE  ring'[c][s] = last'[c]
    <3>1. CASE s = appidx
      BY <2>1, <3>1 DEF AdcInv, TypeOK
    <3>2. CASE s # appidx
      <4>1. stamp'[s] = stamp[s] /\ ring'[c][s] = ring[c][s]
        BY <2>1, <3>2 DEF RingInv, AdcInv, TypeOK
      <4>2. CASE x[c] = last[c]
        <5>1. steady'[c] = steady[c] + 1 /\ steady[c] \in Nat
          BY <2>1, <4>2 DEF SteadyInv
        <5>2. stamp[s] > ticks - steady[c]
          BY <1>0, <2>1, <2>4, <4>1, <5>1
        <5> QED BY <2>1, <4>1, <4>2, <5>2 DEF SteadyInv
      <4>3. CASE x[c] # last[c]
        <5>1. steady'[c] = 1
          BY <2>1, <4>3
        <5> QED BY <1>0, <2>1, <2>4, <4>1, <5>1
      <4> QED BY <4>2, <4>3
    <3> QED BY <3>1, <3>2
  <2>5. ASSUME NEW r \in Reader, NEW c \in Channel,
               pc'[r] \in { "sum", "copy" }, Covered(r, c)'
        PROVE  exact'[r][c] = Added(r, c)' * last'[c]
    <3>1. steady'[c] >= RingSize + (ticks + 1 - since[r])
      <4>1. steady'[c] >= RingSize + (ticks' - since'[r])
        BY <2>5, Zenon DEF Covered
      <4> QED BY <1>0, <2>1, <2>3, <4>1, Constants
    <3>2. x[c] = last[c]
      <4>1. SUFFICES ASSUME x[c] # last[c] PROVE FALSE
        OBVIOUS
      <4>2. steady'[c] = 1
        BY <2>1, <4>1
      <4> QED BY <1>0, <3>1, <4>2, Constants
    <3>3. steady'[c] = steady[c] + 1 /\ steady[c] \in Nat
      BY <2>1, <3>2 DEF SteadyInv
    <3>4. Covered(r, c)
      BY <1>0, <3>1, <3>3, Constants DEF Covered
    <3>5. Added(r, c)' = Added(r, c)
      BY <2>1 DEF Added
    <3> QED BY <2>1, <2>5, <3>2, <3>4, <3>5 DEF SteadyInv
  <2>6. exact' \in [Reader -> [Channel -> Nat]]
    BY <2>1 DEF SteadyInv
  <2> QED BY <2>2, <2>3, <2>4, <2>5, <2>6 DEF SteadyInv
<1>2. ASSUME NEW r \in Reader, HBegin(r) PROVE SteadyInv'
  <2>1. /\ exact' = [exact EXCEPT ![r] = Zeros] /\ since' = [since EXCEPT ![r] = ticks]
        /\ pc' = [pc EXCEPT ![r] = "sum"]
        /\ j' = [j EXCEPT ![r] = 0] /\ ch' = [ch EXCEPT ![r] = 0]
        /\ UNCHANGED << ticks, stamp, last, steady, ring >>
    BY <1>2 DEF HBegin, BeginRead
  <2>2. Zeros \in [Channel -> Nat] /\ exact' \in [Reader -> [Channel -> Nat]]
    BY <2>1 DEF Zeros, SteadyInv
  <2>3. ASSUME NEW q \in Reader, NEW c \in Channel,
               pc'[q] \in { "sum", "copy" }, Covered(q, c)'
        PROVE  exact'[q][c] = Added(q, c)' * last'[c]
    <3>1. CASE q = r
      <4>1. Added(r, c)' = 0 /\ exact'[r][c] = 0
        BY <2>1, Constants DEF Added, Zeros, Channel, AdcInv, TypeOK, SteadyInv
      <4>2. last'[c] \in Nat
        BY <2>1, Constants DEF SteadyInv
      <4> QED BY <3>1, <4>1, <4>2
    <3>2. CASE q # r
      <4>1. /\ pc'[q] = pc[q] /\ exact'[q] = exact[q] /\ since'[q] = since[q]
            /\ Added(q, c)' = Added(q, c)
        BY <2>1, <3>2 DEF Added, AdcInv, TypeOK, SteadyInv, UsedInv
      <4> QED BY <2>1, <2>3, <4>1 DEF SteadyInv, Covered
    <3> QED BY <3>1, <3>2
  <2> QED BY <2>1, <2>2, <2>3 DEF SteadyInv
<1>3. ASSUME NEW r \in Reader, HAdd(r) PROVE SteadyInv'
  <2>1. /\ pc[r] = "sum" /\ j[r] \in Nat /\ j[r] \in Slot /\ ch[r] \in Channel
        /\ ring[ch[r]][j[r]] \in 0 .. MaxSample
    <3>1. pc[r] = "sum"
      BY <1>3 DEF HAdd, Add
    <3>2. j[r] \in Nat /\ j[r] < RingSize /\ ch[r] \in Channel
      BY <3>1 DEF AdcInv, TypeOK
    <3>3. j[r] \in Slot
      BY <3>2, Constants DEF Slot
    <3> QED BY <3>1, <3>2, <3>3 DEF AdcInv, TypeOK
  <2>2. /\ exact' = [exact EXCEPT ![r][ch[r]] = @ + ring[ch[r]][j[r]]]
        /\ UNCHANGED << ticks, stamp, last, steady, ring, since >>
    BY <1>3 DEF HAdd, Add
  <2>3. exact' \in [Reader -> [Channel -> Nat]]
    <3>1. exact[r][ch[r]] + ring[ch[r]][j[r]] \in Nat
      BY <2>1, Constants DEF SteadyInv
    <3> QED BY <2>1, <2>2, <3>1 DEF SteadyInv
  <2>4. \A q \in Reader : pc'[q] \in { "sum", "copy" } => pc[q] \in { "sum", "copy" }
    BY <1>3, <2>1 DEF HAdd, Add, AdcInv, TypeOK
  <2>5. ASSUME NEW q \in Reader, NEW c \in Channel,
               pc[q] \in { "sum", "copy" }, Covered(q, c)
        PROVE  exact'[q][c] = Added(q, c)' * last[c]
    <3>1. exact[q][c] = Added(q, c) * last[c]
      BY <2>5 DEF SteadyInv
    <3>2. CASE q # r
      <4>1. exact'[q][c] = exact[q][c] /\ ch'[q] = ch[q] /\ j'[q] = j[q]
        BY <1>3, <2>2, <3>2 DEF HAdd, Add, SteadyInv, AdcInv, TypeOK
      <4> QED BY <3>1, <4>1 DEF Added
    <3>3. CASE q = r /\ c # ch[r]
      <4>1. exact'[r][c] = exact[r][c]
        BY <2>1, <2>2, <3>3 DEF SteadyInv
      <4>2. Added(r, c)' = Added(r, c)
        BY <1>3, <3>3, AddedStep DEF HAdd
      <4> QED BY <3>1, <3>3, <4>1, <4>2
    <3>4. CASE q = r /\ c = ch[r]
      <4>1. /\ exact'[r][c] = exact[r][c] + ring[c][j[r]]
        BY <2>1, <2>2, <3>4 DEF SteadyInv
      <4>2. Added(r, c)' = j[r] + 1 /\ Added(r, c) = j[r]
        BY <1>3, <2>1, <3>4, AddedStep, Constants DEF HAdd, Added, Channel
      <4>3. steady[c] >= RingSize /\ steady[c] <= ticks /\ steady[c] \in Nat
        BY <1>0, <2>5, Constants DEF Covered, SteadyInv
      <4>4. stamp[j[r]] \in Nat /\ stamp[j[r]] > ticks - RingSize
        BY <1>0, <2>1, <4>3, StampIs, Constants
      <4>5. ring[c][j[r]] = last[c]
        <5>1. stamp[j[r]] > ticks - steady[c]
          BY <1>0, <4>3, <4>4, Constants
        <5> QED BY <2>1, <5>1 DEF SteadyInv
      <4>6. last[c] \in Nat
        BY Constants DEF SteadyInv
      <4>7. (j[r] + 1) * last[c] = j[r] * last[c] + last[c]
        BY <2>1, <4>6, SMT
      <4> QED BY <3>1, <3>4, <4>1, <4>2, <4>5, <4>7
    <3> QED BY <3>2, <3>3, <3>4
  <2> QED BY <2>2, <2>3, <2>4, <2>5 DEF SteadyInv, Covered
<1>4. ASSUME NEW r \in Reader, HResume(r) PROVE SteadyInv'
  <2>1. /\ exact' = [exact EXCEPT ![r] = Zeros] /\ since' = [since EXCEPT ![r] = 0]
        /\ pc' = [pc EXCEPT ![r] = "idle"] /\ j' = [j EXCEPT ![r] = 0]
        /\ UNCHANGED << ticks, stamp, last, steady, ring, ch >>
    BY <1>4 DEF HResume, Resume
  <2>2. Zeros \in [Channel -> Nat] /\ exact' \in [Reader -> [Channel -> Nat]]
    BY <2>1 DEF Zeros, SteadyInv
  <2>3. ASSUME NEW q \in Reader, NEW c \in Channel,
               pc'[q] \in { "sum", "copy" }, Covered(q, c)'
        PROVE  exact'[q][c] = Added(q, c)' * last'[c]
    <3>1. q # r
      BY <2>1, <2>3 DEF AdcInv, TypeOK
    <3>2. /\ pc'[q] = pc[q] /\ exact'[q] = exact[q] /\ since'[q] = since[q]
          /\ Added(q, c)' = Added(q, c)
      BY <2>1, <3>1 DEF Added, AdcInv, TypeOK, SteadyInv, UsedInv
    <3> QED BY <2>1, <2>3, <3>2 DEF SteadyInv, Covered
  <2> QED BY <2>1, <2>2, <2>3 DEF SteadyInv
<1>5. ASSUME NEW r \in Reader, CopyOut(r), UNCHANGED hist PROVE SteadyInv'
  <2>1. /\ pc' = [pc EXCEPT ![r] = "done"]
        /\ UNCHANGED << j, ch, ticks, ring, stamp, since, exact, last, steady >>
    BY <1>5 DEF CopyOut, hist
  <2>2. \A q \in Reader : pc'[q] \in { "sum", "copy" } => pc'[q] = pc[q]
    BY <2>1 DEF AdcInv, TypeOK
  <2> QED BY <2>1, <2>2 DEF SteadyInv, Covered, Added
<1>6. CASE UNCHANGED readVars
  BY <1>6 DEF readVars, adcVars, hist, SteadyInv, Covered, Added
<1> QED BY <1>1, <1>2, <1>3, <1>4, <1>5, <1>6 DEF HNext

(* The sum of RingSize equal samples has them as its average. *)
LEMMA MeanOfEqual ==
  ASSUME NEW v \in 0 .. MaxSample
  PROVE  Mean(RingSize * v) = v
<1>1. v \in Nat /\ v <= MaxSample
  BY Constants
<1>2. RingSize * v \in Nat /\ RingSize * v <= RingSize * MaxSample
  <2>1. v * RingSize <= MaxSample * RingSize
    BY <1>1, Constants, ProductMono
  <2>2. v * RingSize = RingSize * v /\ MaxSample * RingSize = RingSize * MaxSample
        /\ RingSize * v \in Nat
    BY <1>1, Constants, SMT
  <2> QED BY <2>1, <2>2
<1>3. Mean(RingSize * v) = (RingSize * v) \div RingSize
  BY <1>2, MeanExact
<1>4. (RingSize * v) \div RingSize = v
  BY <1>1, Constants, SMT
<1> QED BY <1>3, <1>4

(* An input steady since before the oldest sample of the ring reads as     *)
(* itself, whatever interrupts come between the loads of a read            *)
(* (at91adc.c:271-317), for every ring and every number of readers.        *)
THEOREM SteadyIsExact == HSpec => []SteadyReadsItself
<1>1. AdcInv /\ RingInv /\ WholeLaps /\ UsedInv /\ SteadyInv /\ [HNext]_readVars
        => SteadyInv'
  BY SteadyStep, StampsNat
<1>2. AdcInv /\ SumsAgree /\ SteadyInv => SteadyReadsItself
  <2> SUFFICES ASSUME AdcInv, SumsAgree, SteadyInv,
                      NEW r \in Reader, NEW c \in Channel,
                      pc[r] = "copy", Covered(r, c)
               PROVE  Mean(sum[r][c]) = last[c]
    BY DEF SteadyReadsItself, Covered
  <2>1. Added(r, c) = RingSize
    BY Constants DEF AdcInv, TypeOK, Added, Channel
  <2>2. sum[r][c] = RingSize * last[c]
    BY <2>1 DEF SumsAgree, SteadyInv
  <2> QED BY <2>2, MeanOfEqual DEF SteadyInv
<1> QED
  BY UsedInvHolds, SteadyInit, SumsInit, SumsStep, <1>1, <1>2, PTL DEF HSpec
==============================================================================
