------------------------- MODULE FlashModuleProofs -------------------------
(***************************************************************************)
(* Proofs about FlashModule, for any number of blocks, clients and loads.  *)
(***************************************************************************)
EXTENDS FlashModule, TLAPS

LEMMA Constants == EbCnt \in Nat /\ EbCnt > 0 /\ MaxLoads \in Nat
  BY FlashModuleAssumption DEF FlashModuleAssumption

USE Constants

LEMMA Initially == Init => ModuleInv
<1> SUFFICES ASSUME Init PROVE ModuleInv
  OBVIOUS
<1>1. at \in At
  BY DEF Init, At
<1>2. ebcnt \in { 0, EbCnt } /\ scanned \in 0 .. EbCnt /\ loads \in 0 .. MaxLoads
  BY DEF Init
<1>3. open \in SUBSET Client
  BY DEF Init
<1>4. bbt \in { "null", "table", "freed" } /\ refs \in Int
  BY DEF Init
<1>5. mtd \in BOOLEAN /\ reg \in BOOLEAN /\ refused \in BOOLEAN
  BY DEF Init
<1>6. TypeOK
  BY <1>1, <1>2, <1>3, <1>4, <1>5 DEF TypeOK
<1> QED BY <1>6 DEF Init, ModuleInv, Loading, Held, ExitAt

LEMMA TypeStep ==
  ASSUME ModuleInv, [Next]_vars
  PROVE  TypeOK'
<1> DEFINE Flags   == mtd \in BOOLEAN /\ reg \in BOOLEAN /\ refused \in BOOLEAN
           Control == at \in At /\ bbt \in { "null", "table", "freed" }
           Numbers == /\ refs \in Int /\ ebcnt \in { 0, EbCnt }
                      /\ scanned \in 0 .. EbCnt /\ loads \in 0 .. MaxLoads
                      /\ open \in SUBSET Client
<1>1. Flags /\ Control /\ Numbers
  BY DEF ModuleInv, TypeOK
<1>2. Flags'
  <2>1. CASE Insmod \/ Register \/ GetDevice \/ Kzalloc
    BY <1>1, <2>1, Zenon DEF Insmod, Register, GetDevice, Kzalloc
  <2>2. CASE Scan \/ OutPut \/ OutDeregister \/ Rmmod \/ ExitPut
    BY <1>1, <2>2, Zenon DEF Scan, OutPut, OutDeregister, Rmmod, ExitPut
  <2>3. ASSUME NEW c \in Client, Open(c) \/ Close(c) PROVE Flags'
    BY <1>1, <2>3, Zenon DEF Open, Close
  <2>4. CASE UNCHANGED vars
    BY <1>1, <2>4 DEF vars
  <2> QED BY <2>1, <2>2, <2>3, <2>4 DEF Next
<1>3. Control'
  <2>1. CASE Insmod \/ Register \/ GetDevice \/ Kzalloc
    BY <1>1, <2>1 DEF Insmod, Register, GetDevice, Kzalloc, At
  <2>2. CASE Scan \/ OutPut \/ OutDeregister \/ Rmmod \/ ExitPut
    BY <1>1, <2>2 DEF Scan, OutPut, OutDeregister, Rmmod, ExitPut, Freed, At, ExitAt
  <2>3. ASSUME NEW c \in Client, Open(c) \/ Close(c) PROVE Control'
    BY <1>1, <2>3 DEF Open, Close
  <2>4. CASE UNCHANGED vars
    BY <1>1, <2>4 DEF vars
  <2> QED BY <2>1, <2>2, <2>3, <2>4 DEF Next
<1>4. Numbers'
  <2>1. CASE Insmod \/ Register \/ GetDevice \/ Kzalloc
    BY <1>1, <2>1 DEF Insmod, Register, GetDevice, EbcntOf, Kzalloc
  <2>2. CASE Scan
    <3>1. scanned < EbCnt
      BY <2>2 DEF ModuleInv, Loading, Scan
    <3> QED BY <1>1, <2>2, <3>1 DEF Scan
  <2>3. CASE OutPut \/ OutDeregister \/ Rmmod \/ ExitPut
    BY <1>1, <2>3 DEF OutPut, OutDeregister, Rmmod, ExitPut, PutDevice
  <2>4. ASSUME NEW c \in Client, Open(c) \/ Close(c) PROVE Numbers'
    BY <1>1, <2>4 DEF Open, Close
  <2>5. CASE UNCHANGED vars
    BY <1>1, <2>5 DEF vars
  <2> QED BY <2>1, <2>2, <2>3, <2>4, <2>5 DEF Next
<1> QED BY <1>2, <1>3, <1>4 DEF TypeOK

LEMMA LoadingStep ==
  ASSUME ModuleInv, [Next]_vars
  PROVE  Loading'
<1> USE DEF ModuleInv, TypeOK, Loading
<1>1. CASE Insmod
  BY <1>1 DEF Insmod
<1>2. CASE Register
  BY <1>2 DEF Register
<1>3. CASE GetDevice
  <2>1. /\ at = "get" /\ scanned' = scanned
        /\ \/ at' \in { "absent", "out" }
           \/ at' = "kzalloc" /\ mtd' /\ ebcnt' = EbCnt
    BY <1>3 DEF GetDevice, EbcntOf
  <2> QED BY <2>1
<1>4. CASE Kzalloc
  BY <1>4 DEF Kzalloc
<1>5. CASE Scan
  BY <1>5 DEF Scan
<1>6. CASE OutPut \/ OutDeregister \/ Rmmod \/ ExitPut
  BY <1>6 DEF OutPut, OutDeregister, Rmmod, ExitPut
<1>7. ASSUME NEW c \in Client, Open(c) \/ Close(c) PROVE Loading'
  BY <1>7 DEF Open, Close
<1>8. CASE UNCHANGED vars
  BY <1>8 DEF vars
<1> QED BY <1>1, <1>2, <1>3, <1>4, <1>5, <1>6, <1>7, <1>8 DEF Next

LEMMA HeldStep ==
  ASSUME ModuleInv, [Next]_vars
  PROVE  Held'
<1> USE DEF ModuleInv, TypeOK, Loading, Held, ExitAt
<1>1. CASE Insmod
  BY <1>1 DEF Insmod
<1>2. CASE Register
  BY <1>2 DEF Register
<1>3. CASE GetDevice
  <2>1. /\ at = "get" /\ bbt' = bbt /\ (refused' <=> refused)
        /\ \/ at' = "absent" /\ ~ reg' /\ refs' = refs
           \/ at' \in { "out", "kzalloc" } /\ (reg' <=> reg) /\ refs' = refs + 1
    BY <1>3 DEF GetDevice
  <2>2. SUFFICES ASSUME ~ refused PROVE Held'
    BY <2>1
  <2>3. at = "get" /\ refs = 0 /\ reg /\ bbt # "table"
    BY <2>1, <2>2
  <2>4. CASE at' = "absent"
    BY <2>1, <2>3, <2>4
  <2>5. CASE at' \in { "out", "kzalloc" }
    BY <2>1, <2>3, <2>5
  <2> QED BY <2>1, <2>4, <2>5
<1>4. CASE Kzalloc
  BY <1>4 DEF Kzalloc
<1>5. CASE Scan
  BY <1>5 DEF Scan
<1>6. CASE OutPut \/ OutDeregister
  BY <1>6 DEF OutPut, OutDeregister
<1>7. CASE Rmmod
  BY <1>7 DEF Rmmod
<1>8. CASE ExitPut
  BY <1>8 DEF ExitPut, Freed, PutDevice
<1>9. ASSUME NEW c \in Client, Open(c) \/ Close(c) PROVE Held'
  BY <1>9 DEF Open, Close
<1>10. CASE UNCHANGED vars
  BY <1>10 DEF vars
<1> QED
  BY <1>1, <1>2, <1>3, <1>4, <1>5, <1>6, <1>7, <1>8, <1>9, <1>10 DEF Next

(* What insmod and rmmod hold at each step (at91flash.c:588-646). *)
THEOREM ModuleInvHolds == Spec => []ModuleInv
<1>1. ModuleInv /\ [Next]_vars => ModuleInv'
  <2> SUFFICES ASSUME ModuleInv, [Next]_vars PROVE ModuleInv'
    OBVIOUS
  <2> QED BY TypeStep, LoadingStep, HeldStep DEF ModuleInv
<1> QED BY Initially, <1>1, PTL DEF Spec

(* A client of a driver that was not refused finds mtd, ebcnt and bbt set  *)
(* from the moment the table is there until the last client has gone.      *)
THEOREM ServesHolds == Spec => []Serves
<1>1. ModuleInv => Serves
  BY DEF ModuleInv, TypeOK, Loading, Held, Serves, ExitAt
<1> QED BY <1>1, ModuleInvHolds, PTL

(* The references on mtd devices balance unless an init ended at out. *)
THEOREM BalancedHolds == Spec => []Balanced
<1>1. ModuleInv => Balanced
  BY DEF ModuleInv, TypeOK, Held, Balanced, ExitAt
<1> QED BY <1>1, ModuleInvHolds, PTL
==============================================================================
