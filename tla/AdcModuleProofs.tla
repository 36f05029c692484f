-------------------------- MODULE AdcModuleProofs --------------------------
(***************************************************************************)
(* Proofs about AdcModule, for any number of rings, clients and loads:     *)
(* what insmod and rmmod hold at each point is what ModuleInv says, so the *)
(* interrupt finds all it needs and every way out gives everything back.   *)
(***************************************************************************)
EXTENDS AdcModule, TLAPS

LEMMA Constants == Rings \in Nat /\ Rings > 0 /\ MaxLoads \in Nat
  BY AdcModuleAssumption DEF AdcModuleAssumption

USE Constants

LEMMA Initially == Init => ModuleInv
<1> SUFFICES ASSUME Init PROVE ModuleInv
  OBVIOUS
<1>1. TypeOK
  <2>1. cleared \in BOOLEAN /\ irq \in BOOLEAN /\ reg \in BOOLEAN
    BY DEF Init
  <2>2. /\ at = "absent" /\ tried \in 0 .. Rings /\ loads \in 0 .. MaxLoads
        /\ rings \in SUBSET Ring /\ mapped \in SUBSET Unit /\ open \in SUBSET Client
        /\ heap \in SUBSET ((1 .. MaxLoads) \X Ring) /\ removed \in SUBSET (1 .. loads)
    BY DEF Init
  <2>3. clocks \in [Unit -> Int]
    BY DEF Init
  <2> QED BY <2>1, <2>2, <2>3 DEF TypeOK
<1>2. Peripherals
  BY DEF Init, Peripherals, Unit, Holds
<1>3. Handlers /\ Memory
  BY DEF Init, Handlers, Memory, InitAt, ExitAt, OopsAt
<1>4. Allocated
  BY DEF Init, Allocated
<1> QED BY <1>1, <1>2, <1>3, <1>4 DEF ModuleInv
------------------------------------------------------------------------------
(* Each step keeps the type of every variable. *)
LEMMA TypeStep ==
  ASSUME ModuleInv, [Next]_vars
  PROVE  TypeOK'
<1> DEFINE Flags   == cleared \in BOOLEAN /\ irq \in BOOLEAN /\ reg \in BOOLEAN
           Control == at \in { "absent", "loaded" } \cup InitAt \cup UnwindAt \cup ExitAt
                             \cup OopsAt
           Numbers == tried \in 0 .. Rings /\ loads \in 0 .. MaxLoads
           Sets    == /\ rings \in SUBSET Ring /\ mapped \in SUBSET Unit
                      /\ open \in SUBSET Client
           Clocks  == clocks \in [Unit -> Int]
           Buffers == /\ heap \in SUBSET ((1 .. MaxLoads) \X Ring)
                      /\ removed \in SUBSET (1 .. loads)
<1>1. Flags /\ Control /\ Numbers /\ Sets /\ Clocks /\ Buffers
  BY DEF ModuleInv, TypeOK
<1>2. CASE Insmod
  <2>1. Flags'
    BY <1>1, <1>2, Zenon DEF Insmod, hardware
  <2>2. Control' /\ Numbers' /\ Sets' /\ Clocks'
    BY <1>1, <1>2 DEF Insmod, hardware, InitAt
  <2>3. Buffers'
    BY <1>1, <1>2 DEF Insmod
  <2> QED BY <2>1, <2>2, <2>3 DEF TypeOK
<1>3. CASE Register
  <2>1. Flags'
    BY <1>1, <1>3, Zenon DEF Register, memory, hardware
  <2>2. Control' /\ Numbers' /\ Sets' /\ Clocks'
    BY <1>1, <1>3 DEF Register, memory, hardware, counts, InitAt
  <2>3. Buffers'
    BY <1>1, <1>3 DEF Register, memory, counts
  <2> QED BY <2>1, <2>2, <2>3 DEF TypeOK
<1>4. CASE Alloc
  <2>1. Flags'
    BY <1>1, <1>4, Zenon DEF Alloc, hardware
  <2>2. tried \in Nat /\ tried < Rings /\ loads \in 1 .. MaxLoads
    BY <1>1, <1>4 DEF ModuleInv, Memory, Allocated, Alloc
  <2>3. Numbers' /\ Clocks'
    BY <1>1, <1>4, <2>2 DEF Alloc, hardware, counts
  <2>4. Control'
    BY <1>1, <1>4 DEF Alloc, InitAt, UnwindAt
  <2>5. Sets'
    <3>1. tried + 1 \in Ring
      BY <2>2 DEF Ring
    <3>2. rings' = rings \cup { tried + 1 } \/ rings' = rings
      BY <1>4 DEF Alloc
    <3>3. UNCHANGED << mapped, open >>
      BY <1>4 DEF Alloc, hardware
    <3> QED BY <1>1, <3>1, <3>2, <3>3
  <2>6. Buffers'
    <3>1. << loads, tried + 1 >> \in (1 .. MaxLoads) \X Ring
      BY <2>2 DEF Ring
    <3> QED
      BY <1>1, <1>4, <3>1 DEF Alloc, counts
  <2> QED BY <2>1, <2>3, <2>4, <2>5, <2>6 DEF TypeOK
<1>5. ASSUME NEW here, NEW u \in Unit, NEW next \in InitAt, NEW oops \in OopsAt,
             Clock(here, u, next, oops)
      PROVE  TypeOK'
  <2>1. Control' /\ Clocks'
    BY <1>1, <1>5 DEF Clock
  <2> QED
    BY <1>1, <1>5, <2>1 DEF Clock, memory, counts, TypeOK
<1>6. ASSUME NEW here, NEW u \in Unit, NEW next \in InitAt, Map(here, u, next)
      PROVE  TypeOK'
  <2>1. Control'
    BY <1>6 DEF Map, Unmapped, UnwindAt
  <2> QED
    BY <1>1, <1>6, <2>1 DEF Map, memory, counts, TypeOK
<1>7. CASE RequestIrq
  <2>1. Flags'
    BY <1>1, <1>7, Zenon DEF RequestIrq, memory
  <2>2. Control' /\ Numbers' /\ Sets' /\ Clocks' /\ Buffers'
    BY <1>1, <1>7 DEF RequestIrq, memory, counts, UnwindAt
  <2> QED BY <2>1, <2>2 DEF TypeOK
<1>8. CASE Unwind
  <2>1. Flags'
    BY <1>1, <1>8 DEF Unwind
  <2>2. Control'
    BY <1>8 DEF Unwind, UnwindAt
  <2>3. Numbers' /\ Sets'
    BY <1>1, <1>8 DEF Unwind, counts
  <2>4. Clocks'
    BY <1>1, <1>8 DEF Unwind, UnwindClock
  <2>5. Buffers'
    BY <1>1, <1>8 DEF Unwind, Freed, counts
  <2> QED BY <2>1, <2>2, <2>3, <2>4, <2>5 DEF TypeOK
<1>9. CASE Rmmod \/ ExitClocks \/ ExitIrq \/ ExitUnmap \/ ExitDeregister
  <2>1. Flags'
    BY <1>1, <1>9, Zenon DEF Rmmod, ExitClocks, ExitIrq, FreeIrq, ExitUnmap,
                             ExitDeregister, memory, hardware
  <2>2. Control' /\ Numbers' /\ Sets' /\ Clocks'
    BY <1>1, <1>9 DEF Rmmod, ExitClocks, ExitIrq, FreeIrq, ExitUnmap,
                      ExitDeregister, memory, hardware, counts, ExitAt
  <2>3. Buffers'
    <3>1. at # "absent"
      BY <1>9 DEF Rmmod, ExitClocks, ExitIrq, ExitUnmap, ExitDeregister
    <3>2. loads \in 1 .. loads
      BY <1>1, <3>1 DEF ModuleInv, Allocated
    <3> QED
      BY <1>1, <1>9, <3>2 DEF Rmmod, ExitClocks, ExitIrq, ExitUnmap, ExitDeregister,
                              memory, counts
  <2> QED BY <2>1, <2>2, <2>3 DEF TypeOK
<1>10. ASSUME NEW c \in Client, Open(c) \/ Close(c) PROVE TypeOK'
  BY <1>1, <1>10 DEF Open, Close, memory, hardware, counts, TypeOK
<1>11. CASE UNCHANGED vars
  BY <1>11 DEF vars, ModuleInv, TypeOK
<1> QED
  BY <1>2, <1>3, <1>4, <1>5, <1>6, <1>7, <1>8, <1>9, <1>10, <1>11
  DEF Next, Unit, InitAt, OopsAt

(* The clocks and the register windows. *)
LEMMA PeripheralsStep ==
  ASSUME ModuleInv, [Next]_vars
  PROVE  Peripherals'
<1> USE DEF ModuleInv, TypeOK, Peripherals, Holds, Unit
<1>1. CASE Insmod
  BY <1>1 DEF Insmod, hardware
<1>2. CASE Register
  BY <1>2 DEF Register, hardware
<1>3. CASE Alloc
  BY <1>3 DEF Alloc, hardware
<1>4. CASE Clock("adc_clk", "adc", "adc_map", "adc_oops") \/ Clock("tc_clk", "tc", "tc_map", "tc_oops")
  BY <1>4 DEF Clock
<1>5. CASE Map("adc_map", "adc", "tc_clk") \/ Map("tc_map", "tc", "irq")
  BY <1>5 DEF Map, Unmapped
<1>6. CASE RequestIrq
  BY <1>6 DEF RequestIrq
<1>7. CASE Unwind
  BY <1>7 DEF Unwind, UnwindClock, UnwindAt
<1>8. CASE Rmmod \/ ExitClocks \/ ExitIrq \/ ExitUnmap \/ ExitDeregister
  BY <1>8 DEF Rmmod, ExitClocks, ExitIrq, FreeIrq, ExitUnmap, ExitDeregister, hardware
<1>9. ASSUME NEW c \in Client, Open(c) \/ Close(c) PROVE Peripherals'
  BY <1>9 DEF Open, Close, hardware
<1>10. CASE UNCHANGED vars
  BY <1>10 DEF vars
<1> QED
  BY <1>1, <1>2, <1>3, <1>4, <1>5, <1>6, <1>7, <1>8, <1>9, <1>10 DEF Next

(* The interrupt handler and the misc device. *)
LEMMA HandlersStep ==
  ASSUME ModuleInv, [Next]_vars
  PROVE  Handlers'
<1> USE DEF ModuleInv, TypeOK, Handlers
<1>1. CASE Insmod \/ Register \/ Alloc
  BY <1>1 DEF Insmod, Register, Alloc, hardware
<1>2. CASE Clock("adc_clk", "adc", "adc_map", "adc_oops") \/ Clock("tc_clk", "tc", "tc_map", "tc_oops")
  BY <1>2 DEF Clock
<1>3. CASE Map("adc_map", "adc", "tc_clk") \/ Map("tc_map", "tc", "irq")
  BY <1>3 DEF Map, Unmapped, Unit
<1>4. CASE RequestIrq
  BY <1>4 DEF RequestIrq
<1>5. CASE Unwind
  BY <1>5 DEF Unwind, UnwindAt
<1>6. CASE Rmmod \/ ExitClocks \/ ExitIrq \/ ExitUnmap \/ ExitDeregister
  BY <1>6 DEF Rmmod, ExitClocks, ExitIrq, FreeIrq, ExitUnmap, ExitDeregister, hardware
<1>7. ASSUME NEW c \in Client, Open(c) \/ Close(c) PROVE Handlers'
  BY <1>7 DEF Open, Close, hardware
<1>8. CASE UNCHANGED vars
  BY <1>8 DEF vars
<1> QED BY <1>1, <1>2, <1>3, <1>4, <1>5, <1>6, <1>7, <1>8 DEF Next

(* The rings. *)
LEMMA MemoryStep ==
  ASSUME ModuleInv, [Next]_vars
  PROVE  Memory'
<1> USE DEF ModuleInv, TypeOK, Memory, Ready, InitAt, ExitAt, OopsAt
<1>1. CASE Insmod \/ Register
  BY <1>1 DEF Insmod, Register, memory
<1>2. CASE Alloc
  BY <1>2 DEF Alloc, AllAllocated
<1>3. CASE Clock("adc_clk", "adc", "adc_map", "adc_oops") \/ Clock("tc_clk", "tc", "tc_map", "tc_oops")
  BY <1>3 DEF Clock, memory
<1>4. CASE Map("adc_map", "adc", "tc_clk") \/ Map("tc_map", "tc", "irq")
  BY <1>4 DEF Map, Unmapped, memory, Unit
<1>5. CASE RequestIrq
  BY <1>5 DEF RequestIrq, memory
<1>6. CASE Unwind
  BY <1>6 DEF Unwind, UnwindAt
<1>7. CASE Rmmod \/ ExitClocks \/ ExitIrq \/ ExitUnmap \/ ExitDeregister
  BY <1>7 DEF Rmmod, ExitClocks, ExitIrq, ExitUnmap, ExitDeregister, memory
<1>8. ASSUME NEW c \in Client, Open(c) \/ Close(c) PROVE Memory'
  BY <1>8 DEF Open, Close, memory
<1>9. CASE UNCHANGED vars
  BY <1>9 DEF vars
<1> QED BY <1>1, <1>2, <1>3, <1>4, <1>5, <1>6, <1>7, <1>8, <1>9 DEF Next

(* What is allocated. *)
LEMMA AllocatedStep ==
  ASSUME ModuleInv, [Next]_vars
  PROVE  Allocated'
<1>1. /\ heap = (removed \X Ring) \cup ({ loads } \X rings)
      /\ at # "absent" => loads > 0 /\ loads \notin removed
      /\ at = "absent" => rings = {}
      /\ rings \in SUBSET Ring /\ removed \in SUBSET (1 .. loads) /\ loads \in Nat
  BY DEF ModuleInv, Allocated, Memory, TypeOK
<1>2. CASE Insmod
  <2>1. heap' = (removed' \X Ring) \cup ({ loads' } \X rings')
    BY <1>1, <1>2 DEF Insmod
  <2>2. loads' > 0 /\ loads' \notin removed'
    BY <1>1, <1>2 DEF Insmod
  <2> QED BY <2>1, <2>2 DEF Allocated
<1>3. CASE Alloc
  <2>1. /\ loads' = loads /\ removed' = removed /\ at # "absent"
    BY <1>3 DEF Alloc, counts
  <2>2. heap' = (removed' \X Ring) \cup ({ loads' } \X rings')
    <3>1. CASE /\ rings' = rings \cup { tried + 1 }
               /\ heap' = heap \cup { << loads, tried + 1 >> }
      BY <1>1, <2>1, <3>1
    <3>2. CASE UNCHANGED << rings, heap >>
      BY <1>1, <2>1, <3>2
    <3> QED BY <1>3, <3>1, <3>2 DEF Alloc
  <2> QED BY <1>1, <2>1, <2>2 DEF Allocated
<1>4. CASE Unwind
  <2>1. loads' = loads /\ removed' = removed /\ at # "absent"
    BY <1>4 DEF Unwind, UnwindAt, counts
  <2>2. heap' = (removed' \X Ring) \cup ({ loads' } \X rings')
    <3>1. CASE at = "exit_3"
      <4>1. heap' = Freed /\ rings' = {}
        BY <1>4, <3>1 DEF Unwind
      <4>2. Freed = removed \X Ring
        BY <1>1, <2>1 DEF Freed
      <4> QED BY <2>1, <4>1, <4>2
    <3>2. CASE at # "exit_3"
      BY <1>1, <1>4, <2>1, <3>2 DEF Unwind
    <3> QED BY <3>1, <3>2
  <2> QED BY <1>1, <2>1, <2>2 DEF Allocated
<1>5. CASE ExitDeregister
  <2>1. /\ rings = Ring /\ at' = "absent" /\ rings' = {}
        /\ removed' = removed \cup { loads } /\ UNCHANGED << heap, loads >>
    BY <1>5 DEF ExitDeregister, ModuleInv, Memory, Ready, ExitAt
  <2>2. heap' = (removed' \X Ring) \cup ({ loads' } \X rings')
    BY <1>1, <2>1
  <2> QED BY <2>1, <2>2 DEF Allocated
<1>6. ASSUME UNCHANGED << rings, heap, counts >>, at' # "absent" => at # "absent"
      PROVE  Allocated'
  BY <1>1, <1>6 DEF Allocated, counts
<1>7. CASE Register \/ RequestIrq
  BY <1>6, <1>7 DEF Register, RequestIrq, memory
<1>8. CASE Clock("adc_clk", "adc", "adc_map", "adc_oops") \/ Clock("tc_clk", "tc", "tc_map", "tc_oops")
  BY <1>6, <1>8 DEF Clock, memory
<1>9. CASE Map("adc_map", "adc", "tc_clk") \/ Map("tc_map", "tc", "irq")
  BY <1>6, <1>9 DEF Map, memory
<1>10. CASE Rmmod \/ ExitClocks \/ ExitIrq \/ ExitUnmap
  BY <1>6, <1>10 DEF Rmmod, ExitClocks, ExitIrq, ExitUnmap, memory
<1>11. ASSUME NEW c \in Client, Open(c) \/ Close(c) PROVE Allocated'
  BY <1>6, <1>11 DEF Open, Close, memory
<1>12. CASE UNCHANGED vars
  BY <1>6, <1>12 DEF vars, counts
<1> QED
  BY <1>2, <1>3, <1>4, <1>5, <1>7, <1>8, <1>9, <1>10, <1>11, <1>12 DEF Next
------------------------------------------------------------------------------
(* What insmod and rmmod hold at each of their steps (at91adc.c:346-582).  *)
THEOREM ModuleInvHolds == Spec => []ModuleInv
<1>1. ModuleInv /\ [Next]_vars => ModuleInv'
  <2> SUFFICES ASSUME ModuleInv, [Next]_vars PROVE ModuleInv'
    OBVIOUS
  <2>1. TypeOK' /\ Peripherals' /\ Handlers' /\ Memory' /\ Allocated'
    BY TypeStep, PeripheralsStep, HandlersStep, MemoryStep, AllocatedStep
  <2> QED
    BY <2>1 DEF ModuleInv
<1> QED BY Initially, <1>1, PTL DEF Spec

(* An interrupt finds every ring allocated and zeroed and both register    *)
(* windows mapped, whenever it comes.                                      *)
THEOREM IsrReadyHolds == Spec => []IsrReady
<1>1. ModuleInv => IsrReady
  <2> SUFFICES ASSUME ModuleInv, irq PROVE Ready /\ mapped = Unit
    BY DEF IsrReady
  <2>1. at \in { "loaded", "x_clk", "x_irq" }
    BY DEF ModuleInv, Handlers
  <2>2. Ready
    BY <2>1 DEF ModuleInv, Memory, InitAt, ExitAt, OopsAt
  <2>3. mapped = Unit
    BY <2>1 DEF ModuleInv, Peripherals, TypeOK, Holds, Unit
  <2> QED BY <2>2, <2>3
<1> QED BY <1>1, ModuleInvHolds, PTL

(* No client of a device whose insmod has succeeded, or got as far as the  *)
(* clocks, finds a ring missing.                                           *)
THEOREM ServesHolds == Spec => []Serves
<1>1. ModuleInv /\ Clientless => Serves
  <2> SUFFICES ASSUME ModuleInv, Clientless, open # {}, ~ Ready
               PROVE  at \in { "alloc" } \cup UnwindAt
    BY DEF Serves
  <2>1. at \notin (InitAt \ { "register", "alloc" }) \cup ExitAt \cup OopsAt \cup { "loaded" }
    BY DEF ModuleInv, Memory
  <2>2. at \notin { "absent", "register" }
    BY DEF Clientless
  <2> QED BY <2>1, <2>2 DEF ModuleInv, TypeOK, InitAt
<1>2. Init => Clientless
  BY DEF Init, Clientless
<1>3. ModuleInv /\ Clientless /\ [Next]_vars => Clientless'
  <2> SUFFICES ASSUME ModuleInv, Clientless, [Next]_vars PROVE Clientless'
    OBVIOUS
  <2> USE DEF Clientless, ExitAt
  <2>1. CASE Insmod \/ Register \/ Alloc \/ RequestIrq
    BY <2>1 DEF Insmod, Register, Alloc, RequestIrq
  <2>2. CASE Clock("adc_clk", "adc", "adc_map", "adc_oops") \/ Clock("tc_clk", "tc", "tc_map", "tc_oops")
    BY <2>2 DEF Clock
  <2>3. CASE Map("adc_map", "adc", "tc_clk") \/ Map("tc_map", "tc", "irq")
    BY <2>3 DEF Map, Unmapped, Unit
  <2>4. CASE Unwind
    BY <2>4 DEF Unwind, UnwindAt
  <2>5. CASE Rmmod \/ ExitClocks \/ ExitIrq \/ ExitUnmap \/ ExitDeregister
    BY <2>5 DEF Rmmod, ExitClocks, ExitIrq, ExitUnmap, ExitDeregister, ExitAt
  <2>6. ASSUME NEW c \in Client, Open(c) \/ Close(c) PROVE Clientless'
    BY <2>6 DEF Open, Close, ModuleInv, Handlers
  <2>7. CASE UNCHANGED vars
    BY <2>7 DEF vars
  <2> QED BY <2>1, <2>2, <2>3, <2>4, <2>5, <2>6, <2>7 DEF Next
<1> QED BY <1>1, <1>2, <1>3, ModuleInvHolds, PTL DEF Spec

(* Every failure of init gives back the clocks, the register windows, the  *)
(* handler, the device and the rings, and nothing twice; exit gives back   *)
(* the same but the rings, which stay allocated (at91adc.c:528-582).       *)
THEOREM GivenBackHolds == Spec => []GivenBack
<1>1. ModuleInv => GivenBack
  <2> SUFFICES ASSUME ModuleInv PROVE GivenBack
    OBVIOUS
  <2>1. \A u \in Unit : clocks[u] \in { 0, 1 }
    BY DEF ModuleInv, Peripherals
  <2>2. ASSUME at = "absent"
        PROVE  /\ \A u \in Unit : clocks[u] = 0
               /\ mapped = {} /\ ~ irq /\ ~ reg
    BY <2>2 DEF ModuleInv, Peripherals, Handlers, Holds, Unit, TypeOK
  <2>3. ASSUME at = "absent"
        PROVE  heap = removed \X Ring
    BY <2>3 DEF ModuleInv, Memory, Allocated
  <2> QED BY <2>1, <2>2, <2>3 DEF GivenBack
<1> QED BY <1>1, ModuleInvHolds, PTL
==============================================================================
