------------------------------ MODULE AdcModule ------------------------------
(***************************************************************************)
(* at91adc/at91adc.c: loading and unloading the module, while clients open *)
(* and close the device it registers.                                      *)
(*                                                                         *)
(* One action is the code from one call that may sleep to the next, as in  *)
(* At91Flash: the other processes run only there.  What a read or an       *)
(* interrupt does is module AdcRing; here is what it finds when it comes.  *)
(***************************************************************************)
EXTENDS Integers

CONSTANTS
  Rings,      \* the number of rings: at91adc_pbuf0 .. 11 without 5
  Client,     \* the processes that open the device
  MaxLoads    \* bound on the number of times the module is loaded

ASSUME AdcModuleAssumption ==
  /\ Rings \in Nat \ {0}
  /\ MaxLoads \in Nat

Ring == 1 .. Rings
Unit == { "adc", "tc" }    \* the two peripherals: the converter, the timer

VARIABLES
  at,       \* where insmod or rmmod is
  tried,    \* the number of rings kmalloc has been asked for
  rings,    \* the rings its pointers reach
  heap,     \* the buffers of kmalloc not freed: of which load, for which ring
  cleared,  \* whether the rings have been zeroed
  clocks,   \* how often each peripheral's clock has been enabled
  mapped,   \* the peripherals whose registers are mapped
  irq,      \* whether at91tc0_isr is installed
  reg,      \* whether the misc device is registered
  open,     \* the clients that have it open
  loads,    \* the number of loads
  removed   \* history: the loads that rmmod has ended

vars == << at, tried, rings, heap, cleared, clocks, mapped, irq, reg, open, loads, removed >>
hardware == << clocks, mapped, irq >>
memory   == << tried, rings, heap, cleared >>
counts   == << loads, removed >>

InitAt   == { "register", "alloc", "adc_clk", "adc_map", "tc_clk", "tc_map", "irq" }
UnwindAt == { "exit_6", "exit_5", "exit_4", "exit_3", "exit_2" }
ExitAt   == { "x_clk", "x_irq", "x_unmap", "x_dereg" }
OopsAt   == { "adc_oops", "tc_oops" }    \* insmod has died, the module is half loaded

Init ==
  /\ at = "absent"
  /\ tried = 0
  /\ rings = {}
  /\ heap = {}
  /\ cleared = FALSE
  /\ clocks = [u \in Unit |-> 0]
  /\ mapped = {}
  /\ irq = FALSE
  /\ reg = FALSE
  /\ open = {}
  /\ loads = 0
  /\ removed = {}
------------------------------------------------------------------------------
(* insmod: at91adc_init *)

(* A fresh image of the module: its pointers are NULL. *)
Insmod ==
  /\ at = "absent"
  /\ loads < MaxLoads
  /\ loads' = loads + 1
  /\ at' = "register"
  /\ tried' = 0
  /\ rings' = {}
  /\ cleared' = FALSE
  /\ UNCHANGED << heap, hardware, reg, open, removed >>

Register ==
  /\ at = "register"
  /\ \/ reg' = TRUE /\ at' = "alloc"
     \/ UNCHANGED reg /\ at' = "absent"
  /\ UNCHANGED << memory, hardware, open, counts >>

(* Seeded fault: no test of the pointers. *)
Unchecked(have) == TRUE

(* The test of all eleven pointers against NULL. *)
AllAllocated(have) == have = Ring

(* One kmalloc; the last is followed by the test of all the pointers and,  *)
(* if it passes, by the loop that zeroes the rings.                        *)
Alloc ==
  /\ at = "alloc"
  /\ tried' = tried + 1
  /\ \/ rings' = rings \cup { tried + 1 } /\ heap' = heap \cup { << loads, tried + 1 >> }
     \/ UNCHANGED << rings, heap >>
  /\ \/ /\ tried' < Rings
        /\ UNCHANGED << at, cleared >>
     \/ /\ tried' = Rings
        /\ AllAllocated(rings')
        /\ at' = "adc_clk"
        /\ cleared' = TRUE
     \/ /\ tried' = Rings
        /\ ~ AllAllocated(rings')
        /\ at' = "exit_3"
        /\ UNCHANGED cleared
  /\ UNCHANGED << hardware, reg, open, counts >>

(* clk_get and clk_enable of one peripheral.  What clk_get answers is not  *)
(* tested: an error is taken for a clock, and enabling it is an oops that  *)
(* ends insmod and leaves a module that can neither finish nor be removed. *)
Clock(here, u, next, oops) ==
  /\ at = here
  /\ \/ clocks' = [clocks EXCEPT ![u] = @ + 1] /\ at' = next
     \/ UNCHANGED clocks /\ at' = oops
  /\ UNCHANGED << memory, mapped, irq, reg, open, counts >>

(* Seeded fault: both failures to map jump to the same label. *)
SameLabel(u) == "exit_5"

(* The label a failed ioremap_nocache jumps to. *)
Unmapped(u) == IF u = "adc" THEN "exit_4" ELSE "exit_5"

(* ioremap_nocache of one peripheral's registers. *)
Map(here, u, next) ==
  /\ at = here
  /\ \/ mapped' = mapped \cup {u} /\ at' = next
     \/ UNCHANGED mapped /\ at' = Unmapped(u)
  /\ UNCHANGED << memory, clocks, irq, reg, open, counts >>

(* request_irq, the timer running already. *)
RequestIrq ==
  /\ at = "irq"
  /\ \/ irq' = TRUE /\ at' = "loaded"
     \/ UNCHANGED irq /\ at' = "exit_6"
  /\ UNCHANGED << memory, clocks, mapped, reg, open, counts >>

(* clk_disable at exit_5 and exit_4. *)
UnwindClock ==
  [u \in Unit |-> IF << at, u >> \in { << "exit_5", "tc" >>, << "exit_4", "adc" >> }
                  THEN clocks[u] - 1 ELSE clocks[u]]

(* Seeded fault: one kfree of the eleven is commented out. *)
FreedButOne == heap \ ({ loads } \X (rings \ { Rings }))

(* The eleven kfrees of exit_3; a pointer that is NULL frees nothing. *)
Freed == heap \ ({ loads } \X rings)

(* The labels exit_6 to exit_2, each falling through to the next.  At the  *)
(* end the module goes, open or not: a client that has opened the device   *)
(* meanwhile is left with one whose code is gone, and is followed no more. *)
Unwind ==
  /\ at \in UnwindAt
  /\ at' = CASE at = "exit_6" -> "exit_5"
             [] at = "exit_5" -> "exit_4"
             [] at = "exit_4" -> "exit_3"
             [] at = "exit_3" -> "exit_2"
             [] at = "exit_2" -> "absent"
  /\ mapped' = mapped \ CASE at = "exit_6" -> {"tc"}
                          [] at = "exit_5" -> {"adc"}
                          [] OTHER         -> {}
  /\ clocks' = UnwindClock
  /\ rings' = IF at = "exit_3" THEN {} ELSE rings
  /\ heap' = IF at = "exit_3" THEN Freed ELSE heap
  /\ reg' = (at # "exit_2" /\ reg)
  /\ open' = IF at = "exit_2" THEN {} ELSE open
  /\ UNCHANGED << tried, cleared, irq, counts >>
------------------------------------------------------------------------------
(* rmmod: at91adc_exit *)

(* The kernel unloads a module only when no file of it is open. *)
Rmmod ==
  /\ at = "loaded"
  /\ open = {}
  /\ at' = "x_clk"
  /\ UNCHANGED << memory, hardware, reg, open, counts >>

ExitClocks ==
  /\ at = "x_clk"
  /\ clocks' = [u \in Unit |-> clocks[u] - 1]
  /\ at' = "x_irq"
  /\ UNCHANGED << memory, mapped, irq, reg, open, counts >>

(* Seeded fault: the registers are unmapped before the handler is removed. *)
UnmapFirst ==
  /\ mapped' = {}
  /\ UNCHANGED irq

(* free_irq comes before the iounmaps. *)
FreeIrq ==
  /\ irq' = FALSE
  /\ UNCHANGED mapped

ExitIrq ==
  /\ at = "x_irq"
  /\ FreeIrq
  /\ at' = "x_unmap"
  /\ UNCHANGED << memory, clocks, reg, open, counts >>

(* Both iounmaps.  The kfrees that follow are commented out. *)
ExitUnmap ==
  /\ at = "x_unmap"
  /\ mapped' = {}
  /\ at' = "x_dereg"
  /\ UNCHANGED << memory, clocks, irq, reg, open, counts >>

(* The module goes, and the pointers with it; the rings stay allocated.    *)
ExitDeregister ==
  /\ at = "x_dereg"
  /\ reg' = FALSE
  /\ at' = "absent"
  /\ rings' = {}
  /\ removed' = removed \cup { loads }
  /\ UNCHANGED << tried, heap, cleared, hardware, open, loads >>
------------------------------------------------------------------------------
(* The clients.  An open takes a reference on the module, which the kernel *)
(* refuses once the module is being unloaded, but not while it loads.      *)
Open(c) ==
  /\ reg
  /\ at \notin ExitAt
  /\ open' = open \cup {c}
  /\ UNCHANGED << at, memory, hardware, reg, counts >>

Close(c) ==
  /\ c \in open
  /\ open' = open \ {c}
  /\ UNCHANGED << at, memory, hardware, reg, counts >>

Next ==
  \/ Insmod \/ Register \/ Alloc
  \/ Clock("adc_clk", "adc", "adc_map", "adc_oops") \/ Map("adc_map", "adc", "tc_clk")
  \/ Clock("tc_clk", "tc", "tc_map", "tc_oops") \/ Map("tc_map", "tc", "irq")
  \/ RequestIrq \/ Unwind
  \/ Rmmod \/ ExitClocks \/ ExitIrq \/ ExitUnmap \/ ExitDeregister
  \/ \E c \in Client : Open(c) \/ Close(c)

Spec == Init /\ [][Next]_vars
------------------------------------------------------------------------------
TypeOK ==
  /\ at \in { "absent", "loaded" } \cup InitAt \cup UnwindAt \cup ExitAt \cup OopsAt
  /\ tried \in 0 .. Rings
  /\ rings \in SUBSET Ring
  /\ heap \in SUBSET ((1 .. MaxLoads) \X Ring)
  /\ cleared \in BOOLEAN
  /\ clocks \in [Unit -> Int]
  /\ mapped \in SUBSET Unit
  /\ irq \in BOOLEAN
  /\ reg \in BOOLEAN
  /\ open \in SUBSET Client
  /\ loads \in 0 .. MaxLoads
  /\ removed \in SUBSET (1 .. loads)

Ready == rings = Ring /\ cleared

(* The interrupt, which may come at any time while its handler is          *)
(* installed, finds every ring allocated and zeroed and both peripherals   *)
(* mapped: on the way in (at91adc.c:508) and on the way out                *)
(* (at91adc.c:569-574).                                                    *)
IsrReady == irq => Ready /\ mapped = Unit

(* Wherever init fails and says so, it has given back all it had taken,    *)
(* and only that: no clock is left running or stopped twice, no register   *)
(* window left mapped, no device left registered, no ring left allocated,  *)
(* though kmalloc failed for any of them.  Exit gives back the same but    *)
(* the rings: each rmmod leaves all eleven allocated, and nothing else     *)
(* ever does (at91adc.c:528-560, 562-582).                                 *)
GivenBack ==
  /\ \A u \in Unit : clocks[u] \in { 0, 1 }
  /\ at = "absent" =>
       /\ \A u \in Unit : clocks[u] = 0
       /\ mapped = {} /\ ~ irq /\ ~ reg
       /\ heap = removed \X Ring

(* The device is there before its rings, and a read sums up a ring without *)
(* asking whether it is there.  A client finds rings missing or not zeroed *)
(* only while the insmod it overtook still runs, and never once that has   *)
(* succeeded, up to its close and through every rmmod (at91adc.c:349-354,  *)
(* 578).                                                                   *)
Serves == open # {} /\ ~ Ready => at \in { "alloc" } \cup UnwindAt

(* What insmod or rmmod holds at each point: the strengthening for the     *)
(* proofs.                                                                 *)
Holds(u) ==
  IF u = "adc"
  THEN [ on  |-> { "adc_map", "tc_clk", "tc_map", "irq", "loaded", "x_clk",
                   "exit_6", "exit_5", "exit_4", "tc_oops" },
         map |-> { "tc_clk", "tc_map", "irq", "loaded", "x_clk", "x_irq",
                   "x_unmap", "exit_6", "exit_5", "tc_oops" } ]
  ELSE [ on  |-> { "tc_map", "irq", "loaded", "x_clk", "exit_6", "exit_5" },
         map |-> { "irq", "loaded", "x_clk", "x_irq", "x_unmap", "exit_6" } ]

Peripherals ==
  \A u \in Unit :
    /\ clocks[u] = IF at \in Holds(u).on THEN 1 ELSE 0
    /\ (u \in mapped) <=> (at \in Holds(u).map)

Handlers ==
  /\ irq <=> (at \in { "loaded", "x_clk", "x_irq" })
  /\ reg <=> (at \notin { "absent", "register" })

Memory ==
  /\ at \in { "absent", "register", "exit_2" } => rings = {}
  /\ at = "register" => tried = 0 /\ ~ cleared
  /\ at = "alloc" => tried < Rings /\ ~ cleared /\ rings \subseteq 1 .. tried
  /\ at \in (InitAt \ { "register", "alloc" }) \cup ExitAt \cup OopsAt \cup { "loaded" } => Ready

(* What is allocated: what the pointers reach, and what rmmods have left. *)
Allocated ==
  /\ heap = (removed \X Ring) \cup ({ loads } \X rings)
  /\ at # "absent" => loads > 0 /\ loads \notin removed

(* Nobody has it open where it is not registered, or being unloaded. *)
Clientless == at \in { "absent", "register" } \cup ExitAt => open = {}

ModuleInv == TypeOK /\ Peripherals /\ Handlers /\ Memory /\ Allocated
==============================================================================
