----------------------------- MODULE FlashModule -----------------------------
(***************************************************************************)
(* flash/at91flash.c: loading and unloading the module, while clients open *)
(* and close the device it registers.  What a call does is module          *)
(* At91Flash; here is whether it finds the globals it uses: mtd, ebcnt and *)
(* bbt.  One action is the code from one call that may sleep to the next.  *)
(***************************************************************************)
EXTENDS Integers

CONSTANTS
  EbCnt,      \* the number of erase blocks of the partition
  Client,     \* the processes that open the device
  MaxLoads    \* bound on the number of times the module is loaded

ASSUME FlashModuleAssumption ==
  /\ EbCnt \in Nat \ {0}
  /\ MaxLoads \in Nat

VARIABLES
  at,       \* where insmod or rmmod is
  mtd,      \* whether the global mtd points to a device
  refs,     \* the references the module holds on mtd devices
  ebcnt,    \* the global ebcnt
  bbt,      \* the global bbt: "null", "table", or "freed"
  scanned,  \* the blocks the scan has entered in the table
  reg,      \* whether the misc device is registered
  open,     \* the clients that have it open
  refused,  \* history: whether an init has ended at the label out
  loads     \* the number of loads

vars == << at, mtd, refs, ebcnt, bbt, scanned, reg, open, refused, loads >>

ExitAt == { "x_put" }
At     == { "absent", "register", "get", "kzalloc", "scan", "loaded", "out", "out_dereg" }
          \cup ExitAt

Init ==
  /\ at = "absent"
  /\ mtd = FALSE
  /\ refs = 0
  /\ ebcnt = 0
  /\ bbt = "null"
  /\ scanned = 0
  /\ reg = FALSE
  /\ open = {}
  /\ refused = FALSE
  /\ loads = 0
------------------------------------------------------------------------------
(* insmod: at91flash_init *)

(* A fresh image of the module: its globals are zero. *)
Insmod ==
  /\ at = "absent"
  /\ loads < MaxLoads
  /\ loads' = loads + 1
  /\ at' = "register"
  /\ mtd' = FALSE
  /\ ebcnt' = 0
  /\ bbt' = "null"
  /\ scanned' = 0
  /\ UNCHANGED << refs, reg, open, refused >>

Register ==
  /\ at = "register"
  /\ \/ reg' = TRUE /\ at' = "get"
     \/ UNCHANGED reg /\ at' = "absent"
  /\ UNCHANGED << mtd, refs, ebcnt, bbt, scanned, open, refused, loads >>

(* Seeded fault: ebcnt computed after the scan instead of before. *)
EbcntLate == 0

(* ebcnt = mtd->size / mtd->erasesize *)
EbcntOf == EbCnt

(* get_mtd_device, then the test of the device's type and the computation  *)
(* of ebcnt.                                                               *)
GetDevice ==
  /\ at = "get"
  /\ \/ /\ reg' = FALSE                       \* no such device
        /\ at' = "absent"
        /\ UNCHANGED << mtd, refs, ebcnt >>
     \/ /\ mtd' = TRUE                        \* not NAND
        /\ refs' = refs + 1
        /\ at' = "out"
        /\ UNCHANGED << ebcnt, reg >>
     \/ /\ mtd' = TRUE
        /\ refs' = refs + 1
        /\ ebcnt' = EbcntOf
        /\ at' = "kzalloc"
        /\ UNCHANGED reg
  /\ UNCHANGED << bbt, scanned, open, refused, loads >>

(* kzalloc of the table. *)
Kzalloc ==
  /\ at = "kzalloc"
  /\ \/ bbt' = "table" /\ at' = "scan"
     \/ UNCHANGED bbt /\ at' = "out"
  /\ UNCHANGED << mtd, refs, ebcnt, scanned, reg, open, refused, loads >>

(* One block of the scan, up to cond_resched. *)
Scan ==
  /\ at = "scan"
  /\ scanned' = scanned + 1
  /\ at' = IF scanned' < ebcnt THEN "scan" ELSE "loaded"
  /\ UNCHANGED << mtd, refs, ebcnt, bbt, reg, open, refused, loads >>

(* kfree(bbt), at out and in exit. *)
Freed == IF bbt = "table" THEN "freed" ELSE bbt

(* The label out: everything is given back ... *)
OutPut ==
  /\ at = "out"
  /\ bbt' = Freed
  /\ refs' = refs - 1
  /\ at' = "out_dereg"
  /\ refused' = TRUE
  /\ UNCHANGED << mtd, ebcnt, scanned, reg, open, loads >>

(* ... and 0 returned all the same, so the module counts as loaded.        *)
OutDeregister ==
  /\ at = "out_dereg"
  /\ reg' = FALSE
  /\ at' = "loaded"
  /\ UNCHANGED << mtd, refs, ebcnt, bbt, scanned, open, refused, loads >>
------------------------------------------------------------------------------
(* rmmod: at91flash_exit.  The kernel unloads a module only when no file   *)
(* of it is open.                                                          *)
Rmmod ==
  /\ at = "loaded"
  /\ open = {}
  /\ reg' = FALSE
  /\ at' = "x_put"
  /\ UNCHANGED << mtd, refs, ebcnt, bbt, scanned, open, refused, loads >>

(* Seeded fault: the reference on the mtd device is kept. *)
KeepDevice == refs

PutDevice == refs - 1

ExitPut ==
  /\ at = "x_put"
  /\ refs' = PutDevice
  /\ bbt' = Freed
  /\ at' = "absent"
  /\ UNCHANGED << mtd, ebcnt, scanned, reg, open, refused, loads >>
------------------------------------------------------------------------------
(* The clients.  An open takes a reference on the module, which the kernel *)
(* refuses once the module is being unloaded, but not while it loads.      *)
Open(c) ==
  /\ reg
  /\ at \notin ExitAt
  /\ open' = open \cup {c}
  /\ UNCHANGED << at, mtd, refs, ebcnt, bbt, scanned, reg, refused, loads >>

Close(c) ==
  /\ c \in open
  /\ open' = open \ {c}
  /\ UNCHANGED << at, mtd, refs, ebcnt, bbt, scanned, reg, refused, loads >>

Next ==
  \/ Insmod \/ Register \/ GetDevice \/ Kzalloc \/ Scan
  \/ OutPut \/ OutDeregister
  \/ Rmmod \/ ExitPut
  \/ \E c \in Client : Open(c) \/ Close(c)

Spec == Init /\ [][Next]_vars
------------------------------------------------------------------------------
TypeOK ==
  /\ at \in At
  /\ mtd \in BOOLEAN
  /\ refs \in Int
  /\ ebcnt \in { 0, EbCnt }
  /\ bbt \in { "null", "table", "freed" }
  /\ scanned \in 0 .. EbCnt
  /\ reg \in BOOLEAN
  /\ open \in SUBSET Client
  /\ refused \in BOOLEAN
  /\ loads \in 0 .. MaxLoads

(* Once the bad block table is there, a client that has the device open    *)
(* finds mtd, ebcnt and bbt set whenever it calls, while the scan still    *)
(* fills the table as well, until the last of them has closed it; and the  *)
(* scan has looked at every block (at91flash.c:616-626, 636-642).          *)
Serves ==
  ~ refused =>
    /\ (open # {} /\ at \in { "scan", "loaded" } \cup ExitAt) =>
         mtd /\ refs > 0 /\ ebcnt = EbCnt /\ bbt = "table"
    /\ at = "loaded" => reg /\ scanned = EbCnt

(* As long as no init ended at out, the driver holds one reference on its  *)
(* mtd device while it needs it, and nothing once it is unloaded or its    *)
(* init has returned an error.                                             *)
Balanced ==
  ~ refused =>
    /\ refs \in { 0, 1 }
    /\ at = "absent" => refs = 0 /\ bbt # "table" /\ ~ reg

(* Strengthening for the proofs: what insmod knows at each point ...       *)
Loading ==
  /\ at \in { "kzalloc", "scan" } => mtd /\ ebcnt = EbCnt
  /\ at \in { "register", "get", "kzalloc" } => scanned = 0
  /\ at = "scan" => scanned < EbCnt

(* ... and what the module holds, as long as no init ended at out.         *)
Held ==
  ~ refused =>
    /\ refs = IF at \in { "absent", "register", "get" } THEN 0 ELSE 1
    /\ reg <=> (at \in { "get", "kzalloc", "out", "scan", "loaded" })
    /\ at = "loaded" => mtd /\ ebcnt = EbCnt /\ scanned = EbCnt
    /\ (bbt = "table") <=> (at \in { "scan", "loaded" } \cup ExitAt)
    /\ at \in ExitAt => open = {}
    /\ at # "out_dereg"

ModuleInv == TypeOK /\ Loading /\ Held
==============================================================================
