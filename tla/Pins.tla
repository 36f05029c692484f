-------------------------------- MODULE Pins --------------------------------
(***************************************************************************)
(* at91gpio/at91gpio.c, cdma-mc323/at91mc323.c and the line of             *)
(* ds18b20/ds18b20.c: three drivers that drive the same GPIO lines and do  *)
(* not know of each other.                                                 *)
(*                                                                         *)
(* A line is a number, less PIN_BASE, through the four PIO controllers,    *)
(* each with 32-bit registers; a register is the set of its bits that are  *)
(* 1.  No call sleeps between its first and its last access to a line, so  *)
(* a call is one action.  Lines that init of at91adc gives to its          *)
(* converter (at91adc.c:437-449: PB6 to PB15 and PB17) are taken not to be *)
(* asked for while that driver is loaded.                                  *)
(***************************************************************************)
EXTENDS Integers

CONSTANTS
  Requests,    \* the <<which_port, which_pin>> the clients ask for
  Wired        \* the lines something outside drives

ASSUME PinsAssumption ==
  /\ Requests \subseteq Int \X (0 .. 31)
  /\ Wired \subseteq 0 .. 127

Bank == 0 .. 3
Bit  == 0 .. 31

VARIABLES
  osr,       \* output status register of each controller
  odsr,      \* output data status register of each controller
  outside,   \* the bits held high from outside
  pin,       \* DS18B20_PIN
  gpio,      \* whether at91gpio is loaded
  loaded,    \* whether at91mc323 is loaded
  call,      \* history: the last call, what it asked of which line, and its answer
  named      \* history: the lines other drivers' clients named since the modem's was loaded

vars == << osr, odsr, outside, pin, gpio, loaded, call, named >>

NoLine == << -1, 0 >>
NoPin  == -32              \* DS18B20_PIN before an ioctl: 0, which is no line

MC323_RST     == 2         \* AT91_PIN_PA2, and so on
MC323_POWERON == 3
MC323_RING    == 7
MC323_WAKEUP  == 8

Called(op, l, value) == [op |-> op, line |-> l, value |-> value]
NoCall == Called("none", NoLine, FALSE)

Init ==
  /\ osr = [b \in Bank |-> {}]
  /\ odsr = [b \in Bank |-> {}]
  /\ outside = [b \in Bank |-> {}]
  /\ pin = NoPin
  /\ gpio = FALSE
  /\ loaded = FALSE
  /\ call = NoCall
  /\ named = {}
------------------------------------------------------------------------------
(* The kernel's access to the lines: a number that is no line is refused,  *)
(* and nobody looks.                                                       *)
IsLine(p) == p \in 0 .. 127

Add(reg, p) ==
  IF IsLine(p) THEN [reg EXCEPT ![p \div 32] = @ \cup { p % 32 }] ELSE reg

Remove(reg, p) ==
  IF IsLine(p) THEN [reg EXCEPT ![p \div 32] = @ \ { p % 32 }] ELSE reg

Has(reg, p) == IsLine(p) /\ p % 32 \in reg[p \div 32]

at91_get_gpio_value(p) == IF Has(osr, p) THEN Has(odsr, p) ELSE Has(outside, p)
------------------------------------------------------------------------------
(* at91gpio *)

(* Seeded fault: no port is refused. *)
AnyPort(port, n) == 32 * port + n

(* Seeded fault: port B numbered like port A. *)
PortBAsA(port, n) ==
  CASE port \in {0, 2, 3} -> 32 * port + n [] port = 1 -> n [] OTHER -> -1

(* The number of a line, less PIN_BASE, the same in at91gpio and ds18b20.  *)
get_port_pin(port, n) == IF port \in 0 .. 3 THEN 32 * port + n ELSE -1

(* A client names a line: what the named line is to the modem's driver.    *)
Name(port, n) ==
  /\ get_port_pin(port, n) # -1
  /\ named' = named \cup { << port, n >> }

(* Seeded fault: the line is made an output at the level it was left at.   *)
OutputKept(p) == odsr

(* What at91_set_gpio_output(p, 0) leaves in the data register. *)
OutputLow(p) == Remove(odsr, p)

(* misc_register and misc_deregister: loading and unloading leave the      *)
(* lines as they are, gpio_init being commented out there.                 *)
LoadGpio ==
  /\ ~ gpio
  /\ gpio' = TRUE
  /\ UNCHANGED << osr, odsr, outside, pin, loaded, call, named >>

UnloadGpio ==
  /\ gpio
  /\ gpio' = FALSE
  /\ UNCHANGED << osr, odsr, outside, pin, loaded, call, named >>

(* AT91GPIO_CTL *)
CtlOut(port, n) ==
  /\ gpio
  /\ Name(port, n)
  /\ osr' = Add(osr, get_port_pin(port, n))
  /\ odsr' = OutputLow(get_port_pin(port, n))
  /\ call' = Called("out", << port, n >>, FALSE)
  /\ UNCHANGED << outside, pin, gpio, loaded >>

CtlIn(port, n) ==
  /\ gpio
  /\ Name(port, n)
  /\ osr' = Remove(osr, get_port_pin(port, n))
  /\ call' = Called("in", << port, n >>, FALSE)
  /\ UNCHANGED << odsr, outside, pin, gpio, loaded >>

(* AT91GPIO_WRITE *)
Write(port, n, value) ==
  /\ gpio
  /\ Name(port, n)
  /\ odsr' = IF value THEN Add(odsr, get_port_pin(port, n))
             ELSE Remove(odsr, get_port_pin(port, n))
  /\ call' = Called("write", << port, n >>, value)
  /\ UNCHANGED << osr, outside, pin, gpio, loaded >>

(* AT91GPIO_READ *)
Read(port, n) ==
  /\ gpio
  /\ Name(port, n)
  /\ call' = Called("read", << port, n >>, at91_get_gpio_value(get_port_pin(port, n)))
  /\ UNCHANGED << osr, odsr, outside, pin, gpio, loaded >>

(* A port there is not, in this driver or the thermometer's; a direction   *)
(* that is neither in nor out, to which the driver answers 0 all the same; *)
(* the modem's power-off, which does nothing; a load of any driver that    *)
(* misc_register refuses, before which nothing has been done.              *)
Refuse ==
  /\ call' = NoCall
  /\ UNCHANGED << osr, odsr, outside, pin, gpio, loaded, named >>
------------------------------------------------------------------------------
(* ds18b20 *)

(* The ioctl.  copy_from_user may fail unseen; the arguments are then what *)
(* was on the stack.                                                       *)
Choose(port, n) ==
  /\ Name(port, n)
  /\ pin' = get_port_pin(port, n)
  /\ call' = Called("choose", << port, n >>, FALSE)
  /\ UNCHANGED << osr, odsr, outside, gpio, loaded >>

(* The driver unloaded and loaded again: the lines stay, the choice goes.  *)
ReloadThermometer ==
  /\ pin' = NoPin
  /\ UNCHANGED << osr, odsr, outside, gpio, loaded, call, named >>

(* A read: ds18b20_proc ends with a bit read, the line let go high and     *)
(* made an input.                                                          *)
Measure ==
  /\ osr' = Remove(osr, pin)
  /\ odsr' = Add(odsr, pin)
  /\ call' = Called("measure", IF IsLine(pin) THEN << pin \div 32, pin % 32 >> ELSE NoLine,
                    FALSE)
  /\ named' = named \cup (IF IsLine(pin) THEN { << pin \div 32, pin % 32 >> } ELSE {})
  /\ UNCHANGED << outside, pin, gpio, loaded >>
------------------------------------------------------------------------------
(* at91mc323 *)

(* at91mc323_ctl_gpio_init *)
CtlGpioInit ==
  /\ osr' = Add(Add(Add(Add(osr, MC323_RST), MC323_POWERON), MC323_WAKEUP), MC323_RING)
  /\ odsr' = Remove(Remove(Remove(Remove(odsr, MC323_RST), MC323_POWERON),
                           MC323_WAKEUP), MC323_RING)

(* at91mc323_init, with the pulse of at91mc323_poweron. *)
LoadModem ==
  /\ ~ loaded
  /\ loaded' = TRUE
  /\ CtlGpioInit
  /\ call' = Called("pulse", << 0, MC323_POWERON >>, TRUE)
  /\ named' = {}
  /\ UNCHANGED << outside, pin, gpio >>

(* The lines stay as they are. *)
UnloadModem ==
  /\ loaded
  /\ loaded' = FALSE
  /\ UNCHANGED << osr, odsr, outside, pin, gpio, call, named >>

(* at91mc323_poweron and at91mc323_reset: low, high, a while, low again.   *)
(* The value is whether the modem sees it.                                 *)
Pulse(p) ==
  /\ loaded
  /\ odsr' = Remove(odsr, p)
  /\ call' = Called("pulse", << 0, p >>, Has(osr, p))
  /\ UNCHANGED << osr, outside, pin, gpio, loaded, named >>
------------------------------------------------------------------------------
Outside(p) ==
  /\ outside' \in { Add(outside, p), Remove(outside, p) }
  /\ UNCHANGED << osr, odsr, pin, gpio, loaded, call, named >>

Next ==
  \/ \E r \in Requests :
       \/ CtlOut(r[1], r[2]) \/ CtlIn(r[1], r[2])
       \/ \E value \in BOOLEAN : Write(r[1], r[2], value)
       \/ Read(r[1], r[2]) \/ Choose(r[1], r[2])
  \/ LoadGpio \/ UnloadGpio
  \/ ReloadThermometer \/ Measure
  \/ Refuse
  \/ LoadModem \/ UnloadModem
  \/ Pulse(MC323_POWERON) \/ Pulse(MC323_RST)
  \/ \E p \in Wired : Outside(p)

Spec == Init /\ [][Next]_vars
------------------------------------------------------------------------------
TypeOK ==
  /\ osr \in [Bank -> SUBSET Bit]
  /\ odsr \in [Bank -> SUBSET Bit]
  /\ outside \in [Bank -> SUBSET Bit]
  /\ pin \in (0 .. 127) \cup { NoPin }
  /\ gpio \in BOOLEAN
  /\ loaded \in BOOLEAN
  /\ call \in [op : { "none", "out", "in", "write", "read", "choose", "measure", "pulse" },
               line : (Bank \X Bit) \cup { NoLine }, value : BOOLEAN]
  /\ named \in SUBSET (Bank \X Bit)

(* The lines as their users know them. *)
InLines(reg) == UNION { {b} \X reg[b] : b \in Bank }

Lines == INSTANCE GpioLines WITH
  output  <- InLines(osr),
  high    <- InLines(odsr),
  outside <- InLines(outside),
  chosen  <- IF IsLine(pin) THEN << pin \div 32, pin % 32 >> ELSE NoLine

(* Through numbers, controllers and bits, three drivers keep the promise   *)
(* of GpioLines: a call acts on the line it names and on no other, and a   *)
(* read sees what was last driven (at91gpio.c:115-163).                    *)
LinesKept == Lines!Spec

ModemLine == { << 0, p >> : p \in { MC323_RST, MC323_POWERON, MC323_WAKEUP, MC323_RING } }

(* As long as no client of another driver has named it, a line of the      *)
(* modem is an output at rest, and a pulse on it is seen by the modem,     *)
(* whatever is done to all the other lines (at91mc323.c:37-62).            *)
ModemUndisturbed ==
  loaded =>
    \A l \in ModemLine \ named :
      /\ l[2] \in osr[l[1]] /\ l[2] \notin odsr[l[1]]
      /\ call.op = "pulse" /\ call.line = l => call.value
=============================================================================
