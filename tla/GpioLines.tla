----------------------------- MODULE GpioLines -----------------------------
(***************************************************************************)
(* What the drivers at91gpio, at91mc323 and ds18b20 promise of the GPIO    *)
(* lines they share: each line is a thing of its own, known by its port    *)
(* and its number as in at91gpio.h; a call acts on the line it names, or   *)
(* on the modem's, and on no other, whoever has used it before.            *)
(***************************************************************************)
EXTENDS Integers

Line == (0 .. 3) \X (0 .. 31)      \* at91_gpio_port_PA .. PD, at91_gpio_pin_0 .. 31
NoLine == << -1, 0 >>

VARIABLES
  output,    \* the lines that are outputs
  high,      \* the lines that are high as soon as they are outputs
  outside,   \* the lines held high from outside
  chosen,    \* the thermometer's line
  call       \* the last call: what was asked of which line, and its answer

lines == << output, high, outside, chosen, call >>

Pad(l) == IF l \in output THEN l \in high ELSE l \in outside

Called(op, l, value) == [op |-> op, line |-> l, value |-> value]

Reset   == << 0, 2 >>
PowerOn == << 0, 3 >>
Modem   == { Reset, PowerOn, << 0, 7 >>, << 0, 8 >> }

Init ==
  /\ output = {} /\ high = {} /\ outside = {}
  /\ chosen = NoLine
  /\ call = Called("none", NoLine, FALSE)

(* A line newly made an output is low, whatever was written to it before. *)
MakeOutput(l) ==
  /\ call' = Called("out", l, FALSE)
  /\ output' = output \cup {l}
  /\ high' = high \ {l}
  /\ UNCHANGED << outside, chosen >>

MakeInput(l) ==
  /\ call' = Called("in", l, FALSE)
  /\ output' = output \ {l}
  /\ UNCHANGED << high, outside, chosen >>

Write(l, value) ==
  /\ call' = Called("write", l, value)
  /\ high' = IF value THEN high \cup {l} ELSE high \ {l}
  /\ UNCHANGED << output, outside, chosen >>

Read(l) ==
  /\ call' = Called("read", l, Pad(l))
  /\ UNCHANGED << output, high, outside, chosen >>

Choose(l) ==
  /\ call' = Called("choose", l, FALSE)
  /\ chosen' = l
  /\ UNCHANGED << output, high, outside >>

(* The thermometer's driver is loaded anew. *)
Forget ==
  /\ chosen' = NoLine
  /\ UNCHANGED << output, high, outside, call >>

(* Reading the thermometer leaves its line an input. *)
Measure ==
  /\ call' = Called("measure", chosen, FALSE)
  /\ output' = output \ { chosen }
  /\ high' = high \cup ({ chosen } \ { NoLine })
  /\ UNCHANGED << outside, chosen >>

(* The modem's driver takes its lines and pulses the power line. *)
TakeModem ==
  /\ call' = Called("pulse", PowerOn, TRUE)
  /\ output' = output \cup Modem
  /\ high' = high \ Modem
  /\ UNCHANGED << outside, chosen >>

(* The modem sees a pulse when its line is an output. *)
Pulse(l) ==
  /\ call' = Called("pulse", l, l \in output)
  /\ high' = high \ {l}
  /\ UNCHANGED << output, outside, chosen >>

(* A call that names no line, or asks for nothing it can have. *)
Refuse ==
  /\ call' = Called("none", NoLine, FALSE)
  /\ UNCHANGED << output, high, outside, chosen >>

Outside(l) ==
  /\ UNCHANGED << call, chosen, output, high >>
  /\ outside' \in { outside \cup {l}, outside \ {l} }

Next ==
  \/ \E l \in Line :
       \/ MakeOutput(l) \/ MakeInput(l)
       \/ \E value \in BOOLEAN : Write(l, value)
       \/ Read(l) \/ Choose(l) \/ Outside(l)
  \/ Forget \/ Measure \/ TakeModem
  \/ Pulse(Reset) \/ Pulse(PowerOn)
  \/ Refuse

Spec == Init /\ [][Next]_lines
=============================================================================
