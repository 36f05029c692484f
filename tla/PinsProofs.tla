----------------------------- MODULE PinsProofs -----------------------------
(***************************************************************************)
(* Proofs about Pins: through numbers, controllers and bits, the drivers   *)
(* implement GpioLines, whatever lines are asked for and in what order;    *)
(* and a line of the modem that nobody else names stays the modem's.       *)
(***************************************************************************)
EXTENDS Pins, TLAPS

LEMMA Asked ==
  ASSUME NEW r \in Requests
  PROVE  r[1] \in Int /\ r[2] \in 0 .. 31
  BY PinsAssumption DEF PinsAssumption

(* A number names one bit of one controller, and a pair one number. *)
LEMMA Numbering ==
  ASSUME NEW port \in Bank, NEW n \in Bit
  PROVE  /\ get_port_pin(port, n) = 32 * port + n
         /\ get_port_pin(port, n) # -1
         /\ IsLine(get_port_pin(port, n))
         /\ get_port_pin(port, n) \div 32 = port
         /\ get_port_pin(port, n) % 32 = n
  BY DEF get_port_pin, IsLine, Bank, Bit

LEMMA Numbered ==
  ASSUME NEW p, IsLine(p)
  PROVE  p \div 32 \in Bank /\ p % 32 \in Bit
  BY DEF IsLine, Bank, Bit

LEMMA Named ==
  ASSUME NEW port \in Int, NEW n \in Bit, get_port_pin(port, n) # -1
  PROVE  port \in Bank
  BY DEF get_port_pin, Bank

(* Registers keep their type. *)
Reg == [Bank -> SUBSET Bit]

LEMMA RegStep ==
  ASSUME NEW reg \in Reg, NEW p
  PROVE  Add(reg, p) \in Reg /\ Remove(reg, p) \in Reg
  BY Numbered DEF Add, Remove, Reg

(* What an access does to the lines as their users know them. *)
LEMMA LineOf ==
  ASSUME NEW reg \in Reg, NEW l
  PROVE  l \in InLines(reg) <=> /\ l \in Bank \X Bit
                                /\ l[2] \in reg[l[1]]
  BY DEF InLines, Reg

LEMMA AddLine ==
  ASSUME NEW reg \in Reg, NEW p, IsLine(p)
  PROVE  InLines(Add(reg, p)) = InLines(reg) \cup { << p \div 32, p % 32 >> }
<1>1. p \div 32 \in Bank /\ p % 32 \in Bit
  BY Numbered
<1>2. Add(reg, p) = [reg EXCEPT ![p \div 32] = @ \cup { p % 32 }]
  BY DEF Add
<1> DEFINE b == p \div 32   i == p % 32
<1>3. b \in Bank /\ i \in Bit /\ Add(reg, p) = [reg EXCEPT ![b] = @ \cup {i}]
  BY <1>1, <1>2
<1> HIDE DEF b, i
<1>4. Add(reg, p) \in Reg
  BY RegStep
<1>5. ASSUME NEW l
      PROVE  l \in InLines(Add(reg, p)) <=> l \in InLines(reg) \cup { << b, i >> }
  <2>1. CASE l \in Bank \X Bit
    <3>1. PICK c \in Bank, k \in Bit : l = << c, k >>
      BY <2>1
    <3>2. Add(reg, p)[c] = IF c = b THEN reg[b] \cup {i} ELSE reg[c]
      BY <1>3 DEF Reg
    <3>3. /\ l \in InLines(Add(reg, p)) <=> k \in Add(reg, p)[c]
          /\ l \in InLines(reg) <=> k \in reg[c]
      BY <1>4, <3>1, LineOf
    <3> QED BY <3>1, <3>2, <3>3
  <2>2. CASE l \notin Bank \X Bit
    BY <1>3, <1>4, <2>2, LineOf
  <2> QED BY <2>1, <2>2
<1>6. InLines(Add(reg, p)) = InLines(reg) \cup { << b, i >> }
  BY <1>5
<1> QED BY <1>6 DEF b, i

LEMMA RemoveLine ==
  ASSUME NEW reg \in Reg, NEW p, IsLine(p)
  PROVE  InLines(Remove(reg, p)) = InLines(reg) \ { << p \div 32, p % 32 >> }
<1>1. p \div 32 \in Bank /\ p % 32 \in Bit
  BY Numbered
<1>2. Remove(reg, p) = [reg EXCEPT ![p \div 32] = @ \ { p % 32 }]
  BY DEF Remove
<1> DEFINE b == p \div 32   i == p % 32
<1>3. b \in Bank /\ i \in Bit /\ Remove(reg, p) = [reg EXCEPT ![b] = @ \ {i}]
  BY <1>1, <1>2
<1> HIDE DEF b, i
<1>4. Remove(reg, p) \in Reg
  BY RegStep
<1>5. ASSUME NEW l
      PROVE  l \in InLines(Remove(reg, p)) <=> l \in InLines(reg) \ { << b, i >> }
  <2>1. CASE l \in Bank \X Bit
    <3>1. PICK c \in Bank, k \in Bit : l = << c, k >>
      BY <2>1
    <3>2. Remove(reg, p)[c] = IF c = b THEN reg[b] \ {i} ELSE reg[c]
      BY <1>3 DEF Reg
    <3>3. /\ l \in InLines(Remove(reg, p)) <=> k \in Remove(reg, p)[c]
          /\ l \in InLines(reg) <=> k \in reg[c]
      BY <1>4, <3>1, LineOf
    <3> QED BY <3>1, <3>2, <3>3
  <2>2. CASE l \notin Bank \X Bit
    BY <1>3, <1>4, <2>2, LineOf
  <2> QED BY <2>1, <2>2
<1>6. InLines(Remove(reg, p)) = InLines(reg) \ { << b, i >> }
  BY <1>5
<1> QED BY <1>6 DEF b, i

LEMMA HasLine ==
  ASSUME NEW reg \in Reg, NEW p, IsLine(p)
  PROVE  Has(reg, p) <=> << p \div 32, p % 32 >> \in InLines(reg)
  BY Numbered, LineOf DEF Has
------------------------------------------------------------------------------
(* Types. *)

LEMMA TypeInit == Init => TypeOK
<1> SUFFICES ASSUME Init PROVE TypeOK
  OBVIOUS
<1>1. osr \in Reg /\ odsr \in Reg /\ outside \in Reg
  BY DEF Init, Reg
<1>2. /\ gpio \in BOOLEAN /\ loaded \in BOOLEAN
      /\ pin \in (0 .. 127) \cup { NoPin } /\ named = {}
  BY DEF Init
<1>3. call = [op |-> "none", line |-> NoLine, value |-> FALSE]
  BY DEF Init, NoCall, Called
<1> QED BY <1>1, <1>2, <1>3 DEF TypeOK, Reg

(* The line a call of at91gpio or of the thermometer's ioctl names. *)
LEMMA Request ==
  ASSUME NEW r \in Requests, Name(r[1], r[2])
  PROVE  /\ r[1] \in Bank /\ r[2] \in Bit
         /\ IsLine(get_port_pin(r[1], r[2]))
         /\ get_port_pin(r[1], r[2]) \div 32 = r[1]
         /\ get_port_pin(r[1], r[2]) % 32 = r[2]
         /\ named' = named \cup { << r[1], r[2] >> }
<1>1. r[1] \in Int /\ r[2] \in Bit /\ get_port_pin(r[1], r[2]) # -1
  BY Asked DEF Name, Bit
<1>2. r[1] \in Bank
  BY <1>1, Named
<1> QED BY <1>1, <1>2, Numbering DEF Name

LEMMA PinLine ==
  ASSUME TypeOK, IsLine(pin)
  PROVE  << pin \div 32, pin % 32 >> \in Bank \X Bit
  BY Numbered

(* The registers after a step. *)
LEMMA RegsStep ==
  ASSUME TypeOK, [Next]_vars
  PROVE  osr' \in Reg /\ odsr' \in Reg /\ outside' \in Reg
<1>1. osr \in Reg /\ odsr \in Reg /\ outside \in Reg
  BY DEF TypeOK, Reg
<1>2. ASSUME NEW r \in Requests,
             \/ CtlOut(r[1], r[2]) \/ CtlIn(r[1], r[2])
             \/ \E value \in BOOLEAN : Write(r[1], r[2], value)
             \/ Read(r[1], r[2]) \/ Choose(r[1], r[2])
      PROVE  osr' \in Reg /\ odsr' \in Reg /\ outside' \in Reg
  BY <1>1, <1>2, RegStep DEF CtlOut, CtlIn, Write, Read, Choose, OutputLow
<1>3. CASE Measure
  BY <1>1, <1>3, RegStep DEF Measure
<1>4. CASE LoadModem
  BY <1>1, <1>4, RegStep DEF LoadModem, CtlGpioInit
<1>5. CASE Refuse \/ UnloadModem \/ Pulse(MC323_POWERON) \/ Pulse(MC323_RST)
  BY <1>1, <1>5, RegStep DEF Refuse, UnloadModem, Pulse
<1>6. ASSUME NEW p \in Wired, Outside(p)
      PROVE  osr' \in Reg /\ odsr' \in Reg /\ outside' \in Reg
  BY <1>1, <1>6, RegStep DEF Outside
<1>7. CASE LoadGpio \/ UnloadGpio \/ ReloadThermometer \/ UNCHANGED vars
  BY <1>1, <1>7 DEF LoadGpio, UnloadGpio, ReloadThermometer, vars
<1> QED BY <1>2, <1>3, <1>4, <1>5, <1>6, <1>7 DEF Next

LEMMA OthersStep ==
  ASSUME TypeOK, [Next]_vars
  PROVE  /\ pin' \in (0 .. 127) \cup { NoPin }
         /\ gpio' \in BOOLEAN /\ loaded' \in BOOLEAN
         /\ named' \in SUBSET (Bank \X Bit)
<1> DEFINE Others == /\ pin \in (0 .. 127) \cup { NoPin }
                     /\ gpio \in BOOLEAN /\ loaded \in BOOLEAN
                     /\ named \in SUBSET (Bank \X Bit)
<1>1. Others
  BY DEF TypeOK
<1>2. ASSUME NEW r \in Requests, CtlOut(r[1], r[2]) \/ CtlIn(r[1], r[2])
      PROVE  Others'
  <2>1. Name(r[1], r[2]) /\ pin' = pin /\ gpio' = gpio /\ loaded' = loaded
    BY <1>2 DEF CtlOut, CtlIn
  <2> QED BY <1>1, <2>1, Request
<1>3. ASSUME NEW r \in Requests, NEW value \in BOOLEAN, Write(r[1], r[2], value)
      PROVE  Others'
  BY <1>1, <1>3, Request DEF Write
<1>4. ASSUME NEW r \in Requests, Read(r[1], r[2])
      PROVE  Others'
  BY <1>1, <1>4, Request DEF Read
<1>5. ASSUME NEW r \in Requests, Choose(r[1], r[2])
      PROVE  Others'
  BY <1>1, <1>5, Request DEF Choose, IsLine
<1>6. CASE Measure
  BY <1>1, <1>6, PinLine DEF Measure
<1>7. CASE LoadModem \/ UnloadModem
  BY <1>1, <1>7 DEF LoadModem, CtlGpioInit, UnloadModem
<1>8. CASE Refuse \/ Pulse(MC323_POWERON) \/ Pulse(MC323_RST)
  BY <1>1, <1>8 DEF Refuse, Pulse
<1>9. ASSUME NEW p \in Wired, Outside(p) PROVE Others'
  BY <1>1, <1>9 DEF Outside
<1>10. CASE UNCHANGED vars
  BY <1>1, <1>10 DEF vars
<1>11. CASE LoadGpio \/ UnloadGpio \/ ReloadThermometer
  BY <1>1, <1>11 DEF LoadGpio, UnloadGpio, ReloadThermometer
<1> QED
  BY <1>2, <1>3, <1>4, <1>5, <1>6, <1>7, <1>8, <1>9, <1>10, <1>11 DEF Next

Calls == [op : { "none", "out", "in", "write", "read", "choose", "measure", "pulse" },
          line : (Bank \X Bit) \cup { NoLine }, value : BOOLEAN]

LEMMA CallStep ==
  ASSUME TypeOK, [Next]_vars
  PROVE  call' \in Calls
<1>1. call \in Calls
  BY DEF TypeOK, Calls
<1>2. ASSUME NEW op \in { "none", "out", "in", "write", "read", "choose", "measure", "pulse" },
             NEW l \in (Bank \X Bit) \cup { NoLine }, NEW value \in BOOLEAN
      PROVE  Called(op, l, value) \in Calls
  BY DEF Called, Calls
<1>3. ASSUME NEW p PROVE Has(osr, p) \in BOOLEAN /\ at91_get_gpio_value(p) \in BOOLEAN
  BY DEF Has, at91_get_gpio_value
<1>4. ASSUME NEW r \in Requests,
             \/ CtlOut(r[1], r[2]) \/ CtlIn(r[1], r[2])
             \/ \E value \in BOOLEAN : Write(r[1], r[2], value)
             \/ Read(r[1], r[2]) \/ Choose(r[1], r[2])
      PROVE  call' \in Calls
  <2>1. Name(r[1], r[2])
    BY <1>4 DEF CtlOut, CtlIn, Write, Read, Choose
  <2>2. << r[1], r[2] >> \in Bank \X Bit
    BY <2>1, Request
  <2> QED BY <1>2, <1>3, <1>4, <2>2 DEF CtlOut, CtlIn, Write, Read, Choose
<1>5. CASE Measure
  BY <1>2, <1>5, PinLine DEF Measure
<1>6. CASE LoadModem \/ Pulse(MC323_POWERON) \/ Pulse(MC323_RST)
  <2>1. << 0, MC323_POWERON >> \in Bank \X Bit /\ << 0, MC323_RST >> \in Bank \X Bit
    BY DEF MC323_POWERON, MC323_RST, Bank, Bit
  <2> QED BY <1>2, <1>3, <1>6, <2>1 DEF LoadModem, CtlGpioInit, Pulse
<1>7. CASE Refuse
  BY <1>2, <1>7 DEF Refuse, NoCall
<1>8. CASE \/ UnloadModem \/ LoadGpio \/ UnloadGpio \/ ReloadThermometer
           \/ (\E p \in Wired : Outside(p)) \/ UNCHANGED vars
  BY <1>1, <1>8 DEF UnloadModem, LoadGpio, UnloadGpio, ReloadThermometer, Outside, vars
<1> QED BY <1>4, <1>5, <1>6, <1>7, <1>8 DEF Next

(* Line numbers stay in range, and what is recorded of a call is a line.   *)
THEOREM PinsTyped == Spec => []TypeOK
<1>1. TypeOK /\ [Next]_vars => TypeOK'
  BY RegsStep, OthersStep, CallStep DEF TypeOK, Reg, Calls
<1> QED BY TypeInit, <1>1, PTL DEF Spec
------------------------------------------------------------------------------
(* The refinement. *)

LEMMA LineIs == Lines!Line = Bank \X Bit
  BY DEF Lines!Line, Bank, Bit

(* One access to the line a number names, in terms of lines.               *)
LEMMA Accessed ==
  ASSUME TypeOK, NEW port \in Bank, NEW n \in Bit, NEW p,
         IsLine(p), p \div 32 = port, p % 32 = n
  PROVE  /\ InLines(Add(osr, p)) = InLines(osr) \cup { << port, n >> }
         /\ InLines(Remove(osr, p)) = InLines(osr) \ { << port, n >> }
         /\ InLines(Add(odsr, p)) = InLines(odsr) \cup { << port, n >> }
         /\ InLines(Remove(odsr, p)) = InLines(odsr) \ { << port, n >> }
         /\ Has(osr, p) <=> << port, n >> \in InLines(osr)
         /\ at91_get_gpio_value(p) = Lines!Pad(<< port, n >>)
<1>1. osr \in Reg /\ odsr \in Reg /\ outside \in Reg
  BY DEF TypeOK, Reg
<1>2. /\ Has(osr, p) <=> << port, n >> \in InLines(osr)
      /\ Has(odsr, p) <=> << port, n >> \in InLines(odsr)
      /\ Has(outside, p) <=> << port, n >> \in InLines(outside)
  BY <1>1, HasLine
<1>3. Has(odsr, p) \in BOOLEAN /\ Has(outside, p) \in BOOLEAN
  BY DEF Has
<1>4. at91_get_gpio_value(p) = Lines!Pad(<< port, n >>)
  BY <1>2, <1>3 DEF at91_get_gpio_value, Lines!Pad
<1> QED BY <1>1, <1>2, <1>4, AddLine, RemoveLine

LEMMA InitImplements == Init => Lines!Init
<1> SUFFICES ASSUME Init PROVE Lines!Init
  OBVIOUS
<1>1. /\ InLines(osr) = {} /\ InLines(odsr) = {} /\ InLines(outside) = {}
  BY DEF Init, InLines
<1>2. ~ IsLine(pin)
  BY DEF Init, NoPin, IsLine
<1>3. call = Lines!Called("none", Lines!NoLine, FALSE) /\ NoLine = Lines!NoLine
  BY DEF Init, NoCall, Called, NoLine, Lines!Called, Lines!NoLine
<1> QED BY <1>1, <1>2, <1>3 DEF Lines!Init

(* The four lines of the modem at once. *)
LEMMA ModemLines ==
  ASSUME NEW reg \in Reg
  PROVE  /\ InLines(Add(Add(Add(Add(reg, MC323_RST), MC323_POWERON), MC323_WAKEUP),
                        MC323_RING)) = InLines(reg) \cup Lines!Modem
         /\ InLines(Remove(Remove(Remove(Remove(reg, MC323_RST), MC323_POWERON),
                                  MC323_WAKEUP), MC323_RING)) = InLines(reg) \ Lines!Modem
<1>1. \A p \in { MC323_RST, MC323_POWERON, MC323_WAKEUP, MC323_RING } :
        IsLine(p) /\ p \div 32 = 0 /\ p % 32 = p
  BY DEF MC323_RST, MC323_POWERON, MC323_WAKEUP, MC323_RING, IsLine
<1>2. ASSUME NEW any \in Reg,
             NEW p \in { MC323_RST, MC323_POWERON, MC323_WAKEUP, MC323_RING }
      PROVE  /\ Add(any, p) \in Reg /\ Remove(any, p) \in Reg
             /\ InLines(Add(any, p)) = InLines(any) \cup { << 0, p >> }
             /\ InLines(Remove(any, p)) = InLines(any) \ { << 0, p >> }
  <2>1. IsLine(p) /\ << p \div 32, p % 32 >> = << 0, p >>
    BY <1>1
  <2>2. /\ InLines(Add(any, p)) = InLines(any) \cup { << p \div 32, p % 32 >> }
        /\ InLines(Remove(any, p)) = InLines(any) \ { << p \div 32, p % 32 >> }
    BY <2>1, AddLine, RemoveLine
  <2>3. Add(any, p) \in Reg /\ Remove(any, p) \in Reg
    BY RegStep
  <2> QED BY <2>1, <2>2, <2>3
<1>3. Lines!Modem = { << 0, MC323_RST >>, << 0, MC323_POWERON >>,
                      << 0, MC323_WAKEUP >>, << 0, MC323_RING >> }
  BY DEF Lines!Modem, Lines!Reset, Lines!PowerOn,
         MC323_RST, MC323_POWERON, MC323_WAKEUP, MC323_RING
<1> DEFINE a1 == Add(reg, MC323_RST)    a2 == Add(a1, MC323_POWERON)
           a3 == Add(a2, MC323_WAKEUP)  a4 == Add(a3, MC323_RING)
           r1 == Remove(reg, MC323_RST) r2 == Remove(r1, MC323_POWERON)
           r3 == Remove(r2, MC323_WAKEUP) r4 == Remove(r3, MC323_RING)
<1>4. /\ a1 \in Reg /\ InLines(a1) = InLines(reg) \cup { << 0, MC323_RST >> }
      /\ r1 \in Reg /\ InLines(r1) = InLines(reg) \ { << 0, MC323_RST >> }
  BY <1>2
<1> HIDE DEF a1, r1
<1>5. /\ a2 \in Reg /\ InLines(a2) = InLines(a1) \cup { << 0, MC323_POWERON >> }
      /\ r2 \in Reg /\ InLines(r2) = InLines(r1) \ { << 0, MC323_POWERON >> }
  BY <1>2, <1>4
<1> HIDE DEF a2, r2
<1>6. /\ a3 \in Reg /\ InLines(a3) = InLines(a2) \cup { << 0, MC323_WAKEUP >> }
      /\ r3 \in Reg /\ InLines(r3) = InLines(r2) \ { << 0, MC323_WAKEUP >> }
  BY <1>2, <1>5
<1> HIDE DEF a3, r3
<1>7. /\ InLines(a4) = InLines(a3) \cup { << 0, MC323_RING >> }
      /\ InLines(r4) = InLines(r3) \ { << 0, MC323_RING >> }
  BY <1>2, <1>6
<1> HIDE DEF a4, r4
<1>8. InLines(a4) = InLines(reg) \cup Lines!Modem /\ InLines(r4) = InLines(reg) \ Lines!Modem
  BY <1>3, <1>4, <1>5, <1>6, <1>7
<1> QED BY <1>8 DEF a1, a2, a3, a4, r1, r2, r3, r4

(* Every step of the drivers is one of the lines, or leaves them alone. *)
LEMMA StepImplements ==
  ASSUME TypeOK, [Next]_vars
  PROVE  [Lines!Next]_Lines!lines
<1>1. osr \in Reg /\ odsr \in Reg /\ outside \in Reg
  BY DEF TypeOK, Reg
<1>2. \A op, l, value : Called(op, l, value) = Lines!Called(op, l, value)
  BY DEF Called, Lines!Called
<1>3. ASSUME NEW r \in Requests, CtlOut(r[1], r[2])
      PROVE  Lines!Next
  <2> DEFINE l == << r[1], r[2] >>
  <2>1. l \in Lines!Line
    BY <1>3, Request, LineIs DEF CtlOut
  <2>2. InLines(osr') = InLines(osr) \cup {l} /\ InLines(odsr') = InLines(odsr) \ {l}
    BY <1>3, Request, Accessed DEF CtlOut, OutputLow
  <2>3. Lines!MakeOutput(l)
    BY <1>2, <1>3, <2>2 DEF CtlOut, Lines!MakeOutput
  <2> QED BY <2>1, <2>3 DEF Lines!Next
<1>4. ASSUME NEW r \in Requests, CtlIn(r[1], r[2])
      PROVE  Lines!Next
  <2> DEFINE l == << r[1], r[2] >>
  <2>1. l \in Lines!Line
    BY <1>4, Request, LineIs DEF CtlIn
  <2>2. InLines(osr') = InLines(osr) \ {l}
    BY <1>4, Request, Accessed DEF CtlIn
  <2>3. Lines!MakeInput(l)
    BY <1>2, <1>4, <2>2 DEF CtlIn, Lines!MakeInput
  <2> QED BY <2>1, <2>3 DEF Lines!Next
<1>5. ASSUME NEW r \in Requests, NEW value \in BOOLEAN, Write(r[1], r[2], value)
      PROVE  Lines!Next
  <2> DEFINE l == << r[1], r[2] >>
  <2>1. l \in Lines!Line
    BY <1>5, Request, LineIs DEF Write
  <2>2. InLines(odsr') = IF value THEN InLines(odsr) \cup {l} ELSE InLines(odsr) \ {l}
    <3>1. /\ InLines(Add(odsr, get_port_pin(r[1], r[2]))) = InLines(odsr) \cup {l}
          /\ InLines(Remove(odsr, get_port_pin(r[1], r[2]))) = InLines(odsr) \ {l}
      BY <1>5, Request, Accessed DEF Write
    <3>2. odsr' = IF value THEN Add(odsr, get_port_pin(r[1], r[2]))
                  ELSE Remove(odsr, get_port_pin(r[1], r[2]))
      BY <1>5 DEF Write
    <3>3. CASE value
      BY <3>1, <3>2, <3>3
    <3>4. CASE ~ value
      BY <3>1, <3>2, <3>4
    <3> QED BY <3>3, <3>4
  <2>3. Lines!Write(l, value)
    BY <1>2, <1>5, <2>2 DEF Write, Lines!Write
  <2> QED BY <2>1, <2>3 DEF Lines!Next
<1>6. ASSUME NEW r \in Requests, Read(r[1], r[2])
      PROVE  Lines!Next
  <2> DEFINE l == << r[1], r[2] >>
  <2>1. l \in Lines!Line
    BY <1>6, Request, LineIs DEF Read
  <2>2. at91_get_gpio_value(get_port_pin(r[1], r[2])) = Lines!Pad(l)
    BY <1>6, Request, Accessed DEF Read
  <2>3. Lines!Read(l)
    BY <1>2, <1>6, <2>2 DEF Read, Lines!Read
  <2> QED BY <2>1, <2>3 DEF Lines!Next
<1>7. ASSUME NEW r \in Requests, Choose(r[1], r[2])
      PROVE  Lines!Next
  <2> DEFINE l == << r[1], r[2] >>
  <2>1. l \in Lines!Line
    BY <1>7, Request, LineIs DEF Choose
  <2>2. IsLine(pin') /\ pin' \div 32 = r[1] /\ pin' % 32 = r[2]
    BY <1>7, Request DEF Choose
  <2>3. (IF IsLine(pin') THEN << pin' \div 32, pin' % 32 >> ELSE NoLine) = l
    BY <2>2
  <2>4. Lines!Choose(l)
    BY <1>2, <1>7, <2>3 DEF Choose, Lines!Choose
  <2> QED BY <2>1, <2>4 DEF Lines!Next
<1>8. CASE Measure
  <2> DEFINE l == IF IsLine(pin) THEN << pin \div 32, pin % 32 >> ELSE NoLine
  <2>1. /\ InLines(osr') = InLines(osr) \ {l}
        /\ InLines(odsr') = InLines(odsr) \cup ({l} \ { NoLine })
    <3>1. NoLine \notin Bank \X Bit
      BY DEF NoLine, Bank, Bit
    <3>2. CASE IsLine(pin)
      <4>1. l = << pin \div 32, pin % 32 >> /\ l # NoLine
        BY <3>1, <3>2, PinLine
      <4> QED BY <1>1, <1>8, <3>2, <4>1, AddLine, RemoveLine DEF Measure
    <3>3. CASE ~ IsLine(pin)
      <4>1. l = NoLine /\ osr' = osr /\ odsr' = odsr
        BY <1>8, <3>3 DEF Measure, Add, Remove
      <4>2. NoLine \notin InLines(osr)
        BY <1>1, <3>1, LineOf
      <4> QED BY <4>1, <4>2
    <3> QED BY <3>2, <3>3
  <2>2. NoLine = Lines!NoLine
    BY DEF NoLine, Lines!NoLine
  <2>3. Lines!Measure
    BY <1>2, <1>8, <2>1, <2>2 DEF Measure, Lines!Measure
  <2> QED BY <2>3 DEF Lines!Next
<1>9. CASE Refuse
  <2>1. Lines!Refuse
    BY <1>2, <1>9 DEF Refuse, NoCall, NoLine, Lines!NoLine, Lines!Refuse
  <2> QED BY <2>1 DEF Lines!Next
<1>10. CASE LoadModem
  <2>1. InLines(osr') = InLines(osr) \cup Lines!Modem /\ InLines(odsr') = InLines(odsr) \ Lines!Modem
    BY <1>1, <1>10, ModemLines DEF LoadModem, CtlGpioInit
  <2>2. Lines!TakeModem
    BY <1>2, <1>10, <2>1 DEF LoadModem, CtlGpioInit, MC323_POWERON, Lines!TakeModem, Lines!PowerOn
  <2> QED BY <2>2 DEF Lines!Next
<1>11. ASSUME NEW p \in { MC323_POWERON, MC323_RST }, Pulse(p)
       PROVE  Lines!Pulse(<< 0, p >>)
  <2>1. IsLine(p) /\ p \div 32 = 0 /\ p % 32 = p /\ 0 \in Bank /\ p \in Bit
    BY DEF MC323_POWERON, MC323_RST, IsLine, Bank, Bit
  <2>2. InLines(odsr') = InLines(odsr) \ { << 0, p >> }
    BY <1>11, <2>1, Accessed DEF Pulse
  <2>3. Has(osr, p) = (<< 0, p >> \in InLines(osr))
    BY <2>1, Accessed DEF Has
  <2> QED BY <1>2, <1>11, <2>2, <2>3 DEF Pulse, Lines!Pulse
<1>12. CASE Pulse(MC323_POWERON) \/ Pulse(MC323_RST)
  BY <1>11, <1>12 DEF MC323_POWERON, MC323_RST, Lines!PowerOn, Lines!Reset, Lines!Next
<1>13. ASSUME NEW p \in Wired, Outside(p)
       PROVE  Lines!Next
  <2>1. IsLine(p)
    BY PinsAssumption DEF PinsAssumption, IsLine
  <2> DEFINE l == << p \div 32, p % 32 >>
  <2>2. l \in Lines!Line
    BY <2>1, Numbered, LineIs
  <2>3. InLines(outside') \in { InLines(outside) \cup {l}, InLines(outside) \ {l} }
    BY <1>1, <1>13, <2>1, AddLine, RemoveLine DEF Outside
  <2>4. Lines!Outside(l)
    BY <1>13, <2>3 DEF Outside, Lines!Outside
  <2> QED BY <2>2, <2>4 DEF Lines!Next
<1>14. CASE UnloadModem \/ LoadGpio \/ UnloadGpio \/ UNCHANGED vars
  BY <1>14 DEF UnloadModem, LoadGpio, UnloadGpio, vars, Lines!lines
<1>15. CASE ReloadThermometer
  <2>1. ~ IsLine(pin') /\ NoLine = Lines!NoLine
    BY <1>15 DEF ReloadThermometer, NoPin, IsLine, NoLine, Lines!NoLine
  <2>2. Lines!Forget
    BY <1>15, <2>1 DEF ReloadThermometer, Lines!Forget
  <2> QED BY <2>2 DEF Lines!Next
<1> QED
  BY <1>3, <1>4, <1>5, <1>6, <1>7, <1>8, <1>9, <1>10, <1>12, <1>13, <1>14, <1>15
  DEF Next

(* The drivers together implement independent lines (at91gpio.c:111-159,   *)
(* at91mc323.c:37-61).                                                     *)
THEOREM PinsImplementLines == Spec => LinesKept
<1>1. TypeOK /\ [Next]_vars => [Lines!Next]_Lines!lines
  BY StepImplements
<1> QED BY InitImplements, PinsTyped, <1>1, PTL DEF Spec, LinesKept, Lines!Spec
------------------------------------------------------------------------------
(* The modem's lines. *)

(* What a call that names a line may do to the registers.                  *)
LEMMA NamedLine ==
  ASSUME TypeOK, NEW r \in Requests, Name(r[1], r[2])
  PROVE  /\ InLines(Add(osr, get_port_pin(r[1], r[2])))
              = InLines(osr) \cup { << r[1], r[2] >> }
         /\ InLines(Remove(osr, get_port_pin(r[1], r[2])))
              = InLines(osr) \ { << r[1], r[2] >> }
         /\ InLines(Add(odsr, get_port_pin(r[1], r[2])))
              = InLines(odsr) \cup { << r[1], r[2] >> }
         /\ InLines(Remove(odsr, get_port_pin(r[1], r[2])))
              = InLines(odsr) \ { << r[1], r[2] >> }
<1>1. osr \in Reg /\ odsr \in Reg
  BY DEF TypeOK, Reg
<1>2. /\ IsLine(get_port_pin(r[1], r[2]))
      /\ get_port_pin(r[1], r[2]) \div 32 = r[1]
      /\ get_port_pin(r[1], r[2]) % 32 = r[2]
  BY Request
<1> QED BY <1>1, <1>2, AddLine, RemoveLine

LEMMA ModemLineIs == ModemLine \subseteq Bank \X Bit
  BY DEF ModemLine, MC323_RST, MC323_POWERON, MC323_WAKEUP, MC323_RING, Bank, Bit

LEMMA UndisturbedStep ==
  ASSUME TypeOK, ModemUndisturbed, [Next]_vars
  PROVE  ModemUndisturbed'
<1>1. osr \in Reg /\ odsr \in Reg /\ osr' \in Reg /\ odsr' \in Reg
  BY RegsStep DEF TypeOK, Reg
<1> DEFINE Rest(l) == l \in InLines(osr) /\ l \notin InLines(odsr)
<1> DEFINE Seen(l) == call.op = "pulse" /\ call.line = l => call.value
<1>2. SUFFICES ASSUME loaded', NEW l \in ModemLine \ named'
               PROVE  Rest(l)' /\ Seen(l)'
  <2>1. SUFFICES ASSUME loaded', NEW l \in ModemLine \ named'
                 PROVE  /\ l[2] \in osr'[l[1]] /\ l[2] \notin odsr'[l[1]]
                        /\ Seen(l)'
    BY DEF ModemUndisturbed
  <2>2. /\ l \in InLines(osr') <=> l[2] \in osr'[l[1]]
        /\ l \in InLines(odsr') <=> l[2] \in odsr'[l[1]]
    BY <1>1, ModemLineIs, LineOf
  <2> QED BY <2>1, <2>2
<1>3. ASSUME loaded, l \notin named
      PROVE  Rest(l) /\ Seen(l)
  <2>1. l \in InLines(osr) <=> l[2] \in osr[l[1]]
    BY <1>1, <1>2, ModemLineIs, LineOf
  <2>2. l \in InLines(odsr) <=> l[2] \in odsr[l[1]]
    BY <1>1, <1>2, ModemLineIs, LineOf
  <2> QED BY <1>2, <1>3, <2>1, <2>2 DEF ModemUndisturbed
<1>4. ASSUME NEW r \in Requests,
             \/ CtlOut(r[1], r[2]) \/ CtlIn(r[1], r[2])
             \/ \E value \in BOOLEAN : Write(r[1], r[2], value)
             \/ Read(r[1], r[2]) \/ Choose(r[1], r[2])
      PROVE  Rest(l)' /\ call'.op # "pulse"
  <2>1. Name(r[1], r[2]) /\ loaded' = loaded
    BY <1>4 DEF CtlOut, CtlIn, Write, Read, Choose
  <2>2. l # << r[1], r[2] >> /\ l \notin named
    BY <1>2, <2>1, Request
  <2>3. Rest(l)
    BY <1>2, <1>3, <2>1, <2>2
  <2>4. call'.op \in { "out", "in", "write", "read", "choose" }
    BY <1>4 DEF CtlOut, CtlIn, Write, Read, Choose, Called
  <2> DEFINE p == get_port_pin(r[1], r[2])
  <2>5. /\ osr' \in { osr, Add(osr, p), Remove(osr, p) }
        /\ odsr' \in { odsr, Add(odsr, p), Remove(odsr, p) }
    BY <1>4 DEF CtlOut, CtlIn, Write, Read, Choose, OutputLow
  <2>6. /\ InLines(osr') \in { InLines(osr), InLines(osr) \cup { << r[1], r[2] >> },
                              InLines(osr) \ { << r[1], r[2] >> } }
        /\ InLines(odsr') \in { InLines(odsr), InLines(odsr) \cup { << r[1], r[2] >> },
                               InLines(odsr) \ { << r[1], r[2] >> } }
    <3>1. /\ InLines(Add(osr, p)) = InLines(osr) \cup { << r[1], r[2] >> }
          /\ InLines(Remove(osr, p)) = InLines(osr) \ { << r[1], r[2] >> }
          /\ InLines(Add(odsr, p)) = InLines(odsr) \cup { << r[1], r[2] >> }
          /\ InLines(Remove(odsr, p)) = InLines(odsr) \ { << r[1], r[2] >> }
      BY <2>1, NamedLine
    <3> HIDE DEF p
    <3>2. InLines(osr') \in { InLines(osr), InLines(osr) \cup { << r[1], r[2] >> },
                              InLines(osr) \ { << r[1], r[2] >> } }
      <4>1. CASE osr' = osr
        BY <4>1
      <4>2. CASE osr' = Add(osr, p) \/ osr' = Remove(osr, p)
        BY <3>1, <4>2
      <4> QED BY <2>5, <4>1, <4>2
    <3>3. InLines(odsr') \in { InLines(odsr), InLines(odsr) \cup { << r[1], r[2] >> },
                               InLines(odsr) \ { << r[1], r[2] >> } }
      <4>1. CASE odsr' = odsr
        BY <4>1
      <4>2. CASE odsr' = Add(odsr, p) \/ odsr' = Remove(odsr, p)
        BY <3>1, <4>2
      <4> QED BY <2>5, <4>1, <4>2
    <3> QED BY <3>2, <3>3
  <2> QED BY <2>2, <2>3, <2>4, <2>6
<1>5. CASE Measure
  <2>1. loaded /\ l \notin named /\ call'.op = "measure"
    BY <1>2, <1>5 DEF Measure, Called
  <2>2. CASE IsLine(pin)
    <3>1. l # << pin \div 32, pin % 32 >>
      BY <1>2, <1>5, <2>2 DEF Measure
    <3>2. /\ InLines(osr') = InLines(osr) \ { << pin \div 32, pin % 32 >> }
          /\ InLines(odsr') = InLines(odsr) \cup { << pin \div 32, pin % 32 >> }
      BY <1>1, <1>5, <2>2, AddLine, RemoveLine DEF Measure
    <3> QED BY <1>3, <2>1, <3>1, <3>2
  <2>3. CASE ~ IsLine(pin)
    <3>1. osr' = osr /\ odsr' = odsr
      BY <1>5, <2>3 DEF Measure, Add, Remove
    <3> QED BY <1>3, <2>1, <3>1
  <2> QED BY <2>2, <2>3
<1>6. CASE LoadModem
  <2>1. l \in Lines!Modem
    BY <1>2 DEF ModemLine, Lines!Modem, Lines!Reset, Lines!PowerOn,
                MC323_RST, MC323_POWERON, MC323_WAKEUP, MC323_RING
  <2>2. InLines(osr') = InLines(osr) \cup Lines!Modem /\ InLines(odsr') = InLines(odsr) \ Lines!Modem
    BY <1>1, <1>6, ModemLines DEF LoadModem, CtlGpioInit
  <2>3. call'.value = TRUE
    BY <1>6 DEF LoadModem, CtlGpioInit, Called
  <2> QED BY <2>1, <2>2, <2>3
<1>7. ASSUME NEW p \in { MC323_POWERON, MC323_RST }, Pulse(p)
      PROVE  Rest(l)' /\ Seen(l)'
  <2>1. loaded /\ l \notin named
    BY <1>2, <1>7 DEF Pulse
  <2>2. IsLine(p) /\ p \div 32 = 0 /\ p % 32 = p /\ 0 \in Bank /\ p \in Bit
    BY DEF MC323_POWERON, MC323_RST, IsLine, Bank, Bit
  <2>3. /\ osr' = osr /\ InLines(odsr') = InLines(odsr) \ { << 0, p >> }
        /\ Has(osr, p) <=> << 0, p >> \in InLines(osr)
    BY <1>7, <2>2, Accessed DEF Pulse
  <2>4. call'.line = << 0, p >> /\ call'.value = Has(osr, p)
    BY <1>7 DEF Pulse, Called
  <2> QED BY <1>3, <2>1, <2>3, <2>4
<1>8. CASE Refuse
  <2>1. loaded /\ l \notin named /\ osr' = osr /\ odsr' = odsr /\ call'.op = "none"
    BY <1>2, <1>8 DEF Refuse, NoCall, Called
  <2> QED BY <1>3, <2>1
<1>9. CASE UnloadModem
  BY <1>2, <1>9 DEF UnloadModem
<1>10. CASE \/ LoadGpio \/ UnloadGpio \/ ReloadThermometer
            \/ (\E p \in Wired : Outside(p)) \/ UNCHANGED vars
  <2>1. loaded /\ l \notin named /\ osr' = osr /\ odsr' = odsr /\ call' = call
    BY <1>2, <1>10 DEF LoadGpio, UnloadGpio, ReloadThermometer, Outside, vars
  <2> QED BY <1>3, <2>1
<1> QED
  BY <1>4, <1>5, <1>6, <1>7, <1>8, <1>9, <1>10 DEF Next

(* A line of the modem nobody else has named is at rest, and every pulse   *)
(* on it reaches the modem, whatever is done to the other lines.           *)
THEOREM ModemUndisturbedHolds == Spec => []ModemUndisturbed
<1>1. Init => ModemUndisturbed
  BY DEF Init, ModemUndisturbed
<1>2. TypeOK /\ ModemUndisturbed /\ [Next]_vars => ModemUndisturbed'
  BY UndisturbedStep
<1> QED BY PinsTyped, <1>1, <1>2, PTL DEF Spec
=============================================================================
