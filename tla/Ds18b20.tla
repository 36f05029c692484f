------------------------------- MODULE Ds18b20 -------------------------------
(***************************************************************************)
(* ds18b20/ds18b20.c: reading thermometers, one byte of the bus an action. *)
(*                                                                         *)
(* A read delays with udelay and never sleeps before it copies its result, *)
(* so no other process runs during it and the clients need not be told     *)
(* apart; what does run is interrupts, which stretch a time slot, and the  *)
(* sensor, which finishes a conversion when it likes.                      *)
(***************************************************************************)
EXTENDS OneWire, FiniteSetsExt

CONSTANTS
  Line,        \* the GPIO lines the clients may name, numbered through the ports
  Requests,    \* the <<which_port, which_pin>> they ask for
  Sensor,      \* the lines that have a sensor
  Low,         \* those held low; a line that is neither is pulled up
  Pads,        \* the scratchpads a conversion may give, without the checksum
  MaxReads,    \* bound on the number of reads
  MaxHits,     \* bound on the time slots interrupts stretch
  DoubleCost   \* how many of those a slot counts for that an interrupt doubles

NoLine == -32       \* DS18B20_PIN before an ioctl: 0, which is no line

ASSUME Ds18b20Assumption ==
  /\ Line \subseteq 0 .. 127
  /\ Sensor \subseteq Line
  /\ Low \subseteq Line \ Sensor
  /\ Requests \subseteq Int \X Int
  /\ \A r \in Requests : r[1] \in 0 .. 3 => 32 * r[1] + r[2] \in Line
  /\ \A pad \in Pads : pad \in Seq(Byte) /\ Len(pad) = 8
  /\ \A p, q \in Pads : SubSeq(p, 3, 8) = SubSeq(q, 3, 8)
  /\ MaxReads \in Nat /\ MaxHits \in Nat /\ DoubleCost \in Nat

SKIP_ROM        == 204
READ_ROM        == 51
CONVERT_T       == 68
READ_SCRATCHPAD == 190
Reset           == 256        \* no byte: a reset pulse

VARIABLES
  loaded,    \* whether the module is loaded
  pin,       \* DS18B20_PIN
  pc,        \* 0 outside a read, else the step of ds18b20_proc, or the last
  tmpdata,   \* the global buffer
  lastdata,  \* the last good reading
  sensor,    \* each sensor: what it expects, sends and has in its scratchpad
  reads,     \* the number of reads
  ahead,     \* the bits the line's sensor is ahead of the driver in this read
  hits,      \* the number of slots stretched, or doubled
  held,      \* history: the scratchpads the line's sensor has had in this read
  stretched, \* history: the number of slots stretched or doubled in this read
  busy,      \* history: whether it was converting when this read told it to convert
  good       \* history: the first two bytes last accepted

vars == << loaded, pin, pc, tmpdata, lastdata, sensor, reads, ahead, hits,
           held, stretched, busy, good >>
history == << held, stretched, busy, good >>

(* Whether any slot of this read was stretched or doubled. *)
hit == stretched # 0

(* Seeded fault: no reset between the two commands. *)
ProcNoReset == << Reset, READ_ROM, Reset, SKIP_ROM, CONVERT_T, SKIP_ROM, READ_SCRATCHPAD >>

(* ds18b20_proc up to the reading of the scratchpad. *)
Proc == << Reset, READ_ROM, Reset, SKIP_ROM, CONVERT_T, Reset, SKIP_ROM, READ_SCRATCHPAD >>

FirstRead == Len(Proc) + 1
Done      == Len(Proc) + 10

Present == pin \in Sensor

(* Each scratchpad with the checksum the sensor sends after it. *)
Sealed == [pad \in Pads |-> Append(pad, SensorCrc(pad))]

Init ==
  /\ loaded = FALSE
  /\ pin = NoLine
  /\ pc = 0
  /\ tmpdata = [i \in 1 .. 9 |-> 0]
  /\ lastdata = << 0, 0 >>
  /\ sensor \in [Sensor -> [at : {"deaf"}, sent : {0}, pad : Pads, conversion : {"idle"}]]
  /\ reads = 0
  /\ ahead = 0
  /\ hits = 0
  /\ held = {}
  /\ stretched = 0
  /\ busy = FALSE
  /\ good = << 0, 0 >>
------------------------------------------------------------------------------
(* init and exit *)

(* misc_register; where it fails, insmod does and nothing has happened. *)
Insmod ==
  /\ ~ loaded
  /\ loaded' = TRUE
  /\ UNCHANGED << pin, pc, tmpdata, lastdata, sensor, reads, ahead, hits, history >>

(* misc_deregister, and the module's globals are gone with it; no client   *)
(* has the device open.  The sensors know nothing of it.                   *)
Rmmod ==
  /\ loaded /\ pc = 0
  /\ loaded' = FALSE
  /\ pin' = NoLine
  /\ tmpdata' = [i \in 1 .. 9 |-> 0]
  /\ lastdata' = << 0, 0 >>
  /\ good' = << 0, 0 >>
  /\ UNCHANGED << pc, sensor, reads, ahead, hits, held, stretched, busy >>
------------------------------------------------------------------------------
(* ioctl *)

(* Seeded fault: no port is refused. *)
AnyPort(port, n) == 32 * port + n

(* The number of a line, less PIN_BASE; which_pin is not tested.          *)
get_port_pin(port, n) == IF port \in 0 .. 3 THEN 32 * port + n ELSE -1

(* AT91_DS18B20_CTL chooses the line, unless there is no such port; any    *)
(* other command is ignored.                                               *)
Ioctl(port, n) ==
  /\ loaded
  /\ pc = 0
  /\ get_port_pin(port, n) # -1
  /\ pin' = get_port_pin(port, n)
  /\ UNCHANGED << loaded, pc, tmpdata, lastdata, sensor, reads, ahead, hits, history >>

(* copy_from_user fails unseen: what was on the stack chooses, or is no    *)
(* port and is refused.                                                    *)
IoctlGarbage ==
  /\ loaded
  /\ pc = 0
  /\ pin' \in Line
  /\ UNCHANGED << loaded, pc, tmpdata, lastdata, sensor, reads, ahead, hits, history >>
------------------------------------------------------------------------------
(* read *)

BeginRead ==
  /\ loaded
  /\ pc = 0
  /\ reads < MaxReads
  /\ reads' = reads + 1
  /\ pc' = 1
  /\ held' = IF Present THEN { Sealed[sensor[pin].pad] } ELSE {}
  /\ stretched' = 0
  /\ ahead' = 0
  /\ busy' = FALSE
  /\ UNCHANGED << loaded, pin, tmpdata, lastdata, sensor, hits, good >>

(* The sets of slots, within the bound, that carry this bit. *)
Stretchable(bits, bit) ==
  UNION { kSubset(k, { i \in Slots : bits[i] = bit }) : k \in 0 .. MaxHits - hits }

(* Interrupts stretch some of the slots in which it makes a difference. *)
Stretch(slots) ==
  /\ hits' = hits + Cardinality(slots)
  /\ stretched' = stretched + Cardinality(slots)

(* ds18b20_reset; that no sensor answers is printed and makes no           *)
(* difference.                                                             *)
ResetPulse ==
  /\ pc \in 1 .. Len(Proc)
  /\ Proc[pc] = Reset
  /\ pc' = pc + 1
  /\ sensor' = [s \in Sensor |-> IF s = pin THEN [sensor[s] EXCEPT !.at = "rom"] ELSE sensor[s]]
  /\ UNCHANGED << loaded, pin, tmpdata, lastdata, reads, ahead, hits, history >>

(* What a sensor does with a byte.  That READ_ROM makes it send its number *)
(* goes unheard: the driver resets it at once.  While it converts it does  *)
(* not begin again.                                                        *)
Hear(s, byte) ==
  CASE s.at = "rom" /\ byte = SKIP_ROM
         -> [s EXCEPT !.at = "function"]
    [] s.at = "function" /\ byte = CONVERT_T
         -> [s EXCEPT !.at = "deaf",
                      !.conversion = IF @ = "idle" THEN "new" ELSE @]
    [] s.at = "function" /\ byte = READ_SCRATCHPAD
         -> [s EXCEPT !.at = "sending", !.sent = 0]
    [] OTHER
         -> [s EXCEPT !.at = "deaf"]

(* ds18b20_write_byte.  In a stretched slot a 1 stays low long enough to   *)
(* be taken for a 0.                                                       *)
WriteByte ==
  /\ pc \in 1 .. Len(Proc)
  /\ Proc[pc] # Reset
  /\ pc' = pc + 1
  /\ \E slots \in Stretchable(WriteBits(Proc[pc]), 1) :
       /\ Stretch(slots)
       /\ LET heard == HeardByte([i \in Slots |-> IF i \in slots THEN 0
                                                  ELSE WriteBits(Proc[pc])[i]])
          IN  sensor' = [s \in Sensor |-> IF s = pin THEN Hear(sensor[s], heard) ELSE sensor[s]]
  /\ busy' = IF Proc[pc] = CONVERT_T THEN Present /\ sensor[pin].conversion # "idle" ELSE busy
  /\ UNCHANGED << loaded, pin, tmpdata, lastdata, reads, ahead, held, good >>

Sending == Present /\ pc >= FirstRead /\ sensor[pin].at = "sending"

(* The n-th bit a sensor sends of a scratchpad: ones after the last.       *)
BitSent(pad, n) ==
  IF n <= 72 THEN SentBits(Sealed[pad][((n - 1) \div 8) + 1])[((n - 1) % 8) + 1] ELSE 1

(* The bits on the line in the next eight slots of the driver, some of     *)
(* which have been doubled.                                                *)
OnLine(doubled) ==
  [i \in Slots |->
     IF Sending
     THEN BitSent(sensor[pin].pad, 8 * sensor[pin].sent + ahead + i
                                     + Cardinality({ d \in doubled : d <= i }))
     ELSE IF pin \in Low THEN 0 ELSE 1]

(* The sets of slots, within the bound, that interrupts double. *)
Doublable ==
  IF Sending /\ hits + DoubleCost <= MaxHits
  THEN { d \in SUBSET Slots : hits + DoubleCost * Cardinality(d) <= MaxHits }
  ELSE { {} }

(* ds18b20_read_byte.  A stretched slot is sampled after the sensor has    *)
(* let go of the line.  An interrupt before line 97, where the line is low *)
(* already, makes a slot of its own that is not sampled.                   *)
ReadByte ==
  /\ pc \in FirstRead .. Done - 1
  /\ pc' = pc + 1
  /\ \E doubled \in Doublable :
       LET line == OnLine(doubled) IN
       \E slots \in IF Present THEN Stretchable(line, 0) ELSE { {} } :
         /\ hits' = hits + Cardinality(slots) + DoubleCost * Cardinality(doubled)
         /\ hits' <= MaxHits
         /\ stretched' = stretched + Cardinality(slots) + Cardinality(doubled)
         /\ ahead' = ahead + Cardinality(doubled)
         /\ tmpdata' = [tmpdata EXCEPT ![pc - FirstRead + 1] =
                          ReadBits([i \in Slots |-> IF i \in slots THEN 1 ELSE line[i]])]
  /\ sensor' = [s \in Sensor |-> IF s = pin /\ sensor[s].at = "sending"
                                 THEN [sensor[s] EXCEPT !.sent = @ + 1] ELSE sensor[s]]
  /\ UNCHANGED << loaded, pin, lastdata, reads, held, busy, good >>

(* Seeded fault: the checksum is not looked at. *)
AnyAccepted == TRUE

Accepted == crc_check(tmpdata, 9) = 0

(* Seeded fault: the swapped bytes are not kept. *)
NotKept(two) == lastdata

(* memcpy(lastdata, tmpdata, 2), after the exchange. *)
Kept(two) == two

(* The first two bytes of tmpdata when they are copied to the user.        *)
Result == IF Accepted THEN << tmpdata[2], tmpdata[1] >> ELSE lastdata

(* The check, the exchange of the two bytes, and copy_to_user of them.     *)
CopyOut ==
  /\ pc = Done
  /\ pc' = 0
  /\ tmpdata' = [tmpdata EXCEPT ![1] = Result[1], ![2] = Result[2]]
  /\ lastdata' = IF Accepted THEN Kept(Result) ELSE lastdata
  /\ good' = IF Accepted THEN SubSeq(tmpdata, 1, 2) ELSE good
  /\ sensor' = [s \in Sensor |->
       [sensor[s] EXCEPT !.conversion = IF @ = "idle" THEN "idle" ELSE "old"]]
  /\ UNCHANGED << loaded, pin, reads, ahead, hits, held, stretched, busy >>
------------------------------------------------------------------------------
(* A conversion ends, 94 to 750 ms after it was started: not in the read   *)
(* that started it, perhaps in the middle of a later one.                  *)
ConversionEnds(s) ==
  /\ sensor[s].conversion = "old"
  /\ \E pad \in Pads :
       sensor' = [sensor EXCEPT ![s].pad = pad, ![s].conversion = "idle"]
  /\ held' = IF s = pin /\ pc # 0 THEN held \cup { Sealed[sensor'[s].pad] } ELSE held
  /\ UNCHANGED << loaded, pin, pc, tmpdata, lastdata, reads, ahead, hits, stretched, busy, good >>

Next ==
  \/ Insmod \/ Rmmod
  \/ \E r \in Requests : Ioctl(r[1], r[2])
  \/ IoctlGarbage
  \/ BeginRead \/ ResetPulse
  \/ WriteByte \/ ReadByte
  \/ CopyOut
  \/ \E s \in Sensor : ConversionEnds(s)

Spec == Init /\ [][Next]_vars
------------------------------------------------------------------------------
SensorState ==
  [at : { "deaf", "rom", "function", "sending" }, sent : 0 .. 9, pad : Pads,
   conversion : { "idle", "new", "old" }]

TypeOK ==
  /\ loaded \in BOOLEAN
  /\ pin \in Line \cup { NoLine }
  /\ pc \in 0 .. Done
  /\ tmpdata \in [1 .. 9 -> Byte]
  /\ lastdata \in Byte \X Byte
  /\ sensor \in [Sensor -> SensorState]
  /\ reads \in 0 .. MaxReads /\ hits \in 0 .. MaxHits
  /\ stretched \in Nat /\ ahead \in 0 .. stretched
  /\ busy \in BOOLEAN

(* Whichever three slots of a read are stretched, in the commands or in    *)
(* the data, the checksum lets nothing pass but a scratchpad the sensor of *)
(* the chosen line had while it was read; and so when a conversion         *)
(* replaces the scratchpad under a read that is not stretched as well: the *)
(* two together can pass, and so can four slots, and nothing is said of a  *)
(* read that lost a bit to a doubled slot.  Where there is no sensor it    *)
(* lets pass the nine zeros of a line held low, which read as 0 degrees,   *)
(* and nothing of a line pulled up (ds18b20.c:266).                        *)
Detected == 3
Zeros == [i \in 1 .. 9 |-> 0]
AcceptedIntact ==
  pc = Done /\ Accepted /\ stretched <= Detected /\ ahead = 0
    /\ ~ (hit /\ Cardinality(held) > 1) =>
    tmpdata \in held \/ (pin \in Low /\ tmpdata = Zeros)

(* When a reading is checked, each of the 256 hand-typed entries of the    *)
(* table agrees with the shift register the sensor computes its checksum   *)
(* with (ds18b20.c:49).                                                    *)
ChecksumsAgree == pc = Done => TableIsCrc

(* The conversion this read asked for has been started, if and only if     *)
(* none was under way.                                                     *)
Asked == sensor[pin].conversion = "new" <=> ~ busy

(* A read that nothing disturbs finds the sensor where the commands should *)
(* have brought it, whatever the reads before it left behind, a sensor     *)
(* that had run ahead among them: its scratchpad arrives, and this read    *)
(* has started a conversion, unless one that an earlier read had started   *)
(* was under way when this one asked, and then none is (ds18b20.c:145-177).*)
QuietRead ==
  pc = Done /\ Present /\ ~ hit =>
    /\ Cardinality(held) = 1 => tmpdata \in held
    /\ Asked

(* What is copied to the user is the last reading that was accepted, this  *)
(* read's or an earlier one's, most significant byte first                 *)
(* (ds18b20.c:266-293).                                                    *)
Delivered ==
  pc = 0 /\ reads > 0 => << tmpdata[1], tmpdata[2] >> = << good[2], good[1] >>
------------------------------------------------------------------------------
(* What is known at each step of a read, for the proofs. *)

(* Where the commands up to step k have brought a sensor that heard them.  *)
After == << "rom", "deaf", "rom", "function", "deaf", "rom", "function" >>

(* A conversion is new no longer than the read that started it. *)
Fresh == pc <= 1 => \A s \in Sensor : sensor[s].conversion # "new"

(* The sensor of the line, if nothing was stretched; and what it has sent  *)
(* in any case.                                                            *)
Listening ==
  Present /\ pc > 1 =>
    /\ ~ hit =>
         /\ pc < FirstRead => sensor[pin].at = After[pc - 1]
         /\ pc >= FirstRead => sensor[pin].at = "sending"
         /\ pc <= 5 => sensor[pin].conversion # "new"
         /\ pc > 5 => Asked
    /\ sensor[pin].at = "sending" =>
         sensor[pin].sent = IF pc < FirstRead THEN 0 ELSE pc - FirstRead

(* What was read is that of the only scratchpad there has been. *)
Arriving ==
  /\ IsFiniteSet(held) /\ held \subseteq { Sealed[pad] : pad \in Pads }
  /\ Present /\ pc > 0 =>
       /\ Sealed[sensor[pin].pad] \in held
       /\ ~ hit => \A h \in held : held = {h} =>
            \A i \in 1 .. 9 : i <= pc - FirstRead => tmpdata[i] = h[i]

(* The bits read so far that are not those of the scratchpad: no more than *)
(* the slots that were stretched.                                          *)
Wrong(h) ==
  { e \in { i \in 1 .. 9 : i <= pc - FirstRead /\ tmpdata[i] # h[i] } \X Slots :
      BitsOf(tmpdata[e[1]])[e[2]] # BitsOf(h[e[1]])[e[2]] }

(* A read sees two scratchpads at most, since a conversion it started does *)
(* not end in it; where nothing was stretched each byte is of one of them. *)
Garbled ==
  /\ Present /\ pc > 0 =>
       /\ Cardinality(held) <= 2
       /\ sensor[pin].conversion = "old" => held = { Sealed[sensor[pin].pad] }
  /\ Sending =>
       /\ ahead = 0 => \A h \in held : held = {h} => Cardinality(Wrong(h)) <= stretched
       /\ ~ hit => \A i \in 1 .. 9 : i <= pc - FirstRead =>
            \E h \in held : tmpdata[i] = h[i]

(* A line on which no sensor sends reads as it is held. *)
Silent ==
  pc >= FirstRead /\ ~ Sending =>
    \A i \in 1 .. 9 : i <= pc - FirstRead => tmpdata[i] = IF pin \in Low THEN 0 ELSE 255

Remembered ==
  /\ good \in Byte \X Byte
  /\ lastdata = << good[2], good[1] >>

DsInv == TypeOK /\ Fresh /\ Listening /\ Arriving /\ Garbled /\ Silent /\ Remembered /\ Delivered
==============================================================================
