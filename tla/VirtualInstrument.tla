-------------------------- MODULE VirtualInstrument --------------------------
(***************************************************************************)
(* The simulated instruments, server/src/virtual_instrument.rs: queues,    *)
(* the IEEE 488.2 status model and the SRQ line all devices share.  Every  *)
(* operation runs under the bus mutex, so it is one step; the operators    *)
(* take and return a bus, so that an operation that holds the bus for      *)
(* several of them (HislipExecute) composes them.                          *)
(*                                                                         *)
(* A status byte or register is a set of bit names; a program message is a *)
(* sequence of units, already parsed; a reply is body bytes and a newline. *)
(* Remote/local state, addressing modes and timeouts are left out.         *)
(***************************************************************************)
EXTENDS Integers, Sequences, SequencesExt

CONSTANTS
  Pads,        \* primary addresses with a device
  Messages,    \* the program messages clients send
  UserBits,    \* what the control channel sets user_stb to
  ErrorDepth,  \* slots of the error queue, 16 in the code
  BigReply,    \* body bytes of the reply to TEST:BIG?
  ReadSizes,   \* the max_len of reads
  MaxOutput,   \* bound: no message is written past this many bytes of output
  MaxInput     \* bound: units of an unterminated message

EventBits == {"CME", "EXE", "OPC"}
StatusBits == {"USER", "MAV", "ESB", "MSS"}
Errors == EventBits \cup {"overflow"}

Heads ==
  {"*RST", "*CLS", "*SRE", "*ESE", "*ESR?", "*OPC", "*TRG", "*IDN?", "SYST:ERR?", "TEST:BIG?",
   "TEST:SRQ", "undefined"}

\* A program message unit; an enable register keeps the bits it has.
Units ==
  {u \in [head : Heads, arg : SUBSET (StatusBits \cup EventBits)] :
     /\ u.head = "*SRE" => u.arg \subseteq StatusBits
     /\ u.head = "*ESE" => u.arg \subseteq EventBits}

ASSUME BusAssumption ==
  /\ Messages \subseteq Seq(Units) /\ UserBits \subseteq SUBSET StatusBits
  /\ ErrorDepth \in Nat \ {0} /\ BigReply \in Nat
  /\ ReadSizes \subseteq Nat /\ MaxOutput \in Nat /\ MaxInput \in Nat

VARIABLE
  bus   \* dev: pad -> Device; srq_line; srq: the last step broadcast an SRQ

Devices == [output : Seq({"byte", "newline"}), input : Seq(Units), errors : Seq(Errors),
            sre : SUBSET StatusBits, ese : SUBSET EventBits, esr : SUBSET EventBits,
            user_stb : SUBSET StatusBits, last_mss : BOOLEAN]

BusTypeOK ==
  /\ bus \in [dev : [Pads -> Devices], srq_line : BOOLEAN, srq : BOOLEAN]
  /\ \A p \in Pads : Len(bus.dev[p].errors) <= ErrorDepth

PowerOn == [output |-> <<>>, input |-> <<>>, errors |-> <<>>, sre |-> {}, ese |-> {},
            esr |-> {}, user_stb |-> {}, last_mss |-> FALSE]

BusInit == bus = [dev |-> [p \in Pads |-> PowerOn], srq_line |-> FALSE, srq |-> FALSE]

-----------------------------------------------------------------------------
(* Device.                                                                 *)

\* stb: MSS summarises every other bit that SRE enables.
Stb(d) ==
  LET summary == d.user_stb
                   \cup (IF d.output # <<>> THEN {"MAV"} ELSE {})
                   \cup (IF d.esr \cap d.ese # {} THEN {"ESB"} ELSE {})
  IN summary \cup (IF (summary \cap d.sre) \ {"MSS"} # {} THEN {"MSS"} ELSE {})

Mss(d) == "MSS" \in Stb(d)

\* error: a full queue has its last entry replaced by -350.
Error(d, code) ==
  [d EXCEPT !.errors = IF Len(@) >= ErrorDepth THEN Append(Front(@), "overflow")
                                              ELSE Append(@, code),
            !.esr = @ \cup {code}]

Reply(d, bytes) ==
  [d EXCEPT !.output = @ \o [i \in 1..bytes |-> "byte"] \o <<"newline">>]

ClearIo(d) == [d EXCEPT !.output = <<>>, !.input = <<>>]

\* reset leaves the enable registers and last_mss alone.
Reset(d) ==
  [d EXCEPT !.output = <<>>, !.input = <<>>, !.errors = <<>>, !.esr = {}, !.user_stb = {}]

\* execute: one program message unit.
Execute(d, u) ==
  CASE u.head = "*RST" -> Reset(d)
    [] u.head = "*CLS" -> [d EXCEPT !.errors = <<>>, !.esr = {}, !.user_stb = {}]
    [] u.head = "*SRE" -> [d EXCEPT !.sre = u.arg]
    [] u.head = "*ESE" -> [d EXCEPT !.ese = u.arg]
    [] u.head = "*ESR?" -> Reply([d EXCEPT !.esr = {}], 1)
    [] u.head = "*OPC" -> [d EXCEPT !.esr = @ \cup {"OPC"}]
    [] u.head = "*TRG" -> Error(d, "EXE")
    [] u.head = "SYST:ERR?" ->
         Reply([d EXCEPT !.errors = IF @ = <<>> THEN @ ELSE Tail(@)], 1)
    [] u.head = "TEST:BIG?" -> Reply(d, BigReply)
    [] u.head = "TEST:SRQ" -> [d EXCEPT !.user_stb = @ \cup {"USER"}]
    [] u.head = "*IDN?" -> Reply(d, 1)
    [] u.head = "undefined" -> Error(d, "CME")

\* The units of a message, one after the other.
Executed(d, units) ==
  LET after[i \in 0..Len(units)] == IF i = 0 THEN d ELSE Execute(after[i - 1], units[i])
  IN after[Len(units)]

-----------------------------------------------------------------------------
(* The bus.                                                                *)

AnyMss(dev) == \E p \in Pads : Mss(dev[p])

\* Mutant of UpdateSrq: last_mss is set on the rise and never falls.
UpdateSrqLatches(b, p, d) ==
  LET dev == [b.dev EXCEPT ![p] = [d EXCEPT !.last_mss = @ \/ Mss(d)]]
  IN [dev |-> dev, srq_line |-> AnyMss(dev), srq |-> b.srq \/ (Mss(d) /\ ~d.last_mss)]

\* update_srq, device p having become d: the broadcast follows p's edge and the
\* line follows every device.
UpdateSrq(b, p, d) ==
  LET dev == [b.dev EXCEPT ![p] = [d EXCEPT !.last_mss = Mss(d)]]
  IN [dev |-> dev, srq_line |-> AnyMss(dev), srq |-> b.srq \/ (Mss(d) /\ ~d.last_mss)]

\* write: the message is executed once EOI or a newline ends it, and SRQ is
\* looked at once, at its end.
BusWrite(b, p, message, complete) ==
  LET d == b.dev[p]
      whole == d.input \o message
  IN IF complete
       THEN UpdateSrq(b, p, Executed([d EXCEPT !.input = <<>>], whole))
       ELSE [b EXCEPT !.dev[p].input = whole]

\* The bytes a read takes: max_len at most, and up to a newline if EOS is on.
Taken(output, max, eos) ==
  LET upTo == IF Len(output) < max THEN Len(output) ELSE max
      lines == {i \in 1..upTo : output[i] = "newline"}
  IN IF eos /\ lines # {} THEN CHOOSE i \in lines : \A j \in lines : i <= j ELSE upTo

\* read: nothing to say leaves everything as it is.
BusRead(b, p, max, eos) ==
  LET d == b.dev[p]
      rest == SubSeq(d.output, Taken(d.output, max, eos) + 1, Len(d.output))
  IN IF d.output = <<>> THEN b ELSE UpdateSrq(b, p, [d EXCEPT !.output = rest])

BusClear(b, p) == UpdateSrq(b, p, ClearIo(b.dev[p]))
BusTrigger(b, p) == UpdateSrq(b, p, Error(b.dev[p], "EXE"))

\* serial_poll: last_mss is refreshed and the line recomputed; nothing is cleared.
BusPoll(b, p) ==
  LET dev == [b.dev EXCEPT ![p].last_mss = Mss(b.dev[p])]
  IN [b EXCEPT !.dev = dev, !.srq_line = AnyMss(dev)]

BusSetStb(b, p, bits) == UpdateSrq(b, p, [b.dev[p] EXCEPT !.user_stb = bits])

\* Mutant of BusReset: the line is left as it was.
BusResetKeepsLine(b) == [b EXCEPT !.dev = [p \in Pads |-> Reset(b.dev[p])]]

\* reset_devices.
BusReset(b) == [b EXCEPT !.dev = [p \in Pads |-> Reset(b.dev[p])], !.srq_line = FALSE]

-----------------------------------------------------------------------------
\* Nothing has been broadcast yet in a step that begins.
Quiet == [bus EXCEPT !.srq = FALSE]

Write(p, message, complete) ==
  /\ Len(bus.dev[p].output) <= MaxOutput
  /\ complete \/ Len(bus.dev[p].input) + Len(message) <= MaxInput
  /\ bus' = BusWrite(Quiet, p, message, complete)

Read(p, max, eos) == bus' = BusRead(Quiet, p, max, eos)
DeviceClear(p) == bus' = BusClear(Quiet, p)
Trigger(p) == bus' = BusTrigger(Quiet, p)
SerialPoll(p) == bus' = BusPoll(Quiet, p)
SetStb(p, bits) == bus' = BusSetStb(Quiet, p, bits)
ResetDevices == bus' = BusReset(Quiet)

\* Operations on one device.  ResetDevices, after which a rise of MSS may go
\* unannounced (last_mss is stale), is a step of HislipExecute.
BusNext ==
  \E p \in Pads :
    \/ \E m \in Messages, complete \in BOOLEAN : Write(p, m, complete)
    \/ \E max \in ReadSizes, eos \in BOOLEAN : Read(p, max, eos)
    \/ DeviceClear(p) \/ Trigger(p) \/ SerialPoll(p)
    \/ \E bits \in UserBits : SetStb(p, bits)

BusSpec == BusInit /\ [][BusNext]_bus

-----------------------------------------------------------------------------
(* Properties.                                                             *)

\* update_srq: "The line follows any device requesting service, not just this
\* one", whatever mix of operations on whatever devices came before, a reset of all
\* of them included.  No queue outgrows its depth either.
LineFollowsDevices ==
  /\ BusTypeOK
  /\ bus.srq_line = AnyMss(bus.dev)

\* The header: "SRQ is asserted on the 0->1 edge of MSS", and last_mss: "SRQ fires
\* on the edge and not on every poll".  A step broadcasts exactly if it raises MSS
\* of some device.
BroadcastsAreRises ==
  bus'.srq <=> \E p \in Pads : ~Mss(bus.dev[p]) /\ Mss(bus'.dev[p])
SrqFollowsRises == [][BroadcastsAreRises]_bus
=============================================================================
