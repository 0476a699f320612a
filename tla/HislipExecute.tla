---------------------------- MODULE HislipExecute ----------------------------
(***************************************************************************)
(* HiSLIP's read-after-write policy, server/src/hislip/instrument.rs:      *)
(* HiSLIP has no read request, so execute holds the bus, writes a command, *)
(* decides whether to read a reply, and notices any service request the    *)
(* command causes before its own read takes the cause away.  VXI-11        *)
(* clients and the control channel use the same bus between executions.    *)
(***************************************************************************)
EXTENDS VirtualInstrument

CONSTANTS
  MaxRead,   \* MAX_READ
  NoRequest  \* no service request to report

ASSUME ExecuteAssumption ==
  /\ NoRequest \notin Pads /\ \A bits \in SUBSET StatusBits : bits # NoRequest
  /\ MaxRead \in Nat \ {0}

\* How the bus serves a command: as it should; with the write, the poll or the read
\* failing; or with a device whose silence is an empty message rather than a timeout.
Services == {"ok", "write fails", "poll fails", "read fails", "empty message"}

VARIABLE
  last   \* what the last step returned, if it was an execution: its pad, outcome and
         \* service_request; pad is NoRequest if it was none.  The outcome is "error",
         \* "none" or "unpolled" without data, "data", or "full": data of MAX_READ bytes

executeVars == <<bus, last>>

NoExecution == [pad |-> NoRequest, outcome |-> "none", service_request |-> NoRequest]

ExecuteInit == BusInit /\ last = NoExecution

-----------------------------------------------------------------------------
\* What a serial poll says of a service request.
Request(stb) == IF "MSS" \in stb THEN stb ELSE NoRequest

\* Mutant of Execution: the device is drained before it is polled.
ExecutionPollsLate(p, message, expect, how) ==
  LET written == BusWrite(Quiet, p, message, TRUE)
      read == BusRead(written, p, MaxRead, FALSE)
      polled == BusPoll(read, p)
  IN [bus |-> polled,
      last |-> [pad |-> p, outcome |-> "data", service_request |-> Request(Stb(polled.dev[p]))]]

\* Mutant of Execution: a command that looks like no query is not followed up.
ExecutionTrustsHint(p, message, expect, how) ==
  LET written == BusWrite(Quiet, p, message, TRUE)
      stb == Stb(written.dev[p])
      polled == BusPoll(written, p)
      read == BusRead(polled, p, MaxRead, FALSE)
  IN [bus |-> IF expect THEN read ELSE polled,
      last |-> [pad |-> p, outcome |-> "data", service_request |-> Request(stb)]]

\* execute.  A write that fails leaves the device alone.  Without a response expected
\* the device is always polled, and read only if it has output, or not at all if the
\* poll fails; with one, it is polled if the line is up, and read whether or not the
\* poll fails.  A read that fails or finds nothing is an error, and the service request
\* goes with it.  A request whose cause the read took is reported from the broadcast.
Execution(p, message, expect, how) ==
  LET written == BusWrite(Quiet, p, message, TRUE)
      stb == Stb(written.dev[p])
      poll == (~expect \/ written.srq_line) /\ how # "poll fails"
      polled == IF poll THEN BusPoll(written, p) ELSE written
      request == IF poll THEN Request(stb) ELSE NoRequest
      output == polled.dev[p].output
      failed == how = "read fails" \/ (output = <<>> /\ how # "empty message")
      read == BusRead(polled, p, MaxRead, FALSE)
      taken == output # <<>> /\ read.srq /\ ~read.srq_line
      Returns(b, outcome, req) ==
        [bus |-> b, last |-> [pad |-> p, outcome |-> outcome, service_request |-> req]]
  IN IF how = "write fails" THEN Returns(Quiet, "error", NoRequest)
     ELSE IF ~expect /\ how = "poll fails" THEN Returns(written, "unpolled", NoRequest)
     ELSE IF ~expect /\ "MAV" \notin stb THEN Returns(polled, "none", request)
     ELSE IF failed THEN Returns(polled, "error", NoRequest)
     ELSE Returns(read, IF Len(output) >= MaxRead THEN "full" ELSE "data",
                  IF request = NoRequest /\ taken THEN {"MSS", "MAV"} ELSE request)

\* One DataEND: its command is complete, and the hint may be wrong either way.
ExecuteCommand(p, message, expect, how) ==
  /\ Len(bus.dev[p].output) <= MaxOutput
  /\ LET e == Execution(p, message, expect, how) IN bus' = e.bus /\ last' = e.last

\* A step of anyone else on the bus, the control channel's Reset included.
OtherClient == BusNext /\ last' = NoExecution
ControlReset == ResetDevices /\ last' = NoExecution

ExecuteNext ==
  \/ \E p \in Pads, m \in Messages, expect \in BOOLEAN, how \in Services :
       ExecuteCommand(p, m, expect, how)
  \/ OtherClient \/ ControlReset

ExecuteSpec == ExecuteInit /\ [][ExecuteNext]_executeVars

-----------------------------------------------------------------------------
(* Properties.                                                             *)

\* execute: "dropping it here would eat a service request".  A service request
\* broadcast while a command holds the bus is reported with the command, or the
\* line is still up for the session's forwarder to find.
NoRequestIsEaten ==
  last.pad # NoRequest /\ bus.srq =>
    last.service_request # NoRequest \/ bus.srq_line

\* execute: skipping the read "would strand it in the output queue where it
\* corrupts the *next* exchange".  An execution that returns in good order, having
\* polled or read, leaves output behind in one case: the data it returns are MAX_READ
\* bytes, so that a shorter reply is a whole one, whatever the hint said, whatever other
\* clients left on the device and however long the replies are.  (After an error, or a
\* poll that failed, the device may still have output.)
NoOutputIsStranded ==
  last.pad # NoRequest /\ last.outcome \in {"none", "data"} =>
    bus.dev[last.pad].output = <<>>
=============================================================================
