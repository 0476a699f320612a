------------------------------ MODULE IoChecks -------------------------------
(***************************************************************************)
(* 02_io.py, 06_terminate.py and 07_clear.py: what the checks on messages, *)
(* viTerminate and viClear do, on one session, against a library that      *)
(* conforms or has one flaw.                                               *)
(*                                                                         *)
(* A reply is a sequence of pieces, END on the last; the instrument queues *)
(* replies, and a read takes pieces of the first.  06_terminate reads on a *)
(* thread of its own, which may not have begun when viTerminate is called. *)
(***************************************************************************)
EXTENDS CheckProgram, IoPrograms

CONSTANT Suites   \* script, transport -> its checks: IoSuites

\* What a target without the mock server calls large may have lines too.
EndsLine(piece) == piece \notin {"b1", "b2"} \/ (piece = "b1" /\ regs["server"] = "lines")

-----------------------------------------------------------------------------
(* The session and the instrument.                                         *)

VARIABLES
  data,     \* register -> what was read into it
  out,      \* replies the instrument has queued
  partial,  \* a command written without END waits for the rest
  attrs,    \* termchar enabled, send-end enabled, the long timeout set
  reader,   \* the thread that reads: "none", "starting", "blocked", or how it ended
  errors    \* what stats.error recorded
library == <<data, out, partial, attrs, reader, errors>>
vars == <<control, library>>

\* What VPP-4.3 allows: aborting the read is recommended, viTerminate optional.
Allowed == {"none", "noabort", "noterminate"}
\* The check that is there for a flaw, or the name its failure is recorded under.
Catchers ==
  [ endlost |-> "final 1", eats |-> "intact 1", ignoresterm |-> "split", eagerend |-> "split write",
    clearfails |-> "clear cycles", clearraises |-> "clear cycles", clearkeeps |-> "discards",
    clearpartial |-> "mid message", idlefails |-> "idle" ]
Recorded ==
  [ terminatefails |-> "reports success", stuck |-> "unblocks the read",
    raises |-> "read completes",
    dirty |-> "usable again", wedged |-> "usable again" ]
IoFlaws == DOMAIN Catchers \cup DOMAIN Recorded \cup Allowed

Suite == Suites[script, transport]
Kept == {"big", "server", "probe", "ref", "c1", "c2", "c3", "c4", "lines", "reads", "impl", "j"}
Locals == {"x", "y", "p", "part", "c", "t", "got", Anything}
Registers == Kept \cup Locals
Blank == [r \in Registers |-> IF r \in Locals THEN "unset" ELSE regs[r]]

Init ==
  \* None of these checks asks for the transport.
  /\ script \in IoScripts /\ transport = "hislip" /\ flaw \in IoFlaws
  \* Only 02_io asks for the mock server, only 07_clear for a query to leave unread.
  /\ \E big \in {"yes", "no"},
        server \in IF script = "02_io" THEN {"yes", "lines", "no"} ELSE {"yes"},
        probe \in IF script = "07_clear" THEN {"distinct", "same", "none"} ELSE {"distinct"} :
       Start([r \in Registers |->
                CASE r = "big" -> big [] r = "server" -> server [] r = "probe" -> probe
                  [] OTHER -> "unset"])
  /\ data = [r \in Registers |-> <<>>] /\ out = <<>> /\ partial = FALSE
  /\ attrs = [termchar |-> FALSE, sendend |-> TRUE, long |-> FALSE]
  /\ reader = "none" /\ errors = {}

I == Instr(Suite)

\* Where a read for at most c pieces stops in the reply: END first, then the
\* termination character, then the count.
Stops(reply, c) ==
  LET lines == {k \in 1..Len(reply) : EndsLine(reply[k])}
      stop == IF attrs.termchar /\ flaw # "ignoresterm" THEN lines ELSE {}
      upto == {k \in 1..Len(reply) : k <= c}
  IN CHOOSE k \in upto : /\ k \in stop \/ k = c \/ k = Len(reply)
                         /\ \A j \in upto : j < k => j \notin stop
ReadStatus(reply, c) ==
  LET k == Stops(reply, c) IN
  CASE k = Len(reply) /\ (flaw = "endlost" => k < c) -> "success"
    [] k < Len(reply) /\ attrs.termchar /\ EndsLine(reply[k]) -> "termchar"
    [] OTHER -> "maxcount"
\* What is left of the replies: one flaw loses the piece at the boundary.
Left(c) ==
  LET k == Stops(Head(out), c)
      from == IF flaw = "eats" /\ k < Len(Head(out)) THEN k + 2 ELSE k + 1
  IN IF from > Len(Head(out)) THEN Tail(out)
     ELSE <<SubSeq(Head(out), from, Len(Head(out)))>> \o Tail(out)

Answer(cmd) ==
  CASE cmd = "stale" /\ regs["probe"] = "same" -> <<Replies.idn>>
    [] cmd \in DOMAIN Replies -> <<Replies[cmd]>>
    [] cmd = "rest" -> IF partial THEN <<Replies.idn>> ELSE <<>>
    [] OTHER -> <<>>

DoWrite ==
  /\ At(Suite, {"write"})
  /\ out' = out \o Answer(I.cmd)
  /\ partial' = (I.cmd = "half" /\ ~attrs.sendend /\ flaw # "eagerend")
  /\ Advance(Suite) /\ UNCHANGED <<mishap, regs, data, attrs, reader, errors>>

\* inst.query: the write, then a read to the end of the first reply.  It times out where
\* the instrument does not know the query, or the library lost the session.
TimesOut(cmd) ==
  \/ cmd = "stale" /\ regs["probe"] = "none"
  \/ flaw = "wedged" /\ regs["t"] # "unset"
DoQuery ==
  /\ At(Suite, {"query"})
  /\ IF TimesOut(I.cmd)
     THEN regs' = [regs EXCEPT ![I.r] = "timeout"] /\ UNCHANGED <<data, out>>
     ELSE LET all == out \o Answer(I.cmd) IN
            /\ regs' = [regs EXCEPT ![I.r] = "success"]
            /\ data' = [data EXCEPT ![I.r] = Head(all)]
            /\ out' = Tail(all)
  /\ Advance(Suite) /\ UNCHANGED <<mishap, partial, attrs, reader, errors>>

\* One viRead; a loop stays here until enough came or the status says stop.
DoRead ==
  /\ At(Suite, {"read"})
  /\ IF out = <<>>
     THEN /\ regs' = [regs EXCEPT ![I.r] = "timeout"]
          /\ Advance(Suite) /\ UNCHANGED <<data, out>>
     ELSE LET k == Stops(Head(out), I.c)
              st == ReadStatus(Head(out), I.c)
              sofar == data[I.r] \o SubSeq(Head(out), 1, k)
          IN /\ regs' = [regs EXCEPT ![I.r] = st,
                !["reads"] = IF I.max = 1 THEN @ ELSE IF data[I.r] = <<>> THEN "one" ELSE "many"]
             /\ data' = [data EXCEPT ![I.r] = sofar]
             /\ out' = Left(I.c)
             /\ IF I.max = 1 \/ Len(sofar) >= I.max \/ st \in I.until
                THEN Advance(Suite)
                ELSE UNCHANGED <<program, n, ip, cleanup, verdicts, turn, aside>>
  /\ UNCHANGED <<mishap, partial, attrs, reader, errors>>

YesNo(b) == IF b THEN "yes" ELSE "no"
Look ==
  /\ At(Suite, {"got", "sameas", "set", "record", "keep"})
  /\ regs' = CASE I.op = "got"    -> [regs EXCEPT !["got"] = YesNo(data[I.r] = I.v)]
               [] I.op = "sameas" -> [regs EXCEPT !["got"] = YesNo(data[I.r] = data[I.q])]
               [] I.op = "keep"   -> [regs EXCEPT ![I.memo] = regs[I.r]]
               [] OTHER -> regs
  /\ data' = IF I.op = "keep" THEN [data EXCEPT ![I.memo] = data[I.r]] ELSE data
  /\ attrs' = IF I.op = "set" THEN [attrs EXCEPT ![I.attr] = I.v] ELSE attrs
  /\ errors' = IF I.op = "record" THEN errors \cup {I.e} ELSE errors
  /\ Advance(Suite) /\ UNCHANGED <<mishap, out, partial, reader>>

\* viClear, through clear_status: a raise is an assertion like any other.
DoClear ==
  /\ At(Suite, {"clear"})
  /\ regs' = [regs EXCEPT ![I.r] =
       CASE flaw = "clearfails" -> "error" [] flaw = "clearraises" -> "raised"
         [] OTHER -> "success"]
  /\ out' = CASE flaw = "clearkeeps" -> out
              [] flaw = "clearpartial" /\ out # <<>> /\ Head(out) = <<"b3">> -> out
              [] OTHER -> <<>>
  /\ partial' = FALSE
  /\ Advance(Suite) /\ UNCHANGED <<mishap, data, attrs, reader, errors>>

\* viTerminate aborts the read that is blocked; with none it does nothing.
DoTerminate ==
  /\ At(Suite, {"terminate"})
  /\ LET blocked == reader = "blocked"
         st == CASE flaw = "noterminate" -> "nonimplemented"
                 [] flaw = "idlefails" /\ ~blocked /\ reader = "none" /\ I.r = "x" -> "error"
                 [] flaw = "terminatefails" /\ reader # "none" -> "error"
                 [] OTHER -> "success"
     IN /\ regs' = [regs EXCEPT ![I.r] = st]
        /\ reader' = IF ~blocked \/ flaw \in {"noabort", "stuck"} THEN reader
                     ELSE IF flaw = "raises" THEN "raised" ELSE "aborted"
        /\ out' = IF blocked /\ flaw = "dirty" THEN Append(out, Replies.stale) ELSE out
  /\ Advance(Suite) /\ UNCHANGED <<mishap, data, partial, attrs, errors>>

StartThread ==
  /\ At(Suite, {"start"})
  /\ reader' = "starting"
  /\ Advance(Suite) /\ UNCHANGED <<mishap, regs, data, out, partial, attrs, errors>>
\* The thread gets to its viRead: after the delay, as a rule.
ReaderBlocks ==
  /\ reader = "starting" /\ reader' = "blocked"
  /\ UNCHANGED <<control, data, out, partial, attrs, errors>>
\* thread.join: the read ended, ran its full timeout, or is there still.
DoJoin ==
  /\ At(Suite, {"join"}) /\ reader # "starting"
  /\ regs' = [regs EXCEPT ![I.r] =
       CASE reader = "blocked" /\ flaw = "stuck" -> "alive"
         [] reader = "blocked" /\ flaw # "stuck" -> "fulltimeout"
         [] OTHER -> reader]
  /\ reader' = IF reader = "blocked" /\ flaw = "stuck" THEN reader ELSE "none"
  /\ Advance(Suite) /\ UNCHANGED <<mishap, data, out, partial, attrs, errors>>

\* A check's own variables go with it, those of the thread that is aside come back.
Locally(other) == data' = [r \in Registers |-> IF r \in Locals THEN other[r] ELSE data[r]]
NoData == [r \in Registers |-> <<>>]
EndCheck ==
  /\ \/ Return(Suite, Blank) /\ Locally(NoData)
     \/ StrayEnds(Suite, Kept) /\ Locally(aside.own)
  /\ UNCHANGED <<out, partial, attrs, reader, errors>>

\* What the library may do once to a check: raise, or take longer than its watchdog.
LibraryCalls == {"write", "query", "read", "set", "clear", "terminate"}
Mishap ==
  \/ Raises(Suite, LibraryCalls, {"set"}) /\ UNCHANGED library
  \/ /\ Abandon(Suite, LibraryCalls, Blank, data) /\ Locally(NoData)
     /\ UNCHANGED <<out, partial, attrs, reader, errors>>
SwitchThread ==
  /\ Switch(Suite, LibraryCalls \cup {"start", "join", "record", "keep"}, Kept, data) /\ Locally(aside.own)
  /\ UNCHANGED <<out, partial, attrs, reader, errors>>

Control == (PassOver(Suite) \/ Push(Suite) \/ Decide(Suite)) /\ UNCHANGED library
Next ==
  \/ Control \/ DoWrite \/ DoQuery \/ DoRead \/ Look \/ DoClear
  \/ DoTerminate \/ StartThread \/ ReaderBlocks \/ DoJoin
  \/ EndCheck \/ Mishap \/ SwitchThread

Spec == Init /\ [][Next]_vars

-----------------------------------------------------------------------------
(* Properties.                                                             *)

\* A library within the rules fails nothing: a check passes, or skips because there is
\* no large query, no response with lines, no viTerminate, or a read that viTerminate did
\* not reach in time.
NoFalseAlarm ==
  flaw \in Allowed /\ mishap = "none" =>
    /\ errors = {} /\ \A i \in DOMAIN verdicts : verdicts[i] # "FAIL"
    /\ (/\ flaw = "none" /\ script # "06_terminate"
        /\ regs["big"] = "yes" /\ regs["server"] # "no" /\ regs["probe"] = "distinct") => AllPass

\* Every flaw fails the check written for it, or is recorded under its own name unless
\* the reader's thread was late, so that viTerminate came before its read.
FlawsAreCaught ==
  Finished(Suite) =>
    /\ (/\ flaw \in DOMAIN Catchers /\ regs["big"] = "yes" /\ regs["server"] # "no"
        /\ regs["probe"] = "distinct") =>
         \A i \in DOMAIN Suite : Suite[i].name = Catchers[flaw] => verdicts[i] = "FAIL"
    /\ (flaw \in DOMAIN Recorded /\ script = "06_terminate") =>
         Recorded[flaw] \in errors \/ regs["j"] = "fulltimeout"

\* Whether a check returns, fails, skips or raises, the attributes it set are back before
\* the next one runs.  Those of a check the watchdog abandoned are back once its thread has
\* ended; only the call that puts them back may itself raise.
AttributesRestored ==
  (BetweenChecks /\ ~StrayLives /\ mishap # "uncleaned") =>
    attrs = [termchar |-> FALSE, sendend |-> TRUE, long |-> FALSE]

\* A check a conforming library passes or skips has read every reply it asked for and
\* finished every message it began, so that the next one does not read its answers.
RepliesTaken ==
  (BetweenChecks /\ flaw \in Allowed /\ mishap = "none") => out = <<>> /\ ~partial
=============================================================================
