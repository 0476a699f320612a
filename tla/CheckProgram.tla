---------------------------- MODULE CheckProgram -----------------------------
(***************************************************************************)
(* How a check script runs against a VISA library: the checks in order,    *)
(* each a sequence of instructions, each with one verdict.                 *)
(*                                                                         *)
(* A call leaves its answer in a register.  with and finally push what has *)
(* to happen on the way out; a failed assertion, a raised Skip and any     *)
(* other exception go straight to that.  A check that outlasts its         *)
(* watchdog is failed and left where it is: its thread goes on beside the  *)
(* checks after it.  The library under test conforms, or has one flaw; a   *)
(* conforming one may have one mishap.                                     *)
(***************************************************************************)
EXTENDS CheckSteps, Integers, FiniteSets

VARIABLES
  script, transport, flaw,
  n, ip,       \* the check the thread at hand runs, and its next instruction
  regs,        \* register -> what a call left in it
  cleanup,     \* what with and finally have still to do, innermost first
  verdicts,    \* PASS, FAIL or SKIP of each check that has ended
  turn,        \* the thread at hand: "main", or the "stray" the watchdog abandoned
  aside,       \* where the other of the two is, or NoThread
  mishap       \* the one thing that went wrong: "none", "lost", "raised", "uncleaned", "abandoned"

program == <<script, transport, flaw>>
threads == <<turn, aside, mishap>>
control == <<program, n, ip, regs, cleanup, verdicts, threads>>

Running(suite) == n <= Len(suite)
Body(suite) == suite[n].body
Unwinding(suite) == ip > Len(Body(suite))
\* The instruction at hand; a when stands for its inner one.
Raw(suite) == IF Unwinding(suite) THEN Head(cleanup) ELSE Body(suite)[ip]
Fires(suite) == Raw(suite).op = "when" => \A c \in Raw(suite).conds : regs[c[1]] \in c[2]
Instr(suite) == IF Raw(suite).op = "when" THEN Raw(suite).then ELSE Raw(suite)
At(suite, ops) ==
  /\ Running(suite)
  /\ Unwinding(suite) => cleanup # <<>>
  /\ Fires(suite) /\ Instr(suite).op \in ops

Advance(suite) ==
  /\ IF Unwinding(suite) THEN cleanup' = Tail(cleanup) /\ UNCHANGED ip
                         ELSE ip' = ip + 1 /\ UNCHANGED cleanup
  /\ UNCHANGED <<program, n, verdicts, turn, aside>>

\* A when whose condition does not hold.
PassOver(suite) ==
  /\ Running(suite)
  /\ Unwinding(suite) => cleanup # <<>>
  /\ ~Fires(suite)
  /\ Advance(suite) /\ UNCHANGED <<regs, mishap>>

Push(suite) ==
  /\ At(suite, {"finally"})
  /\ cleanup' = <<Instr(suite).then>> \o cleanup /\ ip' = ip + 1
  /\ UNCHANGED <<program, n, regs, verdicts, threads>>

-----------------------------------------------------------------------------
(* How a check ends.  run_checks files one verdict for the check it waits  *)
(* for; what an abandoned thread comes to, nobody hears.                   *)

File(verdict) ==
  verdicts' = IF turn = "main" THEN Append(SubSeq(verdicts, 1, n - 1), verdict) ELSE verdicts

\* The rest of the body is not run.
Stop(suite, verdict) ==
  /\ ip' = Len(Body(suite)) + 1 /\ File(verdict)
  /\ UNCHANGED <<program, n, regs, cleanup, turn, aside>>
Decide(suite) ==
  \/ /\ At(suite, {"require"})
     /\ IF regs[Instr(suite).r] \in Instr(suite).set
        THEN Advance(suite) /\ UNCHANGED regs ELSE Stop(suite, "FAIL")
     /\ UNCHANGED mishap
  \/ /\ At(suite, {"skipif"})
     /\ IF regs[Instr(suite).r] \in Instr(suite).set
        THEN Stop(suite, "SKIP") ELSE Advance(suite) /\ UNCHANGED regs
     /\ UNCHANGED mishap

\* A call raises what no assertion is about, and has done nothing.  On the way out the
\* rest of the clean-up is done all the same; some of it is not suppressed, and fails the check.
Raises(suite, calls, unsuppressed) ==
  /\ flaw = "none" /\ mishap = "none" /\ At(suite, calls)
  /\ IF Unwinding(suite)
     THEN /\ mishap' = "uncleaned" /\ cleanup' = Tail(cleanup)
          /\ IF Instr(suite).op \in unsuppressed THEN File("FAIL") ELSE UNCHANGED verdicts
          /\ UNCHANGED <<program, n, ip, regs, turn, aside>>
     ELSE mishap' = "raised" /\ Stop(suite, "FAIL")

NoThread == <<>>
Thread(mine) == [n |-> n, ip |-> ip, regs |-> regs, cleanup |-> cleanup, own |-> mine]

\* A call takes longer than the watchdog: the check has failed, its clean-up is not done,
\* its thread is where it is, with what is its own.
Abandon(suite, calls, blank, mine) ==
  /\ flaw = "none" /\ mishap = "none" /\ At(suite, calls)
  /\ mishap' = "abandoned" /\ aside' = Thread(mine)
  /\ File("FAIL")
  /\ n' = n + 1 /\ ip' = 1 /\ regs' = blank /\ cleanup' = <<>>
  /\ UNCHANGED <<program, turn>>

\* The thread that is aside comes to the fore, before a call or a new check: what is in
\* between concerns nobody else.  The registers kept in STATE are everybody's.
Resumed(kept) == [r \in DOMAIN regs |-> IF r \in kept THEN regs[r] ELSE aside.regs[r]]
Resume(kept) == n' = aside.n /\ ip' = aside.ip /\ cleanup' = aside.cleanup /\ regs' = Resumed(kept)
Switch(suite, calls, kept, mine) ==
  /\ aside # NoThread
  /\ Running(suite) => ip = 1 \/ At(suite, calls)
  /\ Resume(kept)
  /\ turn' = IF turn = "main" THEN "stray" ELSE "main"
  /\ aside' = Thread(mine)
  /\ UNCHANGED <<program, verdicts, mishap>>

\* The function returned or its exception left it: one verdict, then the next check.
\* STATE, the registers kept, outlives it.
Over(suite) == Running(suite) /\ Unwinding(suite) /\ cleanup = <<>>
Return(suite, blank) ==
  /\ turn = "main" /\ Over(suite)
  /\ IF Len(verdicts) < n THEN File("PASS") ELSE UNCHANGED verdicts
  /\ n' = n + 1 /\ ip' = 1 /\ regs' = blank
  /\ UNCHANGED <<program, cleanup, threads>>
\* The abandoned thread gets to its end.
StrayEnds(suite, kept) ==
  /\ turn = "stray" /\ Over(suite)
  /\ Resume(kept) /\ turn' = "main" /\ aside' = NoThread
  /\ UNCHANGED <<program, verdicts, mishap>>

Start(blank) ==
  /\ n = 1 /\ ip = 1 /\ regs = blank /\ cleanup = <<>> /\ verdicts = <<>>
  /\ turn = "main" /\ aside = NoThread /\ mishap = "none"

AllPass == \A i \in DOMAIN verdicts : verdicts[i] = "PASS"
Main == IF turn = "main" THEN Thread(<<>>) ELSE aside
BetweenChecks == Main.ip = 1 /\ Main.cleanup = <<>>
Finished(suite) == Main.n > Len(suite)
StrayLives == aside # NoThread
=============================================================================
