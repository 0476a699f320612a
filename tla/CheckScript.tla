----------------------------- MODULE CheckScript -----------------------------
(***************************************************************************)
(* One check script as a process: script.run, harness.main and run_checks, *)
(* the watchdog that abandons a check's thread, the mock server the script *)
(* starts and replaces, and the report it leaves.                          *)
(*                                                                         *)
(* The actors are the main thread, one worker thread per check, and        *)
(* whoever kills the process.  A check's body is anything a check may do:  *)
(* record a failure through CTX["stats"], arm a fault and put it back,     *)
(* look its target up in CTX again, return, raise, or never return.        *)
(***************************************************************************)
EXTENDS Integers, Sequences, FiniteSets

CONSTANTS
  N,            \* number of checks harness.collect found
  Invocations,  \* the ways it may be run: the checks registered with watchdog=0,
                \* whether it passes on_timeout=restart_server, whether --report was given
  MaxOwn        \* bound: failures one check records by itself

VARIABLES
  run,      \* which invocation this is
  pc,       \* where the main thread is
  cur,      \* the check run_checks is at
  exc,      \* what the main thread is unwinding with, or "none"
  hung,     \* the main thread is in a call that will not return
  thread,   \* check -> "none", "running", how its function ended, then "gone"
  left,     \* checks whose thread the watchdog abandoned
  own,      \* check -> failures it has recorded by itself
  results,  \* Stats.results: what was recorded, in order
  draft,    \* the report write_report is building
  disk,     \* the file --report names
  summary,  \* failures in the line Stats.finish printed, or Unsaid
  code,     \* exit code, Running until then
  target,   \* generation of CTX["server"], 0 for a named --resource
  up,       \* generations of the mock server that run
  at,       \* check -> the generation its session and its srv belong to
  fault,    \* generation -> the check whose fault config is in force, or Clear
  before,   \* check -> the snapshot MockServer.faults will put back, or Unarmed
  looked,   \* history: checks that read CTX again after they were abandoned
  unreplaced \* history: generations restart_server could not replace

main == <<pc, cur, exc>>
filing == <<results, own>>
output == <<draft, disk, summary, code>>
servers == <<target, up, unreplaced>>
faults == <<fault, before>>
vars == <<run, main, hung, thread, left, filing, output, servers, at, faults, looked>>

Checks == 1..N
Generations == 0..(N + 1)

ASSUME ConstantsAssumption ==
  /\ N \in Nat /\ MaxOwn \in Nat
  /\ Invocations \subseteq [inline : SUBSET Checks, restartable : BOOLEAN, wanted : BOOLEAN]

Running == -1
Killed == -9
Clear == 0
Unarmed == -1
Unsaid == -1
None == "none"

-----------------------------------------------------------------------------
(* Exceptions, results, exit codes.                                        *)

\* What a check or SETUP raises, as far as run_checks and main tell it apart;
\* "broken" is everything else: an AssertionError, a VISA error, a bug.
Raised == {"skip", "timeout", "lost", "badcall", "broken"}
Ended == Raised \cup {"pass"}

\* run_checks' except clauses: a Skip is a SKIP, everything else that was raised
\* is a FAIL, whether the target failed or the check itself broke.
Outcome(kind) == CASE kind = "pass" -> "PASS" [] kind = "skip" -> "SKIP" [] OTHER -> "FAIL"

Result(c, by, kind) == [check |-> c, by |-> by, kind |-> kind]

Count(rs, outcome) == Cardinality({i \in DOMAIN rs : Outcome(rs[i].kind) = outcome})
Tally(rs) == [o \in {"PASS", "FAIL", "SKIP"} |-> Count(rs, o)]

\* harness.main, in the order of its except clauses.
ExitCode(e) ==
  CASE e = "interrupt" -> 130
    [] e = "lost"      -> 3
    [] e = "badcall"   -> 5
    [] OTHER           -> 2

NoDraft == [tally |-> Tally(<<>>), results |-> <<>>, state |-> "none"]

Init ==
  /\ run \in Invocations
  /\ pc = "start" /\ cur = 1 /\ exc = None /\ hung = FALSE
  /\ thread = [c \in Checks |-> None]
  /\ left = {} /\ looked = {} /\ unreplaced = {}
  /\ own = [c \in Checks |-> 0]
  /\ results = <<>>
  /\ draft = NoDraft /\ disk = NoDraft
  /\ summary = Unsaid /\ code = Running
  /\ target = 0 /\ up = {}
  /\ at = [c \in Checks |-> 0]
  /\ fault = [g \in Generations |-> Clear]
  /\ before = [c \in Checks |-> Unarmed]

Alive == code = Running

-----------------------------------------------------------------------------
(* The main thread: script._run under harness.main.                        *)

\* The script's transport is not the one asked for, the backend is not installed,
\* or it cannot reach the mock server: exit 4 before there is anything to report.
SetupMistake ==
  /\ Alive /\ pc = "start"
  /\ code' = 4
  /\ UNCHANGED <<run, main, thread, left, filing, draft, disk, summary, servers, at, faults,
                 looked>>

\* MockServer.start: its first line of output is what says that it serves.
Serve(g) == target' = g /\ up' = up \cup {g}

\* cli.open_target: a named resource, or a mock server, which may not start.
OpenTarget ==
  /\ Alive /\ pc = "start"
  /\ \/ pc' = "setup" /\ UNCHANGED <<target, up, exc>>
     \/ pc' = "setup" /\ Serve(1) /\ UNCHANGED exc
     \/ pc' = "unwind" /\ exc' = "broken" /\ UNCHANGED <<target, up>>
  /\ UNCHANGED <<run, cur, thread, left, filing, output, unreplaced, at, faults, looked>>

\* The module's SETUP, entered outside run_checks: whatever it raises, the Skip of
\* visa.session included, unwinds through the report to harness.main.
EnterSetup ==
  /\ Alive /\ pc = "setup"
  /\ \/ pc' = "next" /\ UNCHANGED exc
     \/ pc' = "outputs" /\ exc' \in Raised
  /\ UNCHANGED <<run, cur, thread, left, filing, output, servers, at, faults, looked>>

StartCheck ==
  /\ Alive /\ pc = "next" /\ cur <= N
  /\ pc' = "join"
  /\ thread' = [thread EXCEPT ![cur] = "running"]
  /\ at' = [at EXCEPT ![cur] = target]
  /\ UNCHANGED <<run, cur, exc, left, filing, output, servers, faults, looked>>

\* What run_checks does with what the function returned or raised: one Result, and,
\* after a TimeoutError of any origin, on_timeout.
File(kind) ==
  /\ results' = Append(results, Result(cur, "run", kind))
  /\ IF kind = "timeout" /\ run.restartable
       THEN pc' = "replace" /\ UNCHANGED cur
       ELSE pc' = "next" /\ cur' = cur + 1

\* worker.join returns because the function did.
CheckReturns ==
  /\ Alive /\ pc = "join" /\ thread[cur] \in Ended
  /\ File(thread[cur])
  /\ thread' = [thread EXCEPT ![cur] = "gone"]
  /\ UNCHANGED <<run, exc, left, own, output, servers, at, faults, looked>>

\* Mutant of WatchdogFires: the timeout is filed and the thread waited for again.
WatchdogFiresAndWaits ==
  /\ Alive /\ pc = "join" /\ thread[cur] = "running" /\ cur \notin run.inline \cup left
  /\ left' = left \cup {cur}
  /\ results' = Append(results, Result(cur, "run", "timeout"))
  /\ UNCHANGED <<run, main, thread, own, output, servers, at, faults, looked>>

\* worker.join times out with the thread alive: it is left running.
WatchdogFires ==
  /\ Alive /\ pc = "join" /\ thread[cur] = "running" /\ cur \notin run.inline
  /\ left' = left \cup {cur}
  /\ File("timeout")
  /\ UNCHANGED <<run, exc, thread, own, output, servers, at, faults, looked>>

\* Mutant of StopOld: the server is left to the abandoned thread.
StopOldKeepsTarget ==
  /\ Alive /\ pc = "replace"
  /\ pc' = "next" /\ cur' = cur + 1
  /\ UNCHANGED <<run, exc, thread, left, filing, output, servers, at, faults, looked>>

\* restart_server, which does nothing to a named resource.  The old server is
\* stopped first, and its faults with it; the replacement may not start, which
\* costs a note.
StopOld ==
  /\ Alive /\ pc = "replace"
  /\ IF target = 0
       THEN pc' = "next" /\ cur' = cur + 1 /\ UNCHANGED <<up, fault>>
       ELSE /\ pc' = "replacing" /\ up' = up \ {target} /\ UNCHANGED cur
            /\ fault' = [fault EXCEPT ![target] = Clear]
  /\ UNCHANGED <<run, exc, thread, left, filing, output, target, unreplaced, at, before, looked>>

StartFresh ==
  /\ Alive /\ pc = "replacing"
  /\ pc' = "next" /\ cur' = cur + 1
  /\ \/ Serve(target + 1) /\ UNCHANGED unreplaced
     \/ unreplaced' = unreplaced \cup {target} /\ UNCHANGED <<target, up>>
  /\ UNCHANGED <<run, exc, thread, left, filing, output, at, faults, looked>>

\* The end of SETUP's with block: check_errors may record a desync, and the
\* teardown may raise.
LeaveSetup ==
  /\ Alive /\ pc = "next" /\ cur > N
  /\ pc' = "outputs"
  /\ results' \in {results, Append(results, Result(0, "run", "desync"))}
  /\ exc' \in {None, "broken"}
  /\ UNCHANGED <<run, cur, thread, left, own, output, servers, at, faults, looked>>

\* Ctrl-C reaches the main thread while it waits.
Interrupt ==
  /\ Alive /\ pc = "join"
  /\ exc' = "interrupt" /\ pc' = "outputs"
  /\ UNCHANGED <<run, cur, thread, left, filing, output, servers, at, faults, looked>>

\* The finally clause: Stats.report reads the counts, then the results, without
\* Stats._lock; write_report writes a .partial beside the file and renames it.
ReportCounts ==
  /\ Alive /\ pc = "outputs" /\ run.wanted
  /\ pc' = "results"
  /\ draft' = [draft EXCEPT !.tally = Tally(results)]
  /\ UNCHANGED <<run, cur, exc, thread, left, filing, disk, summary, code, servers, at, faults,
                 looked>>

ReportResults ==
  /\ Alive /\ pc = "results"
  /\ pc' = "partial"
  /\ draft' = [draft EXCEPT !.results = results, !.state = "partial"]
  /\ UNCHANGED <<run, cur, exc, thread, left, filing, disk, summary, code, servers, at, faults,
                 looked>>

\* Mutant of WritePartial: the report is written in place.
WritePartialInPlace ==
  /\ Alive /\ pc = "partial"
  /\ pc' = "rename" /\ disk' = draft /\ draft' = [draft EXCEPT !.state = "whole"]
  /\ UNCHANGED <<run, cur, exc, thread, left, filing, summary, code, servers, at, faults, looked>>

WritePartial ==
  /\ Alive /\ pc = "partial"
  /\ \/ pc' = "rename" /\ draft' = [draft EXCEPT !.state = "whole"] /\ UNCHANGED exc
     \/ pc' = "unwind" /\ exc' = "broken" /\ UNCHANGED draft
  /\ UNCHANGED <<run, cur, thread, left, filing, disk, summary, code, servers, at, faults, looked>>

Rename ==
  /\ Alive /\ pc = "rename"
  /\ disk' = draft /\ draft' = NoDraft
  /\ pc' = IF exc = None THEN "finish" ELSE "unwind"
  /\ UNCHANGED <<run, cur, exc, thread, left, filing, summary, code, servers, at, faults, looked>>

NoOutputs ==
  /\ Alive /\ pc = "outputs" /\ ~run.wanted
  /\ pc' = IF exc = None THEN "finish" ELSE "unwind"
  /\ UNCHANGED <<run, cur, exc, thread, left, filing, output, servers, at, faults, looked>>

\* Mutant of Finish: only what run_checks filed counts, not what a check recorded itself.
FinishForgetsOwn ==
  /\ Alive /\ pc = "finish"
  /\ summary' = Count(SelectSeq(results, LAMBDA r : r.by = "run"), "FAIL")
  /\ pc' = "unwind"
  /\ UNCHANGED <<run, cur, exc, thread, left, filing, draft, disk, code, servers, at, faults,
                 looked>>

\* Stats.finish prints the summary; its value is the verdict.
Finish ==
  /\ Alive /\ pc = "finish"
  /\ summary' = Count(results, "FAIL")
  /\ pc' = "unwind"
  /\ UNCHANGED <<run, cur, exc, thread, left, filing, draft, disk, code, servers, at, faults,
                 looked>>

\* Leaving open_target stops the server mock_server started, not the one that
\* replaced it; stopping it may raise.
StopServer ==
  /\ Alive /\ pc = "unwind"
  /\ pc' = "exit"
  /\ up' = up \ {1} /\ fault' = [fault EXCEPT ![1] = Clear]
  /\ exc' \in {exc} \cup (IF 1 \in up THEN {"broken"} ELSE {})
  /\ UNCHANGED <<run, cur, thread, left, filing, output, target, unreplaced, at, before, looked>>

\* The process ends, its threads and, with --exit-with-parent, its servers too.
Leave(c) ==
  /\ code' = c
  /\ thread' = [d \in Checks |-> "gone"]
  /\ up' = {}
  /\ fault' = [g \in Generations |-> Clear]
  /\ UNCHANGED <<run, main, left, filing, draft, disk, summary, target, unreplaced, at,
                 before, looked>>

\* Mutant of Exit: the interpreter waits for threads that are not daemons.
ExitJoins ==
  /\ Alive /\ pc = "exit" /\ \A c \in Checks : thread[c] # "running"
  /\ Leave(IF exc # None THEN ExitCode(exc) ELSE IF summary > 0 THEN 1 ELSE 0)

Exit ==
  /\ Alive /\ pc = "exit"
  /\ Leave(IF exc # None THEN ExitCode(exc) ELSE IF summary > 0 THEN 1 ELSE 0)

Kill == Alive /\ Leave(Killed)

\* The calls no clock of the script is on: loading the library and waiting for the
\* mock server's first line, entering SETUP, the same for a replacement, SETUP's
\* teardown (also on the way out of an interrupted run), and the library's own exit.
\* MockServer.stop gives up on each wait after 5 s.
Unwatched ==
  \/ pc \in {"start", "setup", "replacing", "exit"}
  \/ pc = "next" /\ cur > N
  \/ pc = "outputs" /\ exc = "interrupt"

Hang ==
  /\ Alive /\ Unwatched /\ ~hung
  /\ hung' = TRUE
  /\ UNCHANGED <<run, main, thread, left, filing, output, servers, at, faults, looked>>

Main ==
  /\ ~hung /\ UNCHANGED hung
  /\ \/ SetupMistake \/ OpenTarget \/ EnterSetup \/ StartCheck \/ CheckReturns
     \/ WatchdogFires \/ StopOld \/ StartFresh \/ LeaveSetup
     \/ ReportCounts \/ ReportResults \/ WritePartial \/ Rename \/ NoOutputs
     \/ Finish \/ StopServer \/ Exit

-----------------------------------------------------------------------------
(* A check's thread, abandoned or not.                                     *)

Runs(c) == Alive /\ thread[c] = "running"

\* stats.error from inside a check, as the soak does.
RecordFailure(c) ==
  /\ Runs(c) /\ own[c] < MaxOwn
  /\ own' = [own EXCEPT ![c] = @ + 1]
  /\ results' = Append(results, Result(c, "own", "own"))
  /\ UNCHANGED <<run, main, thread, left, output, servers, at, faults, looked>>

\* with srv.faults(...): the snapshot first, then the config.
ArmFault(c) ==
  /\ Runs(c) /\ at[c] \in up /\ before[c] = Unarmed
  /\ before' = [before EXCEPT ![c] = fault[at[c]]]
  /\ fault' = [fault EXCEPT ![at[c]] = c]
  /\ UNCHANGED <<run, main, thread, left, filing, output, servers, at, looked>>

\* The end of that block puts the snapshot back, or fails to and says nothing.
RestoreFault(c) ==
  /\ Runs(c) /\ before[c] # Unarmed
  /\ fault' = IF at[c] \in up THEN [fault EXCEPT ![at[c]] = before[c]] ELSE fault
  /\ before' = [before EXCEPT ![c] = Unarmed]
  /\ UNCHANGED <<run, main, thread, left, filing, output, servers, at, looked>>

\* open_inst and server() read CTX, whatever is in it by now.
LookUpTarget(c) ==
  /\ Runs(c) /\ at[c] # target /\ before[c] = Unarmed
  /\ at' = [at EXCEPT ![c] = target]
  /\ looked' = looked \cup {c}
  /\ UNCHANGED <<run, main, thread, left, filing, output, servers, faults>>

\* What an abandoned function ends with stays in a box nobody reads.
End(c) ==
  /\ Runs(c) /\ before[c] = Unarmed
  /\ \E kind \in IF c \in left THEN {"gone"} ELSE Ended : thread' = [thread EXCEPT ![c] = kind]
  /\ UNCHANGED <<run, main, left, filing, output, servers, at, faults, looked>>

Worker(c) ==
  RecordFailure(c) \/ ArmFault(c) \/ RestoreFault(c) \/ LookUpTarget(c) \/ End(c)

\* A check without a watchdog is run on the main thread and trusted to return.
Trusted(c) == c \in run.inline

Next ==
  \/ Main \/ Hang
  \/ UNCHANGED hung /\ (Interrupt \/ Kill \/ \E c \in Checks : Worker(c))

Spec == Init /\ [][Next]_vars

\* The main thread keeps running unless it hangs, and a watchdog does fire; a check
\* without one is trusted to return, however often it arms a fault.  Any other thread may
\* hang for good.
FairSpec ==
  /\ Spec
  /\ WF_vars(Main)
  /\ \A c \in Checks :
       /\ WF_vars(Trusted(c) /\ RestoreFault(c) /\ UNCHANGED hung)
       /\ SF_vars(Trusted(c) /\ End(c) /\ UNCHANGED hung)

-----------------------------------------------------------------------------
(* Properties.                                                             *)

Over(c) == cur > c \/ (cur = c /\ pc \in {"replace", "replacing"})

\* run_checks files one Result per check, whenever the check's thread ends: not two
\* for a check that was abandoned and returned later, and not none.
OneResultEach ==
  \A c \in Checks :
    Cardinality({i \in DOMAIN results : results[i].check = c /\ results[i].by = "run"})
      = IF Over(c) THEN 1 ELSE 0

\* Exit 0 vouches for the report: no failure is in it, neither counted nor listed,
\* and every check is, even if an abandoned thread recorded while it was written.
ExitZeroIsClean ==
  code = 0 /\ run.wanted =>
    /\ disk.state = "whole"
    /\ disk.tally["FAIL"] = 0 /\ Count(disk.results, "FAIL") = 0
    /\ \A c \in Checks : \E i \in DOMAIN disk.results : disk.results[i].check = c

Strays == {c \in left : thread[c] = "running" /\ at[c] = target}

\* Once restart_server has replaced a target, an abandoned thread is on the new one
\* only if it looked it up in CTX, and unless one did no fault is in force there but
\* the current check's.  (One that did can leave a third check's: the snapshot it puts
\* back may be of a fault whose check is over.)
ReplacedTargetIsClean ==
  (pc = "join" /\ run.restartable /\ target \notin unreplaced \cup {0}) =>
    /\ Strays \subseteq looked
    /\ fault[target] \notin {Clear, cur} => \E c \in looked : at[c] = target

\* Whatever the checks do, the script comes to an end, unless one of the calls no
\* watchdog is on never returns.
ScriptEnds == <>(code # Running \/ hung)

\* The caller's view of the process is a ScriptProcess.
Process == INSTANCE ScriptProcess
  WITH wanted <- run.wanted, report <- IF disk.state = "none" THEN "absent" ELSE disk.state,
       said <- summary # Unsaid, code <- code

\* The file, the summary line and the exit code change only as ScriptProcess lets them.
ImplementsScriptProcess == Process!ProcessSpec
=============================================================================
