-------------------------------- MODULE Sweep --------------------------------
(***************************************************************************)
(* run_all.py: one check script after another, each a ScriptProcess whose  *)
(* output a reader thread pumps and whose exit the runner waits for.       *)
(*                                                                         *)
(* Three actors: the script, the pump, the runner.  Time is two facts that *)
(* become true when they like: the script's budget is used up, EXIT_GRACE  *)
(* has passed since the pump saw the summary line.  A script may hang for  *)
(* good anywhere and may ignore SIGTERM; SIGKILL ends it.                  *)
(***************************************************************************)
EXTENDS Integers, Sequences, FiniteSets, SequencesExt

CONSTANTS
  Protocols,  \* the transports asked for, in order
  Suite,      \* suite.SCRIPTS in order: records with the field only
  ExitCodes,  \* codes of ScriptProcess scripts exit with; run_all tells 0 and 3 from the rest
  Both        \* the value of only for a script meant for every transport

VARIABLES
  keepGoing,    \* --keep-going
  wanted,       \* --reports was given
  report, said, childCode,   \* the running script, as ScriptProcess has it
  gone,         \* it has printed a line _TARGET_GONE matches
  phase,        \* where the runner is
  position,     \* index into Plan
  saw,          \* what the pump has captured of the script's output
  late,         \* the budget is used up
  graced,       \* EXIT_GRACE has passed since the summary was seen
  outcome,      \* run_script's third value
  failed, ran, timedout, stuck, unreachable,   \* main's counters
  status,       \* what main returned, or Running
  log           \* history: how each script really ended

child == <<report, said, childCode, gone>>
watch == <<saw, late, graced>>
counters == <<failed, ran, timedout, stuck, unreachable>>
options == <<keepGoing, wanted>>
sweepVars == <<options, child, phase, position, watch, outcome, counters, status, log>>

Script == INSTANCE ScriptProcess WITH code <- childCode
StillRunning == Script!Running

-----------------------------------------------------------------------------
(* suite.py.                                                               *)

RunsOn(script, protocol) == script.only \in {Both, protocol}

ForProtocol(protocol) == SelectSeq(Suite, LAMBDA s : RunsOn(s, protocol))

\* The two nested loops of main, unrolled.
Plan == FlattenSeq([i \in DOMAIN Protocols |-> ForProtocol(Protocols[i])])

-----------------------------------------------------------------------------
SweepInit ==
  /\ keepGoing \in BOOLEAN /\ Script!ProcessInit
  /\ gone = FALSE /\ saw = {} /\ late = FALSE /\ graced = FALSE /\ outcome = ""
  /\ phase = "next" /\ position = 0
  /\ failed = 0 /\ ran = 0 /\ timedout = 0 /\ stuck = 0 /\ unreachable = 0
  /\ status = StillRunning /\ log = <<>>

Start ==
  /\ phase = "next" /\ position < Len(Plan)
  /\ position' = position + 1 /\ ran' = ran + 1
  /\ phase' = "poll"
  /\ UNCHANGED <<options, child, watch, outcome, failed, timedout, stuck, unreachable, status, log>>

Spawned == phase \in {"poll", "judge", "term", "kill"}

\* The script by itself, hanging whenever it likes.
ScriptSteps ==
  /\ Spawned
  /\ \/ /\ Script!WriteReport \/ Script!Say \/ \E c \in ExitCodes \cap Script!Codes : Script!Exit(c)
        /\ UNCHANGED gone
     \/ /\ childCode = StillRunning /\ ~gone /\ gone' = TRUE
        /\ UNCHANGED <<wanted, report, said, childCode>>
  /\ UNCHANGED <<keepGoing, phase, position, watch, outcome, counters, status, log>>

\* pump: one line at a time, while the pipe has any.
Printed == (IF said THEN {"summary"} ELSE {}) \cup (IF gone THEN {"gone"} ELSE {})

Pump ==
  /\ phase \in {"poll", "judge", "term", "kill", "join"}
  /\ \E line \in Printed \ saw : saw' = saw \cup {line}
  /\ UNCHANGED <<options, child, phase, position, late, graced, outcome, counters, status, log>>

TimePasses ==
  /\ Spawned
  /\ \/ late' = TRUE /\ UNCHANGED graced
     \/ "summary" \in saw /\ graced' = TRUE /\ UNCHANGED late
  /\ UNCHANGED <<options, child, phase, position, saw, outcome, counters, status, log>>

\* proc.wait(timeout=0.5): the only place a script is seen to have exited.
Poll ==
  /\ phase = "poll"
  /\ phase' = IF childCode = StillRunning THEN "judge" ELSE "join"
  /\ UNCHANGED <<options, child, position, watch, outcome, counters, status, log>>

\* Mutant of Judge: the clocks are taken for one another.
JudgeSwapped ==
  /\ phase = "judge"
  /\ outcome' = IF late THEN "hung_at_exit" ELSE IF graced THEN "timeout" ELSE ""
  /\ phase' = IF graced \/ late THEN "term" ELSE "poll"
  /\ UNCHANGED <<options, child, position, watch, counters, status, log>>

\* The two clocks, the summary's first.
Judge ==
  /\ phase = "judge"
  /\ outcome' = IF graced THEN "hung_at_exit" ELSE IF late THEN "timeout" ELSE ""
  /\ phase' = IF graced \/ late THEN "term" ELSE "poll"
  /\ UNCHANGED <<options, child, position, watch, counters, status, log>>

\* _terminate: SIGTERM and five seconds, then SIGKILL.
Terminate ==
  /\ phase = "term"
  /\ \/ childCode = StillRunning /\ Script!Kill /\ phase' = "join"
     \/ childCode = StillRunning /\ phase' = "kill" /\ UNCHANGED <<wanted, report, said, childCode>>
     \/ childCode # StillRunning /\ phase' = "join" /\ UNCHANGED <<wanted, report, said, childCode>>
  /\ UNCHANGED <<keepGoing, gone, position, watch, outcome, counters, status, log>>

TerminateForGood ==
  /\ phase = "kill"
  /\ childCode' = IF childCode = StillRunning THEN Script!Killed ELSE childCode
  /\ phase' = "join"
  /\ UNCHANGED <<options, report, said, gone, position, watch, outcome, counters, status, log>>

\* reader.join(5): the pump drains the pipe, unless something still holds it open.
JoinReader ==
  /\ phase = "join"
  /\ phase' = "account"
  /\ UNCHANGED <<options, child, position, watch, outcome, counters, status, log>>

\* run_script's first value, which a killed script does not have.
Returned == outcome = ""
\* Mutant of Failed: a script that was killed has no exit code to look at.
FailedByCode == Returned /\ childCode # 0
Failed == ~(Returned /\ childCode = 0)
CouldNotReach == childCode = 3 \/ (childCode # 0 /\ "gone" \in saw)

\* What really became of the script, whatever the runner makes of it.
LeftComplete == said /\ (wanted => report = "whole")
Ending ==
  [outcome |-> outcome, clean |-> childCode = 0 /\ (wanted => report = "whole"), complete |-> LeftComplete,
   lost |-> childCode = 3 \/ (childCode # 0 /\ gone)]

\* The rest of main's loop body: a killed script leaves unreachable alone.  What is
\* known of this script is forgotten; Popen begins the next with a fresh process, a
\* fresh reader and a fresh deadline.
Account ==
  /\ phase = "account"
  /\ stuck' = stuck + (IF outcome = "hung_at_exit" THEN 1 ELSE 0)
  /\ timedout' = timedout + (IF outcome = "timeout" THEN 1 ELSE 0)
  /\ failed' = failed + (IF Failed THEN 1 ELSE 0)
  /\ unreachable' = IF ~Returned THEN unreachable ELSE IF CouldNotReach THEN unreachable + 1 ELSE 0
  /\ log' = Append(log, Ending)
  /\ IF Returned /\ unreachable' >= 2 /\ ~keepGoing
       THEN phase' = "done" /\ status' = IF failed' > 0 THEN failed' ELSE 1
       ELSE phase' = "next" /\ UNCHANGED status
  /\ report' = "absent" /\ said' = FALSE /\ childCode' = StillRunning /\ gone' = FALSE
  /\ saw' = {} /\ late' = FALSE /\ graced' = FALSE /\ outcome' = ""
  /\ UNCHANGED <<options, position, ran>>

FinishSweep ==
  /\ phase = "next" /\ position = Len(Plan)
  /\ phase' = "done" /\ status' = failed
  /\ UNCHANGED <<options, child, position, watch, outcome, counters, log>>

Runner == Start \/ Poll \/ Judge \/ Terminate \/ TerminateForGood \/ JoinReader \/ Account \/ FinishSweep

SweepNext == Runner \/ ScriptSteps \/ Pump \/ TimePasses

SweepSpec == SweepInit /\ [][SweepNext]_sweepVars

\* The runner and the pump run; the budget does run out.  No script is trusted to end.
FairSweepSpec ==
  SweepSpec /\ WF_sweepVars(Runner) /\ WF_sweepVars(Pump) /\ WF_sweepVars(TimePasses /\ late')

-----------------------------------------------------------------------------
(* Properties.                                                             *)

\* "hung_at_exit" is only said of a script that wrote its report and printed its
\* summary: the results main calls complete are.
HungMeansReported ==
  \A i \in DOMAIN log :
    log[i].outcome = "hung_at_exit" => log[i].complete

\* Entry i of the log is of a script that exited by itself and had lost its target.
LostTarget(i) == log[i].outcome = "" /\ log[i].lost

\* The last two scripts that exited by themselves had, however many were killed in
\* between and since.
LastTwoLostTarget ==
  \E i, j \in DOMAIN log :
    /\ i < j /\ LostTarget(i) /\ LostTarget(j)
    /\ \A k \in DOMAIN log : k > i /\ log[k].outcome = "" => k = j

\* The runner returns 0 only if every script of the plan ran, exited 0 by itself and
\* left its report: nothing killed, skipped or stopped early hides behind a 0.  It
\* leaves scripts unrun only if the last two that exited could not reach the target.
ZeroMeansEveryScriptPassed ==
  /\ status = 0 =>
       /\ Len(log) = Len(Plan)
       /\ \A i \in DOMAIN log : log[i].outcome = "" /\ log[i].clean
  /\ status # StillRunning /\ Len(log) < Len(Plan) =>
       ~keepGoing /\ status > 0 /\ LastTwoLostTarget

\* Whatever the scripts do, the sweep ends.
SweepEnds == <>(status # StillRunning)

\* What run_script's docstring says of "timeout": it outstayed its budget without
\* finishing its checks.
TimeoutMeansUnfinished ==
  \A i \in DOMAIN log : log[i].outcome = "timeout" => ~log[i].complete
=============================================================================
