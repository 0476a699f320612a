------------------------------ MODULE MCScripts ------------------------------
(***************************************************************************)
(* The suite's own processes, two specifications in one run: a behaviour   *)
(* is one of CheckScript, a script from the inside, or of Sweep, run_all   *)
(* driving scripts it sees as ScriptProcess, with the fairness each of     *)
(* them states.  The variables of the other stand still.                   *)
(***************************************************************************)
EXTENDS CheckScript, Sweep

VARIABLE
  part   \* which of them this behaviour is

\* Two checks: both watched, with a server to replace and a report to write; or the
\* second registered with watchdog=0, no on_timeout and no report.
MCInvocations ==
  { [inline |-> {}, restartable |-> TRUE, wanted |-> TRUE],
    [inline |-> {2}, restartable |-> FALSE, wanted |-> FALSE] }

\* Two transports, a script for both and one for VXI-11: three runs of a script.
MCProtocols == <<"hislip", "vxi11">>
MCSuite == << [name |-> "01_smoke", only |-> Both], [name |-> "14_vxi11_flags", only |-> "vxi11"] >>
MCExitCodes == {0, 1, 3}

MCInit ==
  /\ part \in {"script", "sweep"}
  /\ Init /\ SweepInit
  /\ part # "script" => run.wanted
  /\ part # "sweep" => keepGoing /\ wanted
MCNext ==
  \/ part = "script" /\ Next /\ UNCHANGED <<part, sweepVars>>
  \/ part = "sweep" /\ SweepNext /\ UNCHANGED <<part, vars>>

\* The fairness that each module states and explains, of the part at hand.
MCSpec ==
  /\ MCInit /\ [][MCNext]_<<part, vars, sweepVars>>
  /\ WF_vars(part = "script" /\ Main)
  /\ \A c \in Checks :
       /\ WF_vars(part = "script" /\ Trusted(c) /\ RestoreFault(c) /\ UNCHANGED hung)
       /\ SF_vars(part = "script" /\ Trusted(c) /\ End(c) /\ UNCHANGED hung)
  /\ WF_sweepVars(part = "sweep" /\ Runner) /\ WF_sweepVars(part = "sweep" /\ Pump)
  /\ WF_sweepVars(part = "sweep" /\ TimePasses /\ late')

-----------------------------------------------------------------------------
\* No check keeps its script, and no script its sweep.  A script ends, whatever its
\* checks do, unless one of the calls no watchdog is on never returns (SETUP and its
\* teardown, starting a server, exit); and a sweep ends also then, by run_all's clocks.
NothingKeepsTheSuite ==
  <>(IF part = "script" THEN code # Running \/ hung ELSE status # StillRunning)
=============================================================================
