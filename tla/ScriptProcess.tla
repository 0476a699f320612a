---------------------------- MODULE ScriptProcess ----------------------------
(***************************************************************************)
(* What a check script promises whoever runs it as a process: run_all.py,  *)
(* compare.py and the CI tools.  They see three things only: the report    *)
(* file, the summary line on its output, and the exit code.  CheckScript   *)
(* implements this specification; Sweep is built on it.                    *)
(***************************************************************************)
EXTENDS Integers

VARIABLES
  wanted,  \* --report was given
  report,  \* the file --report names: "absent", or "whole"
  said,    \* the summary line has been printed
  code     \* the exit code, or Running

Running == -1
Killed == -9

\* harness.main and Stats.finish: 0 and 1 are verdicts on the checks, 2 a crash,
\* 3 a lost target, 4 a set-up mistake, 5 a bad VISA call, 130 an interrupt.
Verdicts == {0, 1}
Codes == Verdicts \cup {2, 3, 4, 5, 130}

ProcessInit == wanted \in BOOLEAN /\ report = "absent" /\ said = FALSE /\ code = Running

WriteReport ==
  /\ code = Running /\ wanted /\ ~said
  /\ report' = "whole"
  /\ UNCHANGED <<wanted, said, code>>

Say ==
  /\ code = Running /\ ~said
  /\ wanted => report = "whole"
  /\ said' = TRUE
  /\ UNCHANGED <<wanted, report, code>>

\* A verdict is given only by a script that reached its summary.  A set-up mistake
\* is found before there is anything to report.
Exit(c) ==
  /\ code = Running
  /\ c \in Verdicts => said
  /\ c = 4 => ~said /\ report = "absent"
  /\ code' = c
  /\ UNCHANGED <<wanted, report, said>>

\* From outside, at any moment.
Kill ==
  /\ code = Running
  /\ code' = Killed
  /\ UNCHANGED <<wanted, report, said>>

ProcessNext == WriteReport \/ Say \/ (\E c \in Codes : Exit(c)) \/ Kill

ProcessVars == <<wanted, report, said, code>>
ProcessSpec == ProcessInit /\ [][ProcessNext]_ProcessVars
=============================================================================
