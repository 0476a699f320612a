----------------------------- MODULE MCVerdicts ------------------------------
(***************************************************************************)
(* From a check to the page, seven specifications in one run: a behaviour  *)
(* is one of LockChecks, EventChecks, IoChecks, ParallelLoad or Soak, one  *)
(* family of checks each against libraries with and without a flaw, or of  *)
(* Legs or Matrix, which fold what scripts report into verdicts and pages. *)
(* The variables of Legs, of Soak and of Matrix stand still in the         *)
(* behaviours of the others.                                               *)
(***************************************************************************)
EXTENDS Legs, Soak, Matrix, TLC
CONSTANTS l1, l2

VARIABLES
  part,   \* which of them this behaviour is
  script, transport, flaw, n, ip, regs, cleanup, verdicts, turn, aside, mishap,   \* CheckProgram
  open, bare, excl, shared, accessKey, leaked,   \* LockChecks
  now, due, lastSent, enabled, handlers, events, calls, marked, contexts, isOpen,
  length, used, armed, raced, orphans,   \* EventChecks
  data, out, partial, attrs, reader, errors,   \* IoChecks
  loader, joined, late, load, worker, levels, session, waits, problems, output, holder,
  churn, churner, left, outlasted   \* ParallelLoad

common == <<script, transport, flaw, n, ip, regs, cleanup, verdicts, turn, aside, mishap>>
lockVars == <<open, bare, excl, shared, accessKey, leaked>>
eventVars ==
  <<now, due, lastSent, enabled, handlers, events, calls, marked, contexts, isOpen,
    length, used, armed, raced, orphans>>
ioVars == <<data, out, partial, attrs, reader, errors>>
loadVars ==
  <<loader, joined, late, load, worker, levels, session, waits, problems, output,
    holder, churn, churner, left, outlasted>>

LockProgram == INSTANCE LockPrograms
MCLockSuites == LockProgram!LockSuites
Locks == INSTANCE LockChecks WITH Suites <- MCLockSuites
EventProgram == INSTANCE EventPrograms
MCEventSuites == EventProgram!EventSuites
Events == INSTANCE EventChecks WITH Suites <- MCEventSuites
IoProgram == INSTANCE IoPrograms
MCIoSuites == IoProgram!IoSuites
Io == INSTANCE IoChecks WITH Suites <- MCIoSuites
\* The query loop, a polling worker and a locking one, three sessions: as many threads as
\* it takes for each watchdog to fire where the calls of one phase hang, and enough cycles
\* for a leak to show.
Parallel == {1, 2, 3}
LoadTransports == {"hislip", "vxi11"}
LoadFlaws ==
  {"none", "mixes", "starves", "load hangs", "sessions hang", "churn hangs", "refuses", "leaks"}
Load == INSTANCE ParallelLoad WITH Threads <- 2, Cycles <- 3, MaxLevels <- 2,
                                   Transports <- LoadTransports, leaked <- left
\* Two legs, one of a library nobody has provisioned; a script for both transports and one
\* with a transport in its name.
MCPlan == {l1, l2}
MCProtocols == <<"hislip", "vxi11">>
MCRunsOn == [s \in Scripts |-> IF s = "14_vxi11_flags" THEN {"vxi11"} ELSE {"hislip", "vxi11"}]
MCNameHas == [s \in Scripts |-> IF s = "14_vxi11_flags" THEN {"vxi11"} ELSE {}]
MCProvisioned == {l1}
MCExitCodes == {-9, 1, 2, 3}
\* Three implementations, two scripts with a check of the same wording, one of them
\* perhaps answering it twice.
MCScriptNames == <<"02_io", "03_srq">>
One(o) == <<[key |-> "k", outcome |-> o]>>
MCReports == {One("PASS"), One("FAIL"), One("SKIP"), One("FAIL") \o One("PASS")}

\* The variables of the parts a behaviour is not about.
Off == <<>>
NoLocks ==
  /\ open = Off /\ bare = Off /\ excl = Off /\ shared = Off
  /\ accessKey = Off /\ leaked = Off
NoEvents ==
  /\ now = Off /\ due = Off /\ lastSent = Off /\ enabled = Off /\ handlers = Off
  /\ events = Off /\ calls = Off /\ marked = Off /\ contexts = Off /\ isOpen = Off
  /\ length = Off /\ used = Off /\ armed = Off /\ raced = Off /\ orphans = Off
NoIo ==
  /\ data = Off /\ out = Off /\ partial = Off /\ attrs = Off /\ reader = Off
  /\ errors = Off
NoLoad ==
  /\ loader = Off /\ joined = Off /\ late = Off /\ load = Off /\ worker = Off
  /\ levels = Off /\ session = Off /\ waits = Off /\ problems = Off /\ output = Off
  /\ holder = Off /\ churn = Off /\ churner = Off /\ left = Off
  /\ outlasted = Off
NoMix == setup = [big |-> FALSE, handler |-> FALSE, trigger |-> FALSE]
NoTable == runs = [c \in 1..Width |-> [s \in Range(ScriptNames) |-> NoReport]]
NoScript ==
  /\ script = Off /\ ip = Off /\ regs = Off /\ cleanup = Off
  /\ turn = Off /\ aside = Off /\ mishap = Off

Parts ==
  \/ part = "locks" /\ Locks!Init
     /\ NoEvents /\ NoIo /\ NoLoad /\ NoMix /\ NoTable
  \/ part = "events" /\ Events!Init
     /\ NoLocks /\ NoIo /\ NoLoad /\ NoMix /\ NoTable
  \/ part = "io" /\ Io!Init
     /\ NoLocks /\ NoEvents /\ NoLoad /\ NoMix /\ NoTable
  \/ part = "load" /\ Load!Init
     /\ NoLocks /\ NoEvents /\ NoIo /\ NoMix /\ NoTable
     /\ NoScript
  \/ part = "soak"
     /\ NoLocks /\ NoEvents /\ NoIo /\ NoLoad /\ NoTable
     /\ NoScript /\ transport = Off /\ flaw = Off /\ n = Off /\ verdicts = Off
  \/ part = "legs"
     /\ NoLocks /\ NoEvents /\ NoIo /\ NoLoad /\ NoMix /\ NoTable
     /\ NoScript /\ transport = Off /\ flaw = Off /\ n = Off /\ verdicts = Off
  \/ part = "matrix"
     /\ NoLocks /\ NoEvents /\ NoIo /\ NoLoad /\ NoMix
     /\ NoScript /\ transport = Off /\ flaw = Off /\ n = Off /\ verdicts = Off

MCInit == Parts /\ Init /\ SoakInit /\ MatrixInit
MCNext ==
  /\ UNCHANGED part
  /\ \/ part = "locks" /\ Locks!Next
        /\ UNCHANGED <<eventVars, ioVars, loadVars, soakVars, vars, matrixVars>>
     \/ part = "events" /\ Events!Next
        /\ UNCHANGED <<lockVars, ioVars, loadVars, soakVars, vars, matrixVars>>
     \/ part = "io" /\ Io!Next
        /\ UNCHANGED <<lockVars, eventVars, loadVars, soakVars, vars, matrixVars>>
     \/ part = "load" /\ Load!Next
        /\ UNCHANGED <<script, ip, regs, cleanup, turn, aside, mishap>>
        /\ UNCHANGED <<lockVars, eventVars, ioVars, soakVars, vars, matrixVars>>
     \/ part = "soak" /\ SoakNext
        /\ UNCHANGED <<common, lockVars, eventVars, ioVars, loadVars, vars, matrixVars>>
     \/ part = "legs" /\ Next
        /\ UNCHANGED <<common, lockVars, eventVars, ioVars, loadVars, soakVars, matrixVars>>
     \/ part = "matrix" /\ MatrixNext
        /\ UNCHANGED <<common, lockVars, eventVars, ioVars, loadVars, soakVars, vars>>

MCSpec ==
  MCInit /\ [][MCNext]_<<part, common, lockVars, eventVars, ioVars, loadVars, soakVars, vars,
                        matrixVars>>

-----------------------------------------------------------------------------
(* The properties of the other parts.                                      *)

\* A library within the rules fails no check of these nine scripts, in whatever order
\* its answers, service requests and threads come.
ConformingLibraryPasses ==
  /\ part = "locks" => Locks!NoFalseAlarm
  /\ part = "events" => Events!NoFalseAlarm
  /\ part = "io" => Io!NoFalseAlarm
  /\ part = "load" => Load!ConformingLoadPasses
\* A flawed one fails the check that is there for its flaw, and trouble under load is
\* in some verdict.
FlawsAreCaught ==
  /\ part = "locks" => Locks!FlawsAreCaught
  /\ part = "events" => Events!FlawsAreCaught
  /\ part = "io" => Io!FlawsAreCaught
  /\ part = "load" => Load!LoadTroubleIsReported /\ Load!LeaksAreMeasured
\* A check that returns, fails, skips or raises leaves no session, lock, mask, handler,
\* event context or attribute to the checks after it, and one that passes no reply; what a
\* check abandoned by its watchdog leaves is gone when its thread has ended, and a failed
\* check's lock holder when it is collected.  05_lock, whose checks share their locks, has
\* given all of them back by its last two checks.
NothingLeftBehind ==
  /\ part = "locks" => Locks!ChecksStandAlone /\ Locks!HealthSurvives
  /\ part = "events" => Events!EventsLeftClean
  /\ part = "io" => Io!AttributesRestored /\ Io!RepliesTaken
=============================================================================
