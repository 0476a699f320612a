---------------------------- MODULE ParallelLoad -----------------------------
(***************************************************************************)
(* 04_concurrency.py: one session driven by several threads, several       *)
(* sessions driving one instrument, and the open/close churn, each read by *)
(* the checks that follow it.                                              *)
(*                                                                         *)
(* The actors are run_checks, which gives every check's thread its         *)
(* watchdog; the thread of concurrent_load and its workers; the session    *)
(* threads of _parallel_sessions; and the thread of churn.  A thread the   *)
(* watchdog abandoned goes on, whether its call hung or the target is      *)
(* merely slow: this script replaces no target.                            *)
(***************************************************************************)
EXTENDS Integers, Sequences, FiniteSets

CONSTANTS
  Threads,    \* --threads: asynchronous workers
  Parallel,   \* the threads of --sessions
  Cycles,     \* bound: open/close cycles of the churn
  MaxLevels,  \* bound: lock levels of the shared session
  Transports, LoadFlaws

\* Workers 1..Threads are asynchronous, by index modulo 3; worker 0 is the query loop.
Kind(w) ==
  CASE w = 0 -> "sync" [] w % 3 = 1 -> "stb" [] w % 3 = 2 -> "lock" [] OTHER -> "ren"
Workers == 0..Threads
Checks == << "stopped", "interfering", "driven", "healthy", "parallel", "churn", "threads", "fds" >>

\* How many timed-out joins a watchdog outlasts: 30 s over joins of 10 s that start
\* after the two seconds of load, and 300 s over joins of 120 s.
LoadPatience == 2
ParallelPatience == 2

VARIABLES
  transport, flaw,
  n, verdicts,  \* run_checks: the check it is at, and what it recorded
  outlasted,    \* history: the churn outlasted its watchdog
  loader,       \* where concurrent_load is
  joined, late, \* workers joined so far, and how many of the joins timed out
  load,         \* STATE["load"], which four checks read: of its lists, whether they have entries
  worker,       \* worker -> "unborn", "between", "inside", "holding", "hung", "gone"
  levels,       \* lock levels the shared session holds, or was closed with
  session,      \* session thread -> where it is
  waits,        \* session threads joined, and how many of the joins timed out
  problems,     \* session_problems has entries
  output,       \* whose replies the instrument has queued
  holder,       \* session thread holding the lock, or 0
  churn,        \* STATE["churn"]
  churner,      \* where churn is
  leaked        \* threads and descriptors closed sessions have left behind

runner == <<n, verdicts, outlasted>>
loading == <<loader, joined, late, load, worker, levels>>
parallel == <<session, waits, problems, output, holder>>
churning == <<churn, churner, leaked>>
vars == <<transport, flaw, runner, loading, parallel, churning>>

Unset == -1
Init ==
  /\ transport \in Transports /\ flaw \in LoadFlaws
  /\ n = 1 /\ verdicts = <<>> /\ outlasted = FALSE
  /\ loader = "new" /\ joined = {} /\ late = 0
  /\ load = [open |-> FALSE, sized |-> FALSE, alive |-> FALSE, final |-> FALSE, problems |-> FALSE,
             driven |-> {}]
  /\ worker = [w \in Workers |-> "unborn"] /\ levels = 0
  /\ session = [s \in Parallel |-> "unborn"] /\ waits = [done |-> {}, late |-> 0]
  /\ problems = FALSE /\ output = <<>> /\ holder = 0
  /\ churn = [base |-> Unset, counts |-> TRUE, completed |-> 0, error |-> FALSE, measured |-> FALSE,
              threads |-> 0, fds |-> 0]
  /\ churner = "new" /\ leaked = 0

At(check) == n <= Len(Checks) /\ Checks[n] = check
\* Threads of this process besides the one that counts them.
Stragglers ==
  Cardinality({w \in Workers : worker[w] \notin {"unborn", "gone"}})
    + Cardinality({s \in Parallel : session[s] \notin {"unborn", "gone"}})
    + (IF loader \in {"new", "done", "raised"} THEN 0 ELSE 1)

\* Calls of the library never return: those of one phase, or any.
Hangs(phase) == flaw \in {"hangs", phase}

-----------------------------------------------------------------------------
(* concurrent_load.                                                        *)

\* STATE["load"] is published, then the session opens.
LoadOpens ==
  /\ At("stopped") /\ loader = "new"
  /\ \/ /\ loader' = "loaded" /\ load' = [load EXCEPT !.open = TRUE, !.sized = TRUE]
        /\ worker' = [w \in Workers |-> "between"]
     \/ flaw = "refuses" /\ loader' = "raised" /\ UNCHANGED <<load, worker>>
  /\ UNCHANGED <<transport, flaw, runner, joined, late, levels, parallel, churning>>

Stopping == loader # "loaded"
Turn(w) == IF Kind(w) = "sync" THEN {"sync"} ELSE IF Kind(w) = "stb" THEN {"stb"} ELSE {}

\* while not stop.is_set()
WorkerCalls(w) ==
  /\ worker[w] = "between" /\ ~Stopping
  /\ flaw = "starves" => Kind(w) # "stb"
  /\ \/ worker' = [worker EXCEPT ![w] = "inside"]
     \/ Hangs("load hangs") /\ worker' = [worker EXCEPT ![w] = "hung"]
  /\ UNCHANGED <<transport, flaw, runner, loader, joined, late, load, levels, parallel,
                 churning>>

\* The call returned.  viLock on a session that holds the lock already says
\* VI_SUCCESS_NESTED_EXCLUSIVE, which the lock worker takes for a failure.
WorkerReturns(w) ==
  /\ worker[w] = "inside"
  /\ \/ /\ Kind(w) # "lock"
        /\ worker' = [worker EXCEPT ![w] = "between"]
        /\ \/ load' = [load EXCEPT !.driven = @ \cup Turn(w)]
           \* The reply to another thread's query.
           \/ /\ flaw = "mixes" /\ Kind(w) = "sync" /\ \E v \in Workers \ {w} : worker[v] = "inside"
              /\ load' = [load EXCEPT !.driven = @ \cup Turn(w), !.problems = TRUE]
        /\ UNCHANGED levels
     \/ /\ Kind(w) = "lock" /\ levels = 0
        /\ worker' = [worker EXCEPT ![w] = "holding"] /\ levels' = 1
        /\ UNCHANGED load
     \/ /\ Kind(w) = "lock" /\ levels > 0 /\ levels < MaxLevels
        /\ worker' = [worker EXCEPT ![w] = "between"] /\ levels' = levels + 1
        /\ load' = [load EXCEPT !.problems = TRUE]
     \* The synchronous channel is busy: VI_ERROR_TMO, counted and not a problem.
     \/ /\ Kind(w) = "lock" /\ worker' = [worker EXCEPT ![w] = "between"]
        /\ UNCHANGED <<load, levels>>
  /\ UNCHANGED <<transport, flaw, runner, loader, joined, late, parallel, churning>>

\* An unlock may time out as a lock may: counted, no problem, and the worker goes on to
\* its next lock with this one held.
WorkerUnlocks(w) ==
  /\ worker[w] = "holding"
  /\ worker' = [worker EXCEPT ![w] = "between"]
  /\ \/ /\ levels' = levels - 1
        /\ load' = IF levels > 1 THEN [load EXCEPT !.problems = TRUE] ELSE load
     \/ UNCHANGED <<load, levels>>
  /\ UNCHANGED <<transport, flaw, runner, loader, joined, late, parallel, churning>>

WorkerEnds(w) ==
  /\ worker[w] = "between" /\ Stopping
  /\ worker' = [worker EXCEPT ![w] = "gone"]
  /\ UNCHANGED <<transport, flaw, runner, loader, joined, late, load, levels, parallel,
                 churning>>

\* A call that did not return does so after all, with an error, and finds stop set.
WorkerComesBack(w) ==
  /\ worker[w] = "hung" /\ Stopping
  /\ worker' = [worker EXCEPT ![w] = "gone"]
  /\ load' = [load EXCEPT !.problems = TRUE]
  /\ UNCHANGED <<transport, flaw, runner, loader, joined, late, levels, parallel,
                 churning>>

\* time.sleep(duration), stop.set(): two seconds, in which every worker that is let
\* run has had a turn.
LoadStops ==
  /\ loader = "loaded"
  /\ \A w \in Workers :
       worker[w] # "hung" /\ ~(flaw = "starves" /\ Kind(w) = "stb") => Turn(w) \subseteq load.driven
  /\ loader' = "joining"
  /\ UNCHANGED <<transport, flaw, runner, joined, late, load, worker, levels, parallel,
                 churning>>

\* worker.join(timeout=10.0), in order; a worker that is merely slow is joined.
LoadJoins ==
  /\ loader = "joining" /\ joined # Workers
  /\ LET w == CHOOSE v \in Workers \ joined : \A u \in Workers \ joined : v <= u IN
       /\ worker[w] \in {"gone", "hung"}
       /\ joined' = joined \cup {w}
       /\ late' = IF worker[w] = "hung" THEN late + 1 ELSE late
  /\ UNCHANGED <<transport, flaw, runner, loader, load, worker, levels, parallel,
                 churning>>

\* result["alive"], the closing *IDN?, and the session closed on the way out.
LoadFinishes ==
  /\ loader = "joining" /\ joined = Workers
  /\ \E answered \in (IF Hangs("load hangs") THEN BOOLEAN ELSE {TRUE}) :
       /\ loader' = IF answered THEN "done" ELSE "raised"
       /\ load' = [load EXCEPT !.alive = (\E w \in Workers : worker[w] # "gone"), !.final = answered]
  /\ UNCHANGED <<transport, flaw, runner, joined, late, worker, levels, parallel,
                 churning>>

-----------------------------------------------------------------------------
(* _parallel_sessions.                                                     *)

NeedsLock == transport = "vxi11"
Goes(s, to) == session' = [session EXCEPT ![s] = to]
Elsewhere == UNCHANGED <<transport, flaw, runner, loading, churning, waits>>

SessionsStart ==
  /\ At("parallel") /\ \A s \in Parallel : session[s] = "unborn"
  /\ session' = [s \in Parallel |-> "opening"]
  /\ Elsewhere /\ UNCHANGED <<problems, output, holder>>

\* Mutant of SessionOpens: over VXI-11 too the session queries without the lock.
SessionOpensUnlocked(s) ==
  /\ session[s] = "opening"
  /\ Goes(s, "writing")
  /\ Elsewhere /\ UNCHANGED <<problems, output, holder>>
SessionOpens(s) ==
  /\ session[s] = "opening"
  /\ \/ Goes(s, IF NeedsLock THEN "locking" ELSE "writing") /\ UNCHANGED problems
     \/ flaw = "refuses" /\ Goes(s, "gone") /\ problems' = TRUE
  /\ Elsewhere /\ UNCHANGED <<output, holder>>

\* The session concurrent_load has not closed keeps its lock against every other.
Barred == levels > 0 /\ loader \in {"loaded", "joining"}

\* lock_excl(10000) raises if the holder keeps it that long.
SessionLocks(s) ==
  /\ session[s] = "locking"
  /\ \/ holder = 0 /\ ~Barred /\ holder' = s /\ Goes(s, "writing") /\ UNCHANGED problems
     \/ /\ Barred \/ (holder # 0 /\ session[holder] = "hung")
        /\ Goes(s, "gone") /\ problems' = TRUE /\ UNCHANGED holder
  /\ Elsewhere /\ UNCHANGED <<output>>

\* VXI-11 writes and reads separately; a HiSLIP server holds the bus over both, and has
\* the query wait for a foreign lock.
SessionWrites(s) ==
  /\ session[s] = "writing"
  /\ \/ /\ NeedsLock /\ output' = Append(output, s) /\ Goes(s, "reading")
        /\ UNCHANGED <<problems>>
     \/ ~NeedsLock /\ ~Barred /\ Goes(s, "polling") /\ UNCHANGED <<problems, output>>
     \/ ~NeedsLock /\ Barred /\ Goes(s, "gone") /\ problems' = TRUE /\ UNCHANGED <<output>>
     \/ Hangs("sessions hang") /\ Goes(s, "hung") /\ UNCHANGED <<problems, output>>
  /\ Elsewhere /\ UNCHANGED holder

\* The read drains what is queued: the wrong reply is a problem, none a timeout.
SessionReads(s) ==
  /\ session[s] = "reading"
  /\ output' = <<>>
  /\ IF output = <<s>> THEN Goes(s, "polling") /\ UNCHANGED problems
     ELSE Goes(s, "unlocking") /\ problems' = TRUE
  /\ Elsewhere /\ UNCHANGED <<holder>>

\* read_stb is refused while a sibling holds the lock.
SessionPolls(s) ==
  /\ session[s] = "polling"
  /\ Goes(s, "unlocking")
  /\ problems' = (problems \/ holder \notin {0, s})
  /\ Elsewhere /\ UNCHANGED <<output, holder>>

SessionUnlocks(s) ==
  /\ session[s] = "unlocking"
  /\ holder' = IF holder = s THEN 0 ELSE holder
  /\ Goes(s, "gone")
  /\ Elsewhere /\ UNCHANGED <<problems, output>>

SessionComesBack(s) ==
  /\ session[s] = "hung" /\ ~At("parallel")
  /\ Goes(s, "unlocking") /\ problems' = TRUE
  /\ Elsewhere /\ UNCHANGED <<output, holder>>

\* thread.join(timeout=120.0); nobody asks afterwards whether the thread ended.
SessionJoined(s) ==
  /\ At("parallel") /\ s \notin waits.done /\ session[s] \in {"gone", "hung"}
  /\ \A t \in Parallel \ waits.done : s <= t
  /\ waits' = [done |-> waits.done \cup {s},
               late |-> IF session[s] = "hung" THEN waits.late + 1 ELSE waits.late]
  /\ UNCHANGED <<transport, flaw, runner, loading, session, problems, output, holder, churning>>

-----------------------------------------------------------------------------
(* churn.                                                                  *)

ChurnStarts ==
  /\ At("churn") /\ churner = "new"
  /\ churner' = "cycling"
  /\ \E counts \in BOOLEAN :  \* whether the platform counts descriptors
       churn' = [churn EXCEPT !.base = Stragglers + leaked, !.counts = counts]
  /\ UNCHANGED <<transport, flaw, runner, loading, parallel, leaked>>

\* One open, *IDN?, close.
ChurnCycles ==
  /\ churner = "cycling" /\ churn.completed < Cycles
  /\ \/ /\ churn' = [churn EXCEPT !.completed = @ + 1]
        /\ leaked' = IF flaw = "leaks" THEN leaked + 1 ELSE leaked
        /\ UNCHANGED <<churner>>
     \/ flaw = "refuses" /\ churn' = [churn EXCEPT !.error = TRUE] /\ churner' = "settling"
        /\ UNCHANGED <<leaked>>
     \/ Hangs("churn hangs") /\ churner' = "hung" /\ UNCHANGED <<churn, leaked>>
  /\ UNCHANGED <<transport, flaw, runner, loading, parallel>>

\* The second of sleep, the two counts, and measured.  A thread that was abandoned may
\* find the thread of the check then running, and counts it.
ChurnMeasures ==
  /\ churner = "settling" \/ (churner = "cycling" /\ churn.completed = Cycles)
  /\ churner' = "done"
  /\ \E running \in IF At("churn") THEN {0} ELSE {0, 1} :
       churn' = [churn EXCEPT !.threads = Stragglers + leaked + running,
                              !.fds = Stragglers + leaked, !.measured = TRUE]
  /\ UNCHANGED <<transport, flaw, runner, loading, parallel, leaked>>

-----------------------------------------------------------------------------
(* run_checks: one verdict per check, or the watchdog's.                   *)

Judged(ok) == IF ok THEN "PASS" ELSE "FAIL"
\* Mutant of ChurnVerdict: a churn that never measured is judged all the same.
ChurnVerdictAlways(ok) == Judged(ok)
ChurnVerdict(ok) == IF churn.measured THEN Judged(ok) ELSE "SKIP"

\* The fields a check reads that concurrent_load had not filled in are a KeyError.
Verdict ==
  CASE Checks[n] = "stopped"     -> Judged(load.sized /\ loader = "done" /\ ~load.alive)
    [] Checks[n] = "interfering" -> Judged(load.sized /\ ~load.problems)
    [] Checks[n] = "driven"      -> Judged(load.open /\ {"sync", "stb"} \subseteq load.driven)
    [] Checks[n] = "healthy"     -> Judged(load.final)
    [] Checks[n] = "parallel"    -> Judged(~problems)
    [] Checks[n] = "churn"       -> Judged(~churn.error)
    [] Checks[n] = "threads"     -> ChurnVerdict(churn.threads - churn.base <= 1)
    [] Checks[n] = "fds"         ->
         IF churn.counts THEN ChurnVerdict(churn.fds - churn.base <= 2) ELSE "SKIP"

Returned ==
  CASE Checks[n] = "stopped"  -> loader \in {"done", "raised"}
    [] Checks[n] = "parallel" -> waits.done = Parallel
    [] Checks[n] = "churn"    -> churner = "done"
    [] OTHER                  -> TRUE

Record(verdict) ==
  /\ verdicts' = Append(verdicts, verdict) /\ n' = n + 1
  /\ UNCHANGED <<transport, flaw, loading, parallel, churning>>
CheckReturns == n <= Len(Checks) /\ Returned /\ Record(Verdict) /\ UNCHANGED outlasted
\* Thirty cycles may take a slow target longer than the 30 s of the churn check.
Watchdog ==
  /\ \/ At("stopped") /\ loader = "joining" /\ late > LoadPatience
     \/ At("parallel") /\ waits.late > ParallelPatience
     \/ At("churn") /\ churner \notin {"new", "done"}
  /\ outlasted' = At("churn")
  /\ Record("FAIL")

Next ==
  \/ LoadOpens \/ LoadStops \/ LoadJoins \/ LoadFinishes
  \/ \E w \in Workers :
       \/ WorkerCalls(w) \/ WorkerReturns(w) \/ WorkerUnlocks(w)
       \/ WorkerEnds(w) \/ WorkerComesBack(w)
  \/ SessionsStart
  \/ \E s \in Parallel :
       \/ SessionOpens(s) \/ SessionLocks(s) \/ SessionWrites(s) \/ SessionReads(s)
       \/ SessionPolls(s) \/ SessionUnlocks(s) \/ SessionComesBack(s) \/ SessionJoined(s)
  \/ ChurnStarts \/ ChurnCycles \/ ChurnMeasures
  \/ CheckReturns \/ Watchdog

Spec == Init /\ [][Next]_vars

-----------------------------------------------------------------------------
(* Properties.                                                             *)

VerdictOf(check) == verdicts[CHOOSE i \in DOMAIN Checks : Checks[i] = check]
Finished == n > Len(Checks)

\* What a conforming library may be given in place of a PASS: a lock that a timed-out
\* unlock left held makes the next one nest, which counts as interference, and a churn
\* that outlasts its watchdog fails, with nothing measured when the leak checks ask.
Excused(check) ==
  CASE check = "interfering" /\ levels > 0 -> {"FAIL"}
    [] check = "churn" /\ outlasted -> {"FAIL"}
    [] check = "threads" /\ outlasted -> {"SKIP"}
    [] check = "fds" /\ (outlasted \/ ~churn.counts) -> {"SKIP"}
    [] OTHER -> {}

\* A conforming library passes all eight checks however its calls interleave, and however
\* slow the target, but for what is excused: the lock worker's timeouts are no problem,
\* over VXI-11 the lock is what keeps two sessions' writes and reads apart, and a churn
\* that was abandoned and counts later counts no more than the one check then running.
ConformingLoadPasses ==
  flaw = "none" =>
    \A i \in DOMAIN verdicts : verdicts[i] = "PASS" \/ verdicts[i] \in Excused(Checks[i])

\* Whatever is in STATE["load"] once the script is through -- a problem, a worker still
\* alive, a channel never driven -- and a load that raised or never ended is in some
\* verdict, also where the check that drove it was abandoned, the ones after it read a
\* half-filled result, and a call that hung came back after they had.
LoadTroubleIsReported ==
  Finished /\ (load.problems \/ load.alive \/ loader # "done" \/ ~({"sync", "stb"} \subseteq load.driven))
    => \E c \in {"stopped", "interfering", "driven", "healthy"} : VerdictOf(c) = "FAIL"

\* The two leak checks judge only counts taken after the churn, and then fail exactly the
\* library that leaks, threads that earlier checks gave up on notwithstanding.  They skip
\* only where the churn check said FAIL already or descriptors are not counted; the one
\* that comes second may find the counts an abandoned churn took after the first.
LeaksAreMeasured ==
  Finished =>
    /\ \A c \in {"threads", "fds"} :
         VerdictOf(c) # "SKIP" => churn.measured /\ VerdictOf(c) = Judged(flaw # "leaks")
    /\ VerdictOf("threads") = "SKIP" => VerdictOf("churn") = "FAIL"
    /\ VerdictOf("fds") = "SKIP" /\ churn.counts => VerdictOf("threads") = "SKIP"

\* Every check whose thread did not come back is a FAIL (harness._with_watchdog: a
\* hang is reported).
HungSessionIsReported ==
  (Len(verdicts) = 5 /\ \E s \in Parallel : session[s] = "hung") => VerdictOf("parallel") = "FAIL"
=============================================================================
