--------------------------- MODULE LockRegistry ---------------------------
(***************************************************************************)
(* The daemon-wide lock registry, server/src/frontend/lock.rs: one table   *)
(* per resource behind a std mutex, and one tokio Notify that a release    *)
(* fires.  Both front-ends call it from many tasks; a task acts for one    *)
(* holder (a HiSLIP session or a VXI-11 link), and several tasks may act   *)
(* for the same holder.                                                    *)
(*                                                                         *)
(* A step is one critical section of the mutex, one creation of a          *)
(* Notified future, or one notify_waiters.  Notify keeps no permit:        *)
(* notify_waiters completes exactly the futures that exist at that moment. *)
(***************************************************************************)
EXTENDS Integers, FiniteSets

CONSTANTS
  Holders,    \* HolderId: the sessions and links that may hold a lock
  Resources,  \* resource keys, "gpib<PAD>"
  Names,      \* non-empty lock strings
  Tasks,      \* the tokio tasks that call the registry
  HolderOf,   \* the holder each task acts for
  Requesters, \* the tasks that request locks: a HiSLIP sync task only waits
  None,       \* Rust's Option::None
  MaxDepth    \* bound: no task starts a request past this many levels

Exclusive == ""                      \* the empty lock string
LockStrings == Names \cup {Exclusive}

ASSUME ConstantsAssumption ==
  /\ None \notin Holders
  /\ None \notin Names
  /\ Exclusive \notin Names
  /\ HolderOf \in [Tasks -> Holders]
  /\ Requesters \subseteq Tasks
  /\ MaxDepth \in Nat

-----------------------------------------------------------------------------
(* LockTable and its operations, as functions of one table.                *)

LockTable ==
  [exclusive   : Holders \cup {None},   \* holder of the exclusive lock
   depth       : Nat,                   \* its nesting depth, 0 for None
   shared_name : Names \cup {None},
   shared      : [Holders -> Nat]]      \* 0: the holder is not in the map

EmptyTable ==
  [exclusive |-> None, depth |-> 0,
   shared_name |-> None, shared |-> [h \in Holders |-> 0]]

SharedBy(tb) == {h \in Holders : tb.shared[h] > 0}

IsEmpty(tb) == tb.exclusive = None /\ SharedBy(tb) = {}

\* holds: this holder has some lock here.
Holds(tb, h) == tb.exclusive = h \/ tb.shared[h] > 0

GrantsAccess(tb, h) == Holds(tb, h) \/ IsEmpty(tb)

\* Mutant of Conflicts: an exclusive request ignores other sessions' shared locks.
ConflictsForgetsShared(tb, h, lock) ==
  IF lock = Exclusive
    THEN tb.exclusive \notin {None, h}
    ELSE \/ tb.exclusive \notin {None, h}
         \/ tb.shared_name \notin {None, lock}

\* Mutant of Conflicts: a shared request ignores another session's exclusive lock.
ConflictsForgetsExclusive(tb, h, lock) ==
  IF lock = Exclusive
    THEN \/ tb.exclusive \notin {None, h}
         \/ tb.exclusive = None /\ \E k \in Holders : k # h /\ tb.shared[k] > 0
    ELSE tb.shared_name \notin {None, lock}

\* try_request returns None: the request conflicts right now.
Conflicts(tb, h, lock) ==
  IF lock = Exclusive
    THEN IF tb.exclusive # None
           THEN tb.exclusive # h
           ELSE \E k \in Holders : k # h /\ tb.shared[k] > 0
    ELSE \/ tb.exclusive # None /\ tb.exclusive # h
         \/ tb.shared_name # None /\ tb.shared_name # lock

\* The table after try_request grants: one level more.
Granted(tb, h, lock) ==
  IF lock = Exclusive
    THEN [tb EXCEPT !.exclusive = h, !.depth = @ + 1]
    ELSE [tb EXCEPT !.shared_name = lock, !.shared[h] = @ + 1]

\* shared, and shared_name which goes with the last sharer.
WithShared(tb, shared) ==
  [tb EXCEPT !.shared = shared,
             !.shared_name = IF \E k \in Holders : shared[k] > 0 THEN @ ELSE None]

\* The table after release by a holder: an exclusive level goes first.
Released(tb, h) ==
  IF tb.exclusive = h
    THEN [tb EXCEPT !.depth = @ - 1,
                    !.exclusive = IF tb.depth = 1 THEN None ELSE @]
    ELSE WithShared(tb, [tb.shared EXCEPT ![h] = @ - 1])

\* Mutant of AllReleased: the end of one session clears the whole table.
AllReleasedForAll(tb, h) == IF Holds(tb, h) THEN EmptyTable ELSE tb

\* The table after release_all: every level of h is gone.
AllReleased(tb, h) ==
  LET noex == IF tb.exclusive = h
                THEN [tb EXCEPT !.exclusive = None, !.depth = 0] ELSE tb
  IN  IF tb.shared[h] > 0
        THEN WithShared(noex, [tb.shared EXCEPT ![h] = 0]) ELSE noex

-----------------------------------------------------------------------------
VARIABLES
  tables,    \* resource -> LockTable; an absent entry is EmptyTable
  pc,        \* where each task is in the call it makes
  call,      \* the arguments of that call
  deadline,  \* "none": unbounded wait, "running", "expired": now >= deadline
  woken      \* tasks whose Notified future has been completed

vars == <<tables, pc, call, deadline, woken>>

\* "subscribe": top of the loop; "test": future created, table not yet read;
\* "failed": mutex dropped after a failed test; "parked": awaiting the future;
\* "notify": mutex dropped after a release, waiters not woken.
PCs == {"idle", "subscribe", "test", "failed", "parked", "notify"}

Calls == [op : {"request", "access"}, res : Resources, lock : LockStrings]

\* t is inside a request or a wait.
Waiting(t) == pc[t] \in {"subscribe", "test", "failed", "parked"}

\* t has tested in vain and counts on its future.
Refused(t) == pc[t] \in {"failed", "parked"}

TypeOK ==
  /\ tables \in [Resources -> LockTable]
  /\ pc \in [Tasks -> PCs]
  /\ call \in [Tasks -> Calls \cup {None}]
  /\ deadline \in [Tasks -> {"none", "running", "expired"}]
  /\ woken \in SUBSET Tasks
  /\ \A t \in Tasks : Waiting(t) => call[t] \in Calls

Init ==
  /\ tables = [r \in Resources |-> EmptyTable]
  /\ pc = [t \in Tasks |-> "idle"]
  /\ call = [t \in Tasks |-> None]
  /\ deadline = [t \in Tasks |-> "none"]
  /\ woken = {}

Goto(t, label) == pc' = [pc EXCEPT ![t] = label]

\* The call returns: the task forgets its arguments, its deadline, its future.
Return(t) ==
  /\ Goto(t, "idle")
  /\ call' = [call EXCEPT ![t] = None]
  /\ deadline' = [deadline EXCEPT ![t] = "none"]
  /\ woken' = woken \ {t}

Start(t, c, d) ==
  /\ pc[t] = "idle"
  /\ Goto(t, "subscribe")
  /\ call' = [call EXCEPT ![t] = c]
  /\ deadline' = [deadline EXCEPT ![t] = d]
  /\ UNCHANGED <<tables, woken>>

\* Levels h holds on r: what MaxDepth bounds.
Level(tb, h) == (IF tb.exclusive = h THEN tb.depth ELSE 0) + tb.shared[h]

\* request.  A zero timeout is one that expires before the first test.
Request(t, r, lock) ==
  /\ t \in Requesters
  /\ Level(tables[r], HolderOf[t]) < MaxDepth
  /\ Start(t, [op |-> "request", res |-> r, lock |-> lock], "running")

\* wait_for_access (unbounded) and wait_for_access_timeout.
WaitForAccess(t, r) ==
  \E d \in {"none", "running"} :
    Start(t, [op |-> "access", res |-> r, lock |-> Exclusive], d)

\* released.notified(): from here on a notify_waiters reaches this task.
Subscribe(t) ==
  /\ pc[t] = "subscribe"
  /\ Goto(t, "test")
  /\ woken' = woken \ {t}
  /\ UNCHANGED <<tables, call, deadline>>

\* Would the test of task t succeed now?
Satisfied(t) ==
  LET tb == tables[call[t].res] IN
  IF call[t].op = "request"
    THEN ~Conflicts(tb, HolderOf[t], call[t].lock)
    ELSE GrantsAccess(tb, HolderOf[t])

\* try_request succeeds; nobody is notified of a grant.
Grant(t) ==
  /\ pc[t] = "test" /\ call[t].op = "request" /\ Satisfied(t)
  /\ tables' = [tables EXCEPT ![call[t].res] =
                  Granted(@, HolderOf[t], call[t].lock)]
  /\ Return(t)

\* has_access is true: the wait is over.
Access(t) ==
  /\ pc[t] = "test" /\ call[t].op = "access" /\ Satisfied(t)
  /\ Return(t)
  /\ UNCHANGED tables

\* The test fails: try_request returns None, or has_access is false.
Fail(t) ==
  /\ pc[t] = "test" /\ ~Satisfied(t)
  /\ Goto(t, "failed")
  /\ UNCHANGED <<tables, call, deadline, woken>>

\* Mutant of GiveUp: past its deadline the task goes round the loop again.
GiveUpRetries(t) ==
  /\ pc[t] = "failed" /\ deadline[t] = "expired"
  /\ Goto(t, "subscribe")
  /\ UNCHANGED <<tables, call, deadline, woken>>

\* now >= deadline: the answer is Failure, or false.
GiveUp(t) ==
  /\ pc[t] = "failed" /\ deadline[t] = "expired"
  /\ Return(t)
  /\ UNCHANGED tables

\* Mutant of Park: the future is created only after the test has failed.
ParkSubscribesLate(t) ==
  /\ pc[t] = "failed" /\ deadline[t] # "expired"
  /\ Goto(t, "parked")
  /\ woken' = woken \ {t}
  /\ UNCHANGED <<tables, call, deadline>>

\* There is time left: await the future created before the test.
Park(t) ==
  /\ pc[t] = "failed" /\ deadline[t] # "expired"
  /\ Goto(t, "parked")
  /\ UNCHANGED <<tables, call, deadline, woken>>

\* The future completes, or the timeout around it fires: loop.
Wake(t) ==
  /\ pc[t] = "parked"
  /\ t \in woken \/ deadline[t] = "expired"
  /\ Goto(t, "subscribe")
  /\ UNCHANGED <<tables, call, deadline, woken>>

\* Time passes the deadline of a bounded call.
Expire(t) ==
  /\ deadline[t] = "running"
  /\ deadline' = [deadline EXCEPT ![t] = "expired"]
  /\ UNCHANGED <<tables, pc, call, woken>>

\* Mutant of Release: no check that the caller holds anything.
ReleaseUnchecked(t, r) ==
  /\ pc[t] = "idle"
  /\ tables' = [tables EXCEPT ![r] = Released(@, HolderOf[t])]
  /\ Goto(t, "notify")
  /\ UNCHANGED <<call, deadline, woken>>

\* release: Error, changing nothing, unless the holder holds something here.
Release(t, r) ==
  /\ pc[t] = "idle"
  /\ Holds(tables[r], HolderOf[t])
  /\ tables' = [tables EXCEPT ![r] = Released(@, HolderOf[t])]
  /\ Goto(t, "notify")
  /\ UNCHANGED <<call, deadline, woken>>

\* Mutant of ReleaseAll: the end of a session notifies nobody.
ReleaseAllSilently(t) ==
  /\ pc[t] = "idle"
  /\ tables' = [r \in Resources |-> AllReleased(tables[r], HolderOf[t])]
  /\ UNCHANGED <<pc, call, deadline, woken>>

\* release_all: notifies only if it freed something.
ReleaseAll(t) ==
  /\ pc[t] = "idle"
  /\ \E r \in Resources : Holds(tables[r], HolderOf[t])
  /\ tables' = [r \in Resources |-> AllReleased(tables[r], HolderOf[t])]
  /\ Goto(t, "notify")
  /\ UNCHANGED <<call, deadline, woken>>

\* notify_waiters, after drop(tables): reaches the futures that exist now.
Notify(t) ==
  /\ pc[t] = "notify"
  /\ Goto(t, "idle")
  /\ woken' = woken \cup {u \in Tasks : pc[u] \in {"test", "failed", "parked"}}
  /\ UNCHANGED <<tables, call, deadline>>

\* The steps a task takes once it has made a call.
Proceed(t) ==
  \/ Subscribe(t) \/ Grant(t) \/ Access(t) \/ Fail(t) \/ GiveUp(t)
  \/ Park(t) \/ Wake(t) \/ Notify(t)

Next ==
  \E t \in Tasks :
    \/ \E r \in Resources :
         \/ \E lock \in LockStrings : Request(t, r, lock)
         \/ WaitForAccess(t, r)
         \/ Release(t, r)
    \/ ReleaseAll(t)
    \/ Proceed(t)
    \/ Expire(t)

Spec == Init /\ [][Next]_vars

\* The executor runs every ready task, and timers fire.
Fairness == \A t \in Tasks : WF_vars(Proceed(t)) /\ WF_vars(Expire(t))

FairSpec == Spec /\ Fairness

-----------------------------------------------------------------------------
(* Properties.                                                             *)

\* What makes a table a viLock state (the header of lock.rs): the exclusive
\* holder excludes every other holder, a nesting depth is counted exactly while
\* the lock is held, and a shared name exists exactly while somebody shares.
WellFormed(tb) ==
  /\ tb.exclusive # None => \A k \in Holders \ {tb.exclusive} : tb.shared[k] = 0
  /\ tb.exclusive = None <=> tb.depth = 0
  /\ tb.shared_name = None <=> \A k \in Holders : tb.shared[k] = 0

\* Every reachable table is well formed: no interleaving of grants, releases and
\* session ends leaves a second owner beside an exclusive one, a name without
\* sharers (which would refuse every other name for good) or a depth without
\* an owner.
TablesWellFormed == \A r \in Resources : WellFormed(tables[r])

\* No lost wakeup: a task that tested in vain although its test would now succeed
\* has been woken, is about to be (the releaser has yet to call notify_waiters),
\* or was satisfied by its own holder's grant, for which the code never notifies.
NoLostWakeup ==
  \A t \in Tasks :
    Refused(t) /\ Satisfied(t) =>
      \/ t \in woken
      \/ \E u \in Tasks : pc[u] = "notify"
      \/ Holds(tables[call[t].res], HolderOf[t])

\* A holder loses its lock only by its own release or release_all: no request,
\* expiry or release of another session takes it away.
OnlyTheHolderReleases ==
  [][\A r \in Resources, h \in Holders :
       Level(tables'[r], h) < Level(tables[r], h) =>
         \E t \in Tasks : HolderOf[t] = h /\ pc[t] = "idle" /\ pc'[t] = "notify"]_vars

\* A bounded call always comes back, whatever the other sessions do.
BoundedCallsReturn ==
  \A t \in Tasks : (deadline[t] # "none") ~> (pc[t] = "idle")

\* Once a resource stays free, nobody stays parked on it: even the unbounded
\* wait_for_access returns.
FreeResourceWakesWaiters ==
  \A t \in Tasks, r \in Resources :
    <>[](IsEmpty(tables[r])) =>
      [](Waiting(t) /\ call[t].res = r => <>(pc[t] = "idle"))

\* The registry implements viLock: a level is a nesting depth, exclusive and
\* shared together, and every step grants or releases as ViLock allows or
\* leaves all levels alone.
Abstract ==
  INSTANCE ViLock WITH
    level <- [r \in Resources |-> [h \in Holders |-> Level(tables[r], h)]],
    sole  <- [r \in Resources |-> tables[r].exclusive]

ImplementsViLock == Abstract!Spec

\* What a session granted an exclusive lock relies on (the header of lock.rs:
\* "callers assume exclusive access"): for as long as it is the owner it has a
\* level and nobody else has one, whatever was granted since.
ExclusiveExcludes == Abstract!SoleOwnership
=============================================================================
