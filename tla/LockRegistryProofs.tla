------------------------ MODULE LockRegistryProofs ------------------------
(***************************************************************************)
(* Proofs about LockRegistry, for any holders, resources, names and tasks. *)
(* TypeOK alone is not inductive: release subtracts one from a depth, so   *)
(* that depth stays a natural number only because a held lock has depth    *)
(* above zero, which TablesWellFormed says.                                *)
(***************************************************************************)
EXTENDS LockRegistry, TLAPS

-----------------------------------------------------------------------------
(* What the table operations preserve.                                     *)

\* The empty table is a well-formed table.
LEMMA EmptyTableOK == EmptyTable \in LockTable /\ WellFormed(EmptyTable)
  BY DEF EmptyTable, LockTable, WellFormed

\* A grant by try_request turns a table into a table.
LEMMA GrantedType ==
  ASSUME NEW tb \in LockTable, NEW h \in Holders, NEW lock \in LockStrings
  PROVE  Granted(tb, h, lock) \in LockTable
  <1>1. CASE lock = Exclusive
    <2> DEFINE d == tb.depth + 1
    <2>1. d \in Nat
      BY DEF LockTable
    <2>2. Granted(tb, h, lock) = [tb EXCEPT !.exclusive = h, !.depth = d]
      BY <1>1 DEF Granted
    <2> HIDE DEF d
    <2> QED
      BY <2>1, <2>2 DEF LockTable
  <1>2. CASE lock # Exclusive
    <2>1. lock \in Names
      BY <1>2 DEF LockStrings
    <2> DEFINE sh == [tb.shared EXCEPT ![h] = @ + 1]
    <2>2. sh \in [Holders -> Nat]
      BY DEF LockTable
    <2>3. Granted(tb, h, lock) = [tb EXCEPT !.shared_name = lock, !.shared = sh]
      BY <1>2 DEF LockTable, Granted
    <2> HIDE DEF sh
    <2> QED
      BY <2>1, <2>2, <2>3 DEF LockTable
  <1> QED
    BY <1>1, <1>2

\* A grant by try_request that does not conflict keeps a table well formed.
LEMMA GrantedWellFormed ==
  ASSUME NEW tb \in LockTable, NEW h \in Holders, NEW lock \in LockStrings,
         WellFormed(tb), ~Conflicts(tb, h, lock)
  PROVE  WellFormed(Granted(tb, h, lock))
  <1> USE ConstantsAssumption DEF ConstantsAssumption
  <1>1. CASE lock = Exclusive
    BY <1>1 DEF LockTable, Granted, WellFormed, Conflicts
  <1>2. CASE lock # Exclusive
    <2>1. lock \in Names
      BY <1>2 DEF LockStrings
    <2> QED
      BY <1>2, <2>1 DEF LockTable, Granted, WellFormed, Conflicts
  <1> QED
    BY <1>1, <1>2

\* release by a holder turns a well-formed table into a well-formed table.
LEMMA ReleasedOK ==
  ASSUME NEW tb \in LockTable, NEW h \in Holders, WellFormed(tb), Holds(tb, h)
  PROVE  Released(tb, h) \in LockTable /\ WellFormed(Released(tb, h))
  <1> USE ConstantsAssumption DEF ConstantsAssumption
  <1>1. CASE tb.exclusive = h
    <2> DEFINE d == tb.depth - 1
               e == IF tb.depth = 1 THEN None ELSE h
    <2>1. d \in Nat /\ e \in Holders \cup {None} /\ (e = None <=> d = 0)
          /\ (e # None => e = h)
      BY <1>1 DEF LockTable, WellFormed
    <2>2. Released(tb, h) = [tb EXCEPT !.depth = d, !.exclusive = e]
      BY <1>1 DEF Released
    <2> HIDE DEF d, e
    <2>3. Released(tb, h) \in LockTable
      BY <2>1, <2>2 DEF LockTable
    <2> QED
      BY <1>1, <2>1, <2>2, <2>3 DEF LockTable, WellFormed
  <1>2. CASE tb.exclusive # h
    <2> DEFINE sh == [tb.shared EXCEPT ![h] = @ - 1]
    <2>1. sh \in [Holders -> Nat]
      BY <1>2 DEF LockTable, Holds
    <2>2. \A k \in Holders : k # h => sh[k] = tb.shared[k]
      BY DEF LockTable
    <2>3. tb.shared[h] > 0 /\ tb.exclusive = None
      BY <1>2 DEF Holds, WellFormed, LockTable
    <2>4. Released(tb, h) = WithShared(tb, sh)
      BY <1>2 DEF Released
    <2> HIDE DEF sh
    <2> DEFINE n == IF \E k \in Holders : sh[k] > 0 THEN tb.shared_name ELSE None
    <2>5. n \in Names \cup {None} /\ (n = None <=> \A k \in Holders : sh[k] = 0)
      BY <2>1, <2>2, <2>3 DEF LockTable, WellFormed
    <2>6. Released(tb, h) = [tb EXCEPT !.shared = sh, !.shared_name = n]
      BY <2>4 DEF WithShared
    <2> HIDE DEF n
    <2>7. Released(tb, h) \in LockTable
      BY <2>1, <2>5, <2>6 DEF LockTable
    <2> QED
      BY <2>1, <2>3, <2>5, <2>6, <2>7 DEF LockTable, WellFormed
  <1> QED
    BY <1>1, <1>2

\* release_all keeps a table well formed, whether or not the holder holds it.
LEMMA AllReleasedOK ==
  ASSUME NEW tb \in LockTable, NEW h \in Holders, WellFormed(tb)
  PROVE  AllReleased(tb, h) \in LockTable /\ WellFormed(AllReleased(tb, h))
  <1> USE ConstantsAssumption DEF ConstantsAssumption
  <1> DEFINE noex == IF tb.exclusive = h
                       THEN [tb EXCEPT !.exclusive = None, !.depth = 0] ELSE tb
             sh == [tb.shared EXCEPT ![h] = 0]
  <1>1. noex \in LockTable /\ noex.shared = tb.shared
        /\ noex.shared_name = tb.shared_name
        /\ (noex.exclusive = None <=> noex.depth = 0)
        /\ noex.exclusive # h
        /\ (noex.exclusive # None => noex.exclusive = tb.exclusive)
    BY DEF LockTable, WellFormed
  <1>2. sh \in [Holders -> Nat] /\ sh[h] = 0
        /\ \A k \in Holders : k # h => sh[k] = tb.shared[k]
    BY DEF LockTable
  <1>3. AllReleased(tb, h) = IF tb.shared[h] > 0 THEN WithShared(noex, sh) ELSE noex
    BY DEF AllReleased
  <1> HIDE DEF noex, sh
  <1>4. CASE tb.shared[h] > 0
    <2> DEFINE n == IF \E k \in Holders : sh[k] > 0 THEN noex.shared_name ELSE None
    <2>1. n \in Names \cup {None} /\ (n = None <=> \A k \in Holders : sh[k] = 0)
      BY <1>1, <1>2, <1>4 DEF LockTable, WellFormed
    <2>2. AllReleased(tb, h) = [noex EXCEPT !.shared = sh, !.shared_name = n]
      BY <1>3, <1>4 DEF WithShared
    <2> HIDE DEF n
    <2>3. AllReleased(tb, h) \in LockTable
      BY <1>1, <1>2, <2>1, <2>2 DEF LockTable
    <2> QED
      BY <1>1, <1>2, <2>1, <2>2, <2>3 DEF LockTable, WellFormed
  <1>5. CASE ~(tb.shared[h] > 0)
    BY <1>1, <1>3, <1>5 DEF LockTable, WellFormed
  <1> QED
    BY <1>4, <1>5

\* A grant to one holder never resolves the conflict of another: this is why
\* try_request need not notify the waiters of other holders.
LEMMA GrantKeepsConflicts ==
  ASSUME NEW tb \in LockTable, NEW h \in Holders, NEW k \in Holders, h # k,
         NEW lock \in LockStrings, NEW other \in LockStrings,
         ~Conflicts(tb, k, other), Conflicts(tb, h, lock)
  PROVE  Conflicts(Granted(tb, k, other), h, lock)
  BY ConstantsAssumption DEF ConstantsAssumption, LockTable, Granted, Conflicts, LockStrings

\* Nor does it give another holder access it did not have.
LEMMA GrantKeepsLockedOut ==
  ASSUME NEW tb \in LockTable, NEW h \in Holders, NEW k \in Holders, h # k,
         NEW other \in LockStrings, ~GrantsAccess(tb, h)
  PROVE  ~GrantsAccess(Granted(tb, k, other), h)
  BY ConstantsAssumption DEF ConstantsAssumption, LockTable, Granted, GrantsAccess, Holds, IsEmpty, SharedBy, LockStrings

\* A grant takes no lock away.
LEMMA GrantKeepsHolds ==
  ASSUME NEW tb \in LockTable, NEW h \in Holders, NEW k \in Holders,
         NEW other \in LockStrings, ~Conflicts(tb, k, other)
  PROVE  /\ Holds(tb, h) => Holds(Granted(tb, k, other), h)
         /\ Holds(Granted(tb, k, other), k)
  BY ConstantsAssumption DEF ConstantsAssumption, LockTable, Granted, Conflicts, Holds, LockStrings
-----------------------------------------------------------------------------
(* Type correctness and well-formed tables, proved together.               *)

TableInv == TypeOK /\ TablesWellFormed

\* No step of any task leaves TableInv.
LEMMA TableInvStep == TableInv /\ [Next]_vars => TableInv'
  <1> SUFFICES ASSUME TableInv, [Next]_vars
               PROVE  TableInv'
    OBVIOUS
  <1> USE ConstantsAssumption DEF ConstantsAssumption, TableInv, TypeOK, PCs, Waiting
  <1>1. ASSUME NEW t \in Tasks, NEW c \in Calls, NEW d \in {"none", "running"},
               Start(t, c, d)
        PROVE  TableInv'
    BY <1>1 DEF Start, Goto, TablesWellFormed
  <1>2. ASSUME NEW t \in Tasks, NEW r \in Resources, NEW lock \in LockStrings,
               Request(t, r, lock)
        PROVE  TableInv'
    <2>1. [op |-> "request", res |-> r, lock |-> lock] \in Calls
      BY DEF Calls
    <2> QED
      BY <1>1, <1>2, <2>1 DEF Request
  <1>3. ASSUME NEW t \in Tasks, NEW r \in Resources, WaitForAccess(t, r)
        PROVE  TableInv'
    <2>1. [op |-> "access", res |-> r, lock |-> Exclusive] \in Calls
      BY DEF Calls, LockStrings
    <2> QED
      BY <1>1, <1>3, <2>1 DEF WaitForAccess
  <1>4. ASSUME NEW t \in Tasks, NEW r \in Resources, Release(t, r)
        PROVE  TableInv'
    <2>1. tables' \in [Resources -> LockTable] /\ TablesWellFormed'
      BY <1>4, ReleasedOK DEF Release, TablesWellFormed
    <2> QED
      BY <1>4, <2>1 DEF Release, Goto
  <1>5. ASSUME NEW t \in Tasks, ReleaseAll(t)
        PROVE  TableInv'
    <2>1. tables' \in [Resources -> LockTable] /\ TablesWellFormed'
      BY <1>5, AllReleasedOK DEF ReleaseAll, TablesWellFormed
    <2> QED
      BY <1>5, <2>1 DEF ReleaseAll, Goto
  <1>6. ASSUME NEW t \in Tasks, Grant(t)
        PROVE  TableInv'
    <2>1. call[t] \in Calls
      BY <1>6 DEF Grant
    <2>2. call[t].res \in Resources /\ call[t].lock \in LockStrings
      BY <2>1 DEF Calls
    <2>3. ~Conflicts(tables[call[t].res], HolderOf[t], call[t].lock)
      BY <1>6 DEF Grant, Satisfied
    <2>4. tables' \in [Resources -> LockTable] /\ TablesWellFormed'
      BY <1>6, <2>2, <2>3, GrantedType, GrantedWellFormed DEF Grant, TablesWellFormed
    <2> QED
      BY <1>6, <2>4 DEF Grant, Return, Goto
  <1>7. ASSUME NEW t \in Tasks, \/ Subscribe(t) \/ Access(t) \/ Fail(t) \/ GiveUp(t) \/ Park(t)
                               \/ Wake(t) \/ Notify(t) \/ Expire(t)
        PROVE  TableInv'
    BY <1>7 DEF Subscribe, Access, Fail, GiveUp, Park, Wake, Notify, Expire, Return, Goto,
                TablesWellFormed
  <1>8. CASE UNCHANGED vars
    BY <1>8 DEF vars, TablesWellFormed
  <1> QED
    BY <1>2, <1>3, <1>4, <1>5, <1>6, <1>7, <1>8 DEF Next, Proceed

\* The registry starts with no table, no call and no wakeup.
LEMMA TableInvInit == Init => TableInv
  BY EmptyTableOK, ConstantsAssumption
     DEF ConstantsAssumption, Init, TableInv, TypeOK, TablesWellFormed, PCs, Waiting

\* Type correctness: whatever tasks interleave their calls, depths stay natural
\* numbers and a task in the request loop has a request.
THEOREM TypeCorrect == Spec => []TypeOK
  <1>1. TableInv => TypeOK
    BY DEF TableInv
  <1> QED
    BY <1>1, TableInvInit, TableInvStep, PTL DEF Spec

\* Mutual exclusion and its bookkeeping: every table lock.rs can reach is a
\* viLock state.
THEOREM TablesStayWellFormed == Spec => []TablesWellFormed
  <1>1. TableInv => TablesWellFormed
    BY DEF TableInv
  <1> QED
    BY <1>1, TableInvInit, TableInvStep, PTL DEF Spec

-----------------------------------------------------------------------------
(* No lost wakeup.                                                         *)

\* A waiter's condition in one named part: what NoLostWakeup says of t.
Wakeable(t) ==
  \/ t \in woken
  \/ \E u \in Tasks : pc[u] = "notify"
  \/ Holds(tables[call[t].res], HolderOf[t])

\* The subtle step: another task's grant satisfies a parked task only by a grant
\* to the same holder.
LEMMA GrantWakesNobodyElse ==
  ASSUME TableInv, NoLostWakeup, NEW u \in Tasks, Grant(u),
         NEW t \in Tasks, Refused(t)', Satisfied(t)'
  PROVE  Wakeable(t)'
  <1> USE ConstantsAssumption DEF ConstantsAssumption
  <1> DEFINE rt == call[t].res
             ru == call[u].res
             ht == HolderOf[t]
             hu == HolderOf[u]
             tb == tables[rt]
  <1>1. t # u /\ Refused(t) /\ call'[t] = call[t] /\ pc[u] = "test"
    BY DEF Grant, Return, Goto, Refused, TableInv, TypeOK
  <1>2. call[t] \in Calls /\ call[u] \in Calls
    BY <1>1 DEF TableInv, TypeOK, Waiting, Refused
  <1>3. /\ rt \in Resources /\ ru \in Resources
        /\ call[t].lock \in LockStrings /\ call[u].lock \in LockStrings
        /\ ht \in Holders /\ hu \in Holders /\ tb \in LockTable
        /\ call[t].op \in {"request", "access"}
    BY <1>2 DEF Calls, TableInv, TypeOK
  <1>4. ~Conflicts(tables[ru], hu, call[u].lock)
    BY DEF Grant, Satisfied
  <1>5. tables'[rt] = IF rt = ru THEN Granted(tb, hu, call[u].lock) ELSE tb
    BY <1>3 DEF Grant, TableInv, TypeOK
  <1>6. CASE rt = ru /\ ht = hu
    BY <1>1, <1>3, <1>4, <1>5, <1>6, GrantKeepsHolds DEF Wakeable
  <1>7. CASE ~(rt = ru /\ ht = hu)
    <2>1. Satisfied(t)
      <3>1. CASE rt # ru
        BY <1>1, <1>5, <3>1 DEF Satisfied
      <3>2. CASE rt = ru /\ call[t].op = "request"
        <4>1. ~Conflicts(Granted(tb, hu, call[u].lock), ht, call[t].lock)
          BY <1>1, <1>5, <3>2 DEF Satisfied
        <4>2. ~Conflicts(tb, ht, call[t].lock)
          BY <1>3, <1>4, <1>7, <3>2, <4>1, GrantKeepsConflicts
        <4> QED
          BY <3>2, <4>2 DEF Satisfied
      <3>3. CASE rt = ru /\ call[t].op = "access"
        <4>1. GrantsAccess(Granted(tb, hu, call[u].lock), ht)
          BY <1>1, <1>5, <3>3 DEF Satisfied
        <4>2. GrantsAccess(tb, ht)
          BY <1>3, <1>7, <3>3, <4>1, GrantKeepsLockedOut
        <4> QED
          BY <3>3, <4>2 DEF Satisfied
      <3> QED
        BY <1>3, <3>1, <3>2, <3>3
    <2>2. Wakeable(t)
      BY <1>1, <2>1 DEF NoLostWakeup, Wakeable
    <2>3. t \in woken => t \in woken'
      BY <1>1 DEF Grant, Return
    <2>4. ASSUME NEW v \in Tasks, pc[v] = "notify"
          PROVE  pc'[v] = "notify"
      BY <1>1, <2>4 DEF Grant, Return, Goto, TableInv, TypeOK
    <2>5. Holds(tb, ht) => Holds(tables'[rt], ht)
      BY <1>3, <1>4, <1>5, GrantKeepsHolds
    <2> QED
      BY <1>1, <2>2, <2>3, <2>4, <2>5 DEF Wakeable
  <1> QED
    BY <1>6, <1>7

\* A step that leaves the tables and the parked task alone leaves it wakeable.
LEMMA QuietStepKeepsWakeable ==
  ASSUME TableInv, NoLostWakeup, UNCHANGED tables,
         NEW u \in Tasks, NEW t \in Tasks,
         Subscribe(u) \/ Access(u) \/ Fail(u) \/ GiveUp(u) \/ Park(u)
           \/ Wake(u) \/ Expire(u)
           \/ \E c \in Calls, d \in {"none", "running"} : Start(u, c, d),
         Refused(t)', Satisfied(t)'
  PROVE  Wakeable(t)'
  <1>1. CASE Refused(t)
    <2>1. call'[t] = call[t] /\ (t \in woken => t \in woken')
      BY <1>1 DEF Subscribe, Access, Fail, GiveUp, Park, Wake, Expire, Start, Return, Goto,
                  Refused, TableInv, TypeOK
    <2>2. \A v \in Tasks : pc[v] = "notify" => pc'[v] = "notify"
      BY DEF Subscribe, Access, Fail, GiveUp, Park, Wake, Expire, Start, Return, Goto,
             TableInv, TypeOK
    <2>3. Wakeable(t)
      BY <1>1, <2>1 DEF NoLostWakeup, Wakeable, Satisfied
    <2> QED
      BY <2>1, <2>2, <2>3 DEF Wakeable
  <1>2. CASE ~Refused(t)
    <2>1. u = t /\ Fail(t)
      BY <1>2 DEF Subscribe, Access, Fail, GiveUp, Park, Wake, Expire, Start, Return, Goto,
                  Refused, TableInv, TypeOK
    <2>2. FALSE
      BY <2>1 DEF Fail, Satisfied
    <2> QED
      BY <2>2
  <1> QED
    BY <1>1, <1>2

\* No step loses a wakeup.
LEMMA NoLostWakeupStep == TableInv /\ NoLostWakeup /\ [Next]_vars => NoLostWakeup'
  <1> SUFFICES ASSUME TableInv, NoLostWakeup, [Next]_vars,
                      NEW t \in Tasks, Refused(t)', Satisfied(t)'
               PROVE  Wakeable(t)'
    BY DEF NoLostWakeup, Wakeable
  <1>1. ASSUME NEW u \in Tasks,
               ReleaseAll(u) \/ \E r \in Resources : Release(u, r)
        PROVE  Wakeable(t)'
    <2>1. pc'[u] = "notify"
      BY <1>1 DEF Release, ReleaseAll, Goto, TableInv, TypeOK
    <2> QED
      BY <2>1 DEF Wakeable
  <1>2. ASSUME NEW u \in Tasks, Notify(u)
        PROVE  Wakeable(t)'
    <2>1. Refused(t)
      BY <1>2 DEF Notify, Goto, Refused, TableInv, TypeOK
    <2>2. t \in woken'
      BY <1>2, <2>1 DEF Notify, Refused
    <2> QED
      BY <2>2 DEF Wakeable
  <1>3. ASSUME NEW u \in Tasks, Grant(u)
        PROVE  Wakeable(t)'
    BY <1>3, GrantWakesNobodyElse
  <1>4. ASSUME NEW u \in Tasks,
               Subscribe(u) \/ Access(u) \/ Fail(u) \/ GiveUp(u) \/ Park(u)
           \/ Wake(u) \/ Expire(u)
        PROVE  Wakeable(t)'
    <2>1. UNCHANGED tables
      BY <1>4 DEF Subscribe, Access, Fail, GiveUp, Park, Wake, Expire
    <2> QED
      BY <1>4, <2>1, QuietStepKeepsWakeable
  <1>5. ASSUME NEW u \in Tasks, NEW r \in Resources,
               WaitForAccess(u, r) \/ \E lock \in LockStrings : Request(u, r, lock)
        PROVE  Wakeable(t)'
    <2>1. \E c \in Calls, d \in {"none", "running"} : Start(u, c, d)
      BY <1>5 DEF WaitForAccess, Request, Calls, LockStrings
    <2>2. UNCHANGED tables
      BY <2>1 DEF Start
    <2> QED
      BY <2>1, <2>2, QuietStepKeepsWakeable
  <1>6. CASE UNCHANGED vars
    BY <1>6 DEF vars, NoLostWakeup, Wakeable, Satisfied, Refused
  <1> QED
    BY <1>1, <1>2, <1>3, <1>4, <1>5, <1>6 DEF Next, Proceed

\* No interleaving of releases, grants, timeouts and waits leaves a task asleep
\* on a lock that a release made available to it.
THEOREM NoWakeupIsLost == Spec => []NoLostWakeup
  <1>1. Init => NoLostWakeup
    BY DEF Init, NoLostWakeup, Refused
  <1> QED
    BY <1>1, TableInvInit, TableInvStep, NoLostWakeupStep, PTL DEF Spec

-----------------------------------------------------------------------------
(* The registry implements ViLock.                                         *)

\* The level of every holder after a grant.
LEMMA GrantedLevel ==
  ASSUME NEW tb \in LockTable, NEW h \in Holders, NEW k \in Holders,
         NEW lock \in LockStrings, WellFormed(tb), ~Conflicts(tb, h, lock)
  PROVE  Level(Granted(tb, h, lock), k) = Level(tb, k) + (IF k = h THEN 1 ELSE 0)
  <1> USE ConstantsAssumption DEF ConstantsAssumption
  <1>1. CASE lock = Exclusive
    BY <1>1 DEF LockTable, Granted, WellFormed, Conflicts, Level
  <1>2. CASE lock # Exclusive
    BY <1>2 DEF LockTable, Granted, WellFormed, Conflicts, Level
  <1> QED
    BY <1>1, <1>2

\* The level of every holder after a release.
LEMMA ReleasedLevel ==
  ASSUME NEW tb \in LockTable, NEW h \in Holders, NEW k \in Holders,
         WellFormed(tb), Holds(tb, h)
  PROVE  Level(Released(tb, h), k) = Level(tb, k) - (IF k = h THEN 1 ELSE 0)
  <1> USE ConstantsAssumption DEF ConstantsAssumption
  <1>1. CASE tb.exclusive = h
    BY <1>1 DEF LockTable, Released, WellFormed, Level
  <1>2. CASE tb.exclusive # h
    BY <1>2 DEF LockTable, Released, WithShared, Level, Holds
  <1> QED
    BY <1>1, <1>2

\* The level of every holder after release_all.
LEMMA AllReleasedLevel ==
  ASSUME NEW tb \in LockTable, NEW h \in Holders, NEW k \in Holders, WellFormed(tb)
  PROVE  Level(AllReleased(tb, h), k) = IF k = h THEN 0 ELSE Level(tb, k)
  <1> USE ConstantsAssumption DEF ConstantsAssumption
  <1>1. CASE tb.shared[h] > 0
    BY <1>1 DEF LockTable, AllReleased, WithShared, WellFormed, Level
  <1>2. CASE ~(tb.shared[h] > 0)
    BY <1>2 DEF LockTable, AllReleased, WellFormed, Level
  <1> QED
    BY <1>1, <1>2

\* A holder holds a lock exactly when it has a level.
LEMMA HoldsIsLevel ==
  ASSUME NEW tb \in LockTable, NEW h \in Holders, WellFormed(tb)
  PROVE  Level(tb, h) \in Nat /\ (Holds(tb, h) <=> Level(tb, h) > 0)
  BY ConstantsAssumption DEF ConstantsAssumption, LockTable, WellFormed, Level, Holds

\* The refinement mapping, named.
AbsLevel == [r \in Resources |-> [h \in Holders |-> Level(tables[r], h)]]
AbsSole  == [r \in Resources |-> tables[r].exclusive]

\* An exclusive or a shared grant of the registry is one of ViLock.
LEMMA GrantRefines ==
  ASSUME TableInv, NEW t \in Tasks, Grant(t)
  PROVE  Abstract!Next
  <1> USE ConstantsAssumption DEF ConstantsAssumption
  <1> DEFINE r == call[t].res
             h == HolderOf[t]
             lock == call[t].lock
             tb == tables[r]
  <1>1. call[t] \in Calls
    BY DEF Grant, TableInv, TypeOK, Waiting
  <1>2. r \in Resources /\ h \in Holders /\ lock \in LockStrings
        /\ tb \in LockTable /\ WellFormed(tb) /\ ~Conflicts(tb, h, lock)
    BY <1>1 DEF Calls, TableInv, TypeOK, TablesWellFormed, Grant, Satisfied
  <1>2a. r \in Resources /\ h \in Holders
    BY <1>2
  <1>3. tables' = [tables EXCEPT ![r] = Granted(tb, h, lock)]
    BY DEF Grant
  <1>4. tables \in [Resources -> LockTable]
    BY DEF TableInv, TypeOK
  <1> HIDE DEF r, h, lock
  <1>5. \A q \in Resources, k \in Holders :
          Level(tables'[q], k) = IF q = r /\ k = h THEN Level(tb, h) + 1
                                                  ELSE Level(tables[q], k)
    <2> SUFFICES ASSUME NEW q \in Resources, NEW k \in Holders
                 PROVE  Level(tables'[q], k) = IF q = r /\ k = h THEN Level(tb, h) + 1
                                                  ELSE Level(tables[q], k)
      OBVIOUS
    <2>1. CASE q = r
      <3>1. tables'[q] = Granted(tb, h, lock)
        BY <1>2, <1>3, <1>4, <2>1
      <3>2. Level(tb, k) \in Nat
        BY <1>2, HoldsIsLevel
      <3> QED
        BY <1>2, <2>1, <3>1, <3>2, GrantedLevel
    <2>2. CASE q # r
      BY <1>2, <1>3, <1>4, <2>2
    <2> QED
      BY <2>1, <2>2
  <1>6. AbsLevel' = [AbsLevel EXCEPT ![r][h] = @ + 1]
    BY <1>2, <1>5 DEF AbsLevel
  <1>7. CASE lock = Exclusive
    <2>1. AbsSole' = [AbsSole EXCEPT ![r] = h]
      BY <1>2, <1>3, <1>4, <1>7 DEF AbsSole, Granted, LockTable
    <2>2. \A k \in Holders \ {h} : AbsLevel[r][k] = 0
      BY <1>2, <1>7 DEF AbsLevel, Level, WellFormed, Conflicts, LockTable
    <2>3. Abstract!GrantExclusive(h, r)
      BY <1>6, <2>1, <2>2 DEF Abstract!GrantExclusive, AbsLevel, AbsSole
    <2>4. \E q \in Resources : Abstract!GrantExclusive(h, q)
      BY <1>2a, <2>3 DEF Abstract!GrantExclusive
    <2> QED
      BY <1>2a, <2>4 DEF Abstract!Next
  <1>8. CASE lock # Exclusive
    <2>1. AbsSole' = AbsSole
      BY <1>2, <1>3, <1>4, <1>8 DEF AbsSole, Granted, LockTable
    <2>2. AbsSole[r] \in {None, h}
      BY <1>2, <1>8 DEF AbsSole, Conflicts
    <2>3. Abstract!GrantShared(h, r)
      BY <1>6, <2>1, <2>2 DEF Abstract!GrantShared, AbsLevel, AbsSole
    <2> QED
      BY <1>2a, <2>3 DEF Abstract!Next
  <1> QED
    BY <1>7, <1>8

\* A release of the registry is one of ViLock.
LEMMA ReleaseRefines ==
  ASSUME TableInv, NEW t \in Tasks, NEW r \in Resources, Release(t, r)
  PROVE  Abstract!Next
  <1> USE ConstantsAssumption DEF ConstantsAssumption
  <1> DEFINE h == HolderOf[t]
             tb == tables[r]
  <1>1. h \in Holders /\ tb \in LockTable /\ WellFormed(tb) /\ Holds(tb, h)
    BY DEF TableInv, TypeOK, TablesWellFormed, Release
  <1>2. tables' = [tables EXCEPT ![r] = Released(tb, h)]
        /\ tables \in [Resources -> LockTable]
    BY DEF Release, TableInv, TypeOK
  <1> HIDE DEF h
  <1>3. \A q \in Resources, k \in Holders :
          Level(tables'[q], k) = IF q = r /\ k = h THEN Level(tb, h) - 1
                                                  ELSE Level(tables[q], k)
    <2> SUFFICES ASSUME NEW q \in Resources, NEW k \in Holders
                 PROVE  Level(tables'[q], k) = IF q = r /\ k = h THEN Level(tb, h) - 1
                                                  ELSE Level(tables[q], k)
      OBVIOUS
    <2>1. CASE q = r
      <3>1. tables'[q] = Released(tb, h)
        BY <1>1, <1>2, <2>1
      <3>2. Level(tb, k) \in Nat
        BY <1>1, HoldsIsLevel
      <3> QED
        BY <1>1, <2>1, <3>1, <3>2, ReleasedLevel
    <2>2. CASE q # r
      BY <1>1, <1>2, <2>2
    <2> QED
      BY <2>1, <2>2
  <1>4. AbsLevel' = [AbsLevel EXCEPT ![r][h] = @ - 1] /\ AbsLevel[r][h] > 0
    BY <1>1, <1>3, HoldsIsLevel DEF AbsLevel
  <1>5. \/ AbsSole' = AbsSole /\ (AbsSole[r] = h => AbsLevel[r][h] > 1)
        \/ AbsSole[r] = h /\ AbsSole' = [AbsSole EXCEPT ![r] = None]
    <2>1. CASE tb.exclusive # h
      <3>1. Released(tb, h).exclusive = tb.exclusive
        BY <1>1, <2>1 DEF Released, WithShared, LockTable
      <3> QED
        BY <1>1, <1>2, <2>1, <3>1 DEF AbsSole
    <2>2. CASE tb.exclusive = h /\ tb.depth = 1
      <3>1. Released(tb, h).exclusive = None
        BY <1>1, <2>2 DEF Released, LockTable
      <3> QED
        BY <1>1, <1>2, <2>2, <3>1 DEF AbsSole
    <2>3. CASE tb.exclusive = h /\ tb.depth # 1
      <3>1. Released(tb, h).exclusive = tb.exclusive
        BY <1>1, <2>3 DEF Released, LockTable
      <3>2. Level(tb, h) > 1
        BY <1>1, <2>3 DEF Level, WellFormed, LockTable
      <3>3. AbsSole' = AbsSole
        BY <1>1, <1>2, <3>1 DEF AbsSole
      <3> QED
        BY <1>1, <3>2, <3>3 DEF AbsLevel
    <2> QED
      BY <2>1, <2>2, <2>3
  <1>6. Abstract!Release(h, r)
    BY <1>4, <1>5 DEF Abstract!Release, AbsLevel, AbsSole
  <1> QED
    BY <1>1, <1>6 DEF Abstract!Next

\* The end of a session is one of ViLock.
LEMMA ReleaseAllRefines ==
  ASSUME TableInv, NEW t \in Tasks, ReleaseAll(t)
  PROVE  Abstract!Next
  <1> USE ConstantsAssumption DEF ConstantsAssumption
  <1> DEFINE h == HolderOf[t]
  <1>1. h \in Holders /\ tables \in [Resources -> LockTable]
        /\ \A r \in Resources : WellFormed(tables[r])
    BY DEF TableInv, TypeOK, TablesWellFormed
  <1>2. tables' = [r \in Resources |-> AllReleased(tables[r], h)]
    BY DEF ReleaseAll
  <1> HIDE DEF h
  <1>3. AbsLevel' = [r \in Resources |-> [AbsLevel[r] EXCEPT ![h] = 0]]
    <2>1. \A r \in Resources, k \in Holders :
            Level(tables'[r], k) = IF k = h THEN 0 ELSE Level(tables[r], k)
      BY <1>1, <1>2, AllReleasedLevel
    <2> QED
      BY <1>1, <2>1 DEF AbsLevel
  <1>4. \A r \in Resources : AllReleased(tables[r], h).exclusive =
          IF tables[r].exclusive = h THEN None ELSE tables[r].exclusive
    BY <1>1 DEF AllReleased, WithShared, LockTable
  <1>5. AbsSole' = [r \in Resources |-> IF AbsSole[r] = h THEN None ELSE AbsSole[r]]
    BY <1>1, <1>2, <1>4 DEF AbsSole
  <1>6. Abstract!ReleaseAll(h)
    BY <1>3, <1>5 DEF Abstract!ReleaseAll, AbsLevel, AbsSole
  <1> QED
    BY <1>1, <1>6 DEF Abstract!Next

\* Refinement: seen through the levels, a registry shared by any number of tasks
\* behaves as ViLock, which has neither tables, names nor waits.
THEOREM RegistryImplementsViLock == Spec => ImplementsViLock
  <1>1. Init => Abstract!Init
    BY ConstantsAssumption
       DEF ConstantsAssumption, Init, Abstract!Init, EmptyTable, Level
  <1>2. TableInv /\ [Next]_vars => [Abstract!Next]_(Abstract!vars)
    <2> SUFFICES ASSUME TableInv, [Next]_vars
                 PROVE  Abstract!Next \/ UNCHANGED Abstract!vars
      OBVIOUS
    <2>1. ASSUME UNCHANGED tables
          PROVE  UNCHANGED Abstract!vars
      BY <2>1 DEF Abstract!vars
    <2>2. CASE \E t \in Tasks : Grant(t)
      BY <2>2, GrantRefines
    <2>3. CASE \E t \in Tasks, r \in Resources : Release(t, r)
      BY <2>3, ReleaseRefines
    <2>4. CASE \E t \in Tasks : ReleaseAll(t)
      BY <2>4, ReleaseAllRefines
    <2>5. \/ \E t \in Tasks : Grant(t)
          \/ \E t \in Tasks, r \in Resources : Release(t, r)
          \/ \E t \in Tasks : ReleaseAll(t)
          \/ UNCHANGED tables
      BY DEF Next, Proceed, Request, WaitForAccess, Start, Subscribe, Access, Fail, GiveUp,
             Park, Wake, Notify, Expire, vars
    <2> QED
      BY <2>1, <2>2, <2>3, <2>4, <2>5
  <1> QED
    BY <1>1, <1>2, TableInvInit, TableInvStep, PTL DEF Spec, ImplementsViLock, Abstract!Spec

-----------------------------------------------------------------------------
(* A lock is lost only at its holder's own hand.                           *)

\* No step lowers the level of a holder that is not releasing.
LEMMA LevelsFallOnlyByRelease ==
  ASSUME TableInv, Next, NEW r \in Resources, NEW h \in Holders,
         Level(tables'[r], h) < Level(tables[r], h)
  PROVE  \E t \in Tasks : HolderOf[t] = h /\ pc[t] = "idle" /\ pc'[t] = "notify"
  <1> USE ConstantsAssumption DEF ConstantsAssumption
  <1>1. /\ tables \in [Resources -> LockTable]
        /\ \A q \in Resources : WellFormed(tables[q])
        /\ pc \in [Tasks -> PCs]
        /\ HolderOf \in [Tasks -> Holders]
    BY DEF TableInv, TypeOK, TablesWellFormed
  <1>2. Level(tables[r], h) \in Nat
    BY <1>1, HoldsIsLevel
  <1>3. tables'[r] # tables[r]
    BY <1>2
  <1>4. ASSUME NEW t \in Tasks, Grant(t)
        PROVE  FALSE
    <2>1. call[t] \in Calls
      BY <1>4 DEF Grant, TableInv, TypeOK, Waiting
    <2>2. /\ call[t].res \in Resources /\ call[t].lock \in LockStrings
          /\ ~Conflicts(tables[call[t].res], HolderOf[t], call[t].lock)
      BY <1>4, <2>1 DEF Calls, Grant, Satisfied
    <2>3. call[t].res = r /\ tables'[r] = Granted(tables[r], HolderOf[t], call[t].lock)
      BY <1>1, <1>3, <1>4, <2>2 DEF Grant
    <2>4. Level(tables'[r], h) = Level(tables[r], h) + (IF h = HolderOf[t] THEN 1 ELSE 0)
      BY <1>1, <2>2, <2>3, GrantedLevel
    <2> QED
      BY <1>2, <2>4
  <1>5. ASSUME NEW t \in Tasks, NEW q \in Resources, Release(t, q)
        PROVE  HolderOf[t] = h /\ pc[t] = "idle" /\ pc'[t] = "notify"
    <2>1. q = r /\ tables'[r] = Released(tables[r], HolderOf[t]) /\ Holds(tables[r], HolderOf[t])
      BY <1>1, <1>3, <1>5 DEF Release
    <2>2. Level(tables'[r], h) = Level(tables[r], h) - (IF h = HolderOf[t] THEN 1 ELSE 0)
      BY <1>1, <2>1, ReleasedLevel
    <2>3. HolderOf[t] = h
      BY <1>2, <2>2
    <2> QED
      BY <1>1, <1>5, <2>3 DEF Release, Goto
  <1>6. ASSUME NEW t \in Tasks, ReleaseAll(t)
        PROVE  HolderOf[t] = h /\ pc[t] = "idle" /\ pc'[t] = "notify"
    <2>1. tables'[r] = AllReleased(tables[r], HolderOf[t])
      BY <1>6 DEF ReleaseAll
    <2>2. Level(tables'[r], h) = IF h = HolderOf[t] THEN 0 ELSE Level(tables[r], h)
      BY <1>1, <2>1, AllReleasedLevel
    <2>3. HolderOf[t] = h
      BY <1>2, <2>2
    <2> QED
      BY <1>1, <1>6, <2>3 DEF ReleaseAll, Goto
  <1>7. \/ \E t \in Tasks : Grant(t)
        \/ \E t \in Tasks, q \in Resources : Release(t, q)
        \/ \E t \in Tasks : ReleaseAll(t)
        \/ UNCHANGED tables
    BY DEF Next, Proceed, Request, WaitForAccess, Start, Subscribe, Access, Fail, GiveUp,
           Park, Wake, Notify, Expire
  <1> QED
    BY <1>3, <1>4, <1>5, <1>6, <1>7

\* No grant, timeout or release of one session takes a level from another.
THEOREM LocksAreNeverTaken == Spec => OnlyTheHolderReleases
  <1>1. TableInv /\ [Next]_vars =>
          [\A r \in Resources, h \in Holders :
             Level(tables'[r], h) < Level(tables[r], h) =>
               \E t \in Tasks : HolderOf[t] = h /\ pc[t] = "idle" /\ pc'[t] = "notify"]_vars
    BY LevelsFallOnlyByRelease
  <1> QED
    BY <1>1, TableInvInit, TableInvStep, PTL DEF Spec, OnlyTheHolderReleases

-----------------------------------------------------------------------------
(* The promise of ViLock, read off the registry's tables.                  *)

\* While a session owns a resource exclusively it has a level there and no other
\* session has, for any number of sessions, tasks, names and nesting levels.
THEOREM ExclusiveOwnersAreAlone == Spec => []ExclusiveExcludes
  <1>1. TableInv => ExclusiveExcludes
    <2> SUFFICES ASSUME TableInv, NEW r \in Resources, tables[r].exclusive # None
                 PROVE  /\ Level(tables[r], tables[r].exclusive) > 0
                        /\ \A k \in Holders \ {tables[r].exclusive} : Level(tables[r], k) = 0
      BY DEF ExclusiveExcludes, Abstract!SoleOwnership, TableInv, TypeOK, LockTable
    <2>1. tables[r] \in LockTable /\ WellFormed(tables[r])
      BY DEF TableInv, TypeOK, TablesWellFormed
    <2> QED
      BY <2>1 DEF WellFormed, Level, LockTable
  <1> QED
    BY <1>1, TableInvInit, TableInvStep, PTL DEF Spec
=============================================================================
