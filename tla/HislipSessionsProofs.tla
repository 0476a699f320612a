----------------------- MODULE HislipSessionsProofs -----------------------
(***************************************************************************)
(* Proofs about HislipSessions, for any sessions, ids and limits.  That an *)
(* id names its session is not inductive by itself: an id must also stay   *)
(* taken after the session has ended, until the detached task has removed  *)
(* the entry, and an entry must not be found under a second id.            *)
(***************************************************************************)
EXTENDS HislipSessions, WellFoundedInduction, TLAPS

-----------------------------------------------------------------------------
(* The inductive invariant.                                                *)

\* The sync task has inserted its entry and the entry has not been removed.
Filed(s) == Live(s) \/ sync[s] \in {"dropped", "lost"}
Active(s) == async[s] \in {"binding", "reading", "locking", "clearing"}

\* The registry and the sessions agree: the id of a session whose entry is filed
\* names it until the detached task has removed the entry, and every entry is that
\* of a session with this id.
RegistryAgrees ==
  /\ \A s \in Sessions : Filed(s) => id[s] \in Ids /\ registry[id[s]] = s
  /\ \A i \in Ids : registry[i] # None => id[registry[i]] = i /\ Filed(registry[i])

\* async_bound is set before an entry is handed to an async task and never reset, so
\* no entry is handed out twice.
BoundOnce ==
  /\ \A s \in Sessions : entry[s] # None => bound[entry[s]] /\ id[entry[s]] \in Ids
  /\ \A s, t \in Sessions : entry[s] # None /\ entry[s] = entry[t] => s = t

SessionInv == TypeOK /\ RegistryAgrees /\ BoundOnce

\* The lowest free id is a free id.
LEMMA LowestFreeId ==
  ASSUME FreeIds # {}
  PROVE  Min(FreeIds) \in FreeIds
  <1>1. FreeIds \subseteq Nat
    BY ConstantsAssumption DEF FreeIds, ConstantsAssumption
  <1> DEFINE below == {yx \in Nat \X Nat : yx[1] < yx[2]}
  <1>0. IsWellFoundedOn(below, Nat)
    BY NatLessThanWellFounded DEF OpToRel
  <1> HIDE DEF below
  <1>2. PICK x \in FreeIds : \A y \in FreeIds : ~ (<<y, x>> \in below)
    BY <1>1, <1>0, WFMin
  <1>3. \A y \in FreeIds : x =< y
    <2> TAKE y \in FreeIds
    <2>1. x \in Nat /\ y \in Nat
      BY <1>1
    <2>2. ~ (y < x)
      BY <1>2, <2>1 DEF below
    <2> QED
      BY <2>1, <2>2
  <1> QED
    BY <1>2, <1>3 DEF Min

\* Holds in every initial state.
LEMMA SessionInvInit == Init => SessionInv
  <1> SUFFICES ASSUME Init PROVE SessionInv
    OBVIOUS
  <1> QED
    BY DEF Init, SessionInv, TypeOK, RegistryAgrees, BoundOnce, Filed, Live,
           SyncStates, AsyncStates, Locks!Init

\* The locks keep their type through whatever an action does to them.
LEMMA LocksTyped ==
  ASSUME TypeOK, NEW i \in Ids,
         \/ UNCHANGED <<level, sole>>
         \/ Locks!GrantExclusive(i, Instrument) \/ Locks!GrantShared(i, Instrument)
         \/ Locks!Release(i, Instrument) \/ Locks!ReleaseAll(i)
  PROVE  level' \in [{Instrument} -> [Ids -> Nat]] /\ sole' \in [{Instrument} -> Ids \cup {None}]
  <1> USE DEF TypeOK
  <1>1. CASE UNCHANGED <<level, sole>>
    BY <1>1
  <1>2. CASE Locks!GrantExclusive(i, Instrument)
    BY <1>2 DEF Locks!GrantExclusive
  <1>3. CASE Locks!GrantShared(i, Instrument)
    BY <1>3 DEF Locks!GrantShared
  <1>4. CASE Locks!Release(i, Instrument)
    BY <1>4 DEF Locks!Release
  <1>5. CASE Locks!ReleaseAll(i)
    BY <1>5 DEF Locks!ReleaseAll
  <1> QED
    BY <1>1, <1>2, <1>3, <1>4, <1>5

\* Every step of a task or a client preserves it.
LEMMA SessionInvStep == SessionInv /\ [Next]_vars => SessionInv'
  <1> SUFFICES ASSUME SessionInv, [Next]_vars PROVE SessionInv'
    OBVIOUS
  <1> USE ConstantsAssumption DEF ConstantsAssumption
  <1> USE DEF SessionInv, RegistryAgrees, BoundOnce, Filed, Live
  <1>1. ASSUME NEW s \in Sessions, Initialize(s) PROVE SessionInv'
    <2> DEFINE i == Min(FreeIds)
    <2>1. i \in Ids /\ registry[i] = None
      BY <1>1, LowestFreeId DEF Initialize, FreeIds
    <2>2. /\ sync[s] = "none" /\ sync' = [sync EXCEPT ![s] = "registered"]
          /\ registry' = [registry EXCEPT ![i] = s] /\ id' = [id EXCEPT ![s] = i]
          /\ UNCHANGED <<async, entry, bound, level, sole, orderly>>
      BY <1>1 DEF Initialize, SyncGoto
    <2> HIDE DEF i
    <2>3. TypeOK'
      BY <2>1, <2>2 DEF TypeOK, SyncStates
    <2>4. RegistryAgrees'
      BY <2>1, <2>2 DEF TypeOK, SyncStates
    <2>5. BoundOnce'
      BY <2>1, <2>2 DEF TypeOK
    <2> QED
      BY <2>3, <2>4, <2>5
  \* Moves of the sync task that keep its entry filed or unfiled.
  <1>2. ASSUME NEW s \in Sessions,
               \/ RefuseInitialize(s) \/ EnterSyncLoop(s) \/ LoseConnection(s)
               \/ ReceiveMessage(s) \/ GainAccess(s) \/ StartIo(s) \/ EndIo(s)
        PROVE  SessionInv'
    <2>1. PICK x \in SyncStates :
            /\ sync' = [sync EXCEPT ![s] = x]
            /\ sync[s] = "none" => x = "refused"
            /\ sync[s] # "none" =>
                 x \in {"reading", "waiting", "ready", "io", "lost"} /\ Filed(s)
            /\ UNCHANGED <<registry, id, async, entry, bound, level, sole, orderly>>
      BY <1>2 DEF RefuseInitialize, EnterSyncLoop, LoseConnection, ReceiveMessage,
                  GainAccess, StartIo, EndIo, SyncGoto, SyncStates
    <2>2. TypeOK'
      BY <2>1 DEF TypeOK, SyncStates
    <2> QED
      BY <2>1, <2>2 DEF TypeOK, SyncStates
  <1>3. ASSUME NEW s \in Sessions, EndSync(s) PROVE SessionInv'
    <2>1. level' \in [{Instrument} -> [Ids -> Nat]] /\ sole' \in [{Instrument} -> Ids \cup {None}]
      BY <1>3, LocksTyped DEF EndSync, TypeOK
    <2>2. TypeOK'
      BY <1>3, <2>1 DEF EndSync, SyncGoto, TypeOK, SyncStates
    <2> QED
      BY <1>3, <2>2 DEF EndSync, SyncGoto, TypeOK, SyncStates
  <1>4. ASSUME NEW s \in Sessions, RemoveEntry(s) PROVE SessionInv'
    <2>1. TypeOK'
      BY <1>4 DEF RemoveEntry, SyncGoto, TypeOK, SyncStates
    <2> QED
      BY <1>4, <2>1 DEF RemoveEntry, SyncGoto, TypeOK, SyncStates
  <1>5. ASSUME NEW s \in Sessions, AsyncInitialize(s) PROVE SessionInv'
    <2> DEFINE e == registry[id[s]]
    <2>1. id[s] \in Ids
      BY <1>5 DEF AsyncInitialize, MayOpenAsync, TypeOK
    <2>2. e # None
      BY <1>5 DEF AsyncInitialize
    <2>3. ~bound[e]
      BY <1>5, Zenon DEF AsyncInitialize
    <2>4. e \in Sessions /\ id[e] \in Ids
      <3>1. registry[id[s]] \in Sessions \cup {None}
        BY <2>1 DEF TypeOK
      <3> QED
        BY <2>1, <2>2, <3>1
    <2>5. /\ bound' = [bound EXCEPT ![e] = TRUE] /\ entry' = [entry EXCEPT ![s] = e]
          /\ async' = [async EXCEPT ![s] = "binding"]
          /\ UNCHANGED <<registry, id, sync, level, sole, orderly>>
      BY <1>5 DEF AsyncInitialize, AsyncGoto
    <2> HIDE DEF e
    <2>6. TypeOK'
      BY <2>4, <2>5 DEF TypeOK, AsyncStates
    <2>7. BoundOnce'
      BY <2>3, <2>4, <2>5 DEF TypeOK
    <2>8. RegistryAgrees'
      BY <2>5
    <2> QED
      BY <2>6, <2>7, <2>8 DEF SessionInv
  \* Moves of the async task.
  <1>6. ASSUME NEW s \in Sessions,
               \/ RefuseAsync(s) \/ EnterAsyncLoop(s) \/ RequestLock(s) \/ GrantLock(s)
               \/ RefuseLock(s) \/ ReleaseLock(s) \/ AsyncDeviceClear(s) \/ DeviceCleared(s)
               \/ EndAsync(s)
        PROVE  SessionInv'
    <2>1. PICK x \in AsyncStates :
            /\ async' = [async EXCEPT ![s] = x]
            /\ x # "ended" => Active(s) /\ x # "none"
            /\ UNCHANGED <<registry, id, sync, entry, bound, orderly>>
      BY <1>6 DEF RefuseAsync, EnterAsyncLoop, RequestLock, GrantLock, RefuseLock, ReleaseLock,
                  AsyncDeviceClear, DeviceCleared, EndAsync, AsyncGoto, AsyncStates, Active, TypeOK
    <2>2. level' \in [{Instrument} -> [Ids -> Nat]] /\ sole' \in [{Instrument} -> Ids \cup {None}]
      <3>1. CASE GrantLock(s) \/ ReleaseLock(s)
        <4>1. Holder(s) \in Ids
          BY <3>1 DEF GrantLock, ReleaseLock, Holder, TypeOK
        <4> QED
          BY <3>1, <4>1, LocksTyped DEF GrantLock, ReleaseLock
      <3>2. CASE ~(GrantLock(s) \/ ReleaseLock(s))
        BY <1>6, <3>2 DEF RefuseAsync, EnterAsyncLoop, RequestLock, RefuseLock, AsyncDeviceClear,
                          DeviceCleared, EndAsync, TypeOK
      <3> QED
        BY <3>1, <3>2
    <2>3. TypeOK'
      BY <2>1, <2>2 DEF TypeOK, AsyncStates, Active
    <2> QED
      BY <2>1, <2>3
  <1>7. CASE UNCHANGED vars
    BY <1>7 DEF vars, TypeOK
  <1> QED
    BY <1>1, <1>2, <1>3, <1>4, <1>5, <1>6, <1>7 DEF Next, SyncTask, AsyncTask, Client

\* The registry, the sessions and their async tasks agree in every reachable state.
LEMMA SessionInvariant == Spec => []SessionInv
  BY SessionInvInit, SessionInvStep, PTL DEF Spec

\* Every variable keeps its type: in particular, wherever the code unwraps an id
\* or an entry there is one.
THEOREM SessionsTyped == Spec => []TypeOK
  BY SessionInvariant, PTL DEF SessionInv

\* The id a session was given names it for as long as it is served, although ids are
\* reused and the entry of an earlier session is removed by a detached task at any
\* later time.
THEOREM IdsNameTheirSessions == Spec => []IdNamesItsSession
  <1>1. SessionInv => IdNamesItsSession
    BY DEF SessionInv, RegistryAgrees, IdNamesItsSession, Filed
  <1> QED
    BY <1>1, SessionInvariant, PTL

\* async_bound lets one async channel drive a session, whichever connections quote
\* its id and whenever.
THEOREM SessionsHaveOneAsync == Spec => []OneAsyncPerSession
  <1>1. SessionInv => OneAsyncPerSession
    BY DEF SessionInv, BoundOnce, OneAsyncPerSession
  <1> QED
    BY <1>1, SessionInvariant, PTL

-----------------------------------------------------------------------------
(* Orderly clients.                                                        *)

Serving == {"reading", "waiting", "ready", "io"}

\* Before InitializeResponse has arrived no async connection names the id.
AsyncComesLater ==
  \A s \in Sessions : sync[s] \in {"none", "registered", "refused", "lost"} => async[s] = "none"

\* An async task runs beside its own session's sync task.
AsyncEndsFirst == \A s \in Sessions : Active(s) => sync[s] \in Serving /\ entry[s] = s

\* Whoever holds a lock is registered and past the InitializeResponse, whose failure
\* would forget the locks.
HoldersAreServed ==
  \A i \in Ids : level[Instrument][i] > 0 => registry[i] # None /\ sync[registry[i]] \in Serving

OrderlyInv == AsyncComesLater /\ (orderly => AsyncEndsFirst /\ HoldersAreServed)

\* Nobody has a lock or an async task at first.
LEMMA OrderlyInvInit == Init => OrderlyInv
  <1> SUFFICES ASSUME Init PROVE OrderlyInv
    OBVIOUS
  <1> QED
    BY DEF Init, OrderlyInv, AsyncComesLater, AsyncEndsFirst, HoldersAreServed, Active, Serving,
           Locks!Init

\* The levels of other ids stay as they are, whatever the lock registry does for i, and
\* only a grant raises i's.
LEMMA OtherLevels ==
  ASSUME TypeOK, NEW i \in Ids, NEW j \in Ids
  PROVE  /\ Locks!ReleaseAll(i) => level'[Instrument][j] = IF j = i THEN 0 ELSE level[Instrument][j]
         /\ Locks!Release(i, Instrument) =>
              level'[Instrument][j] = IF j = i THEN level[Instrument][j] - 1 ELSE level[Instrument][j]
         /\ Locks!GrantExclusive(i, Instrument) \/ Locks!GrantShared(i, Instrument) =>
              level'[Instrument][j] = IF j = i THEN level[Instrument][j] + 1 ELSE level[Instrument][j]
  BY DEF TypeOK, Locks!ReleaseAll, Locks!Release, Locks!GrantExclusive, Locks!GrantShared

\* Every step preserves what orderly clients see to.
LEMMA OrderlyInvStep == SessionInv /\ OrderlyInv /\ [Next]_vars => OrderlyInv'
  <1> SUFFICES ASSUME SessionInv, OrderlyInv, [Next]_vars PROVE OrderlyInv'
    OBVIOUS
  <1> USE ConstantsAssumption DEF ConstantsAssumption
  <1> USE DEF OrderlyInv, AsyncComesLater, AsyncEndsFirst, HoldersAreServed, Active, Serving
  <1>0. TypeOK /\ RegistryAgrees
    BY DEF SessionInv
  <1>1. ASSUME NEW s \in Sessions, Initialize(s) PROVE OrderlyInv'
    <2> DEFINE i == Min(FreeIds)
    <2>1. i \in Ids /\ registry[i] = None
      BY <1>1, LowestFreeId DEF Initialize, FreeIds
    <2>2. /\ sync[s] = "none" /\ sync' = [sync EXCEPT ![s] = "registered"]
          /\ registry' = [registry EXCEPT ![i] = s]
          /\ UNCHANGED <<async, entry, bound, level, sole, orderly>>
      BY <1>1 DEF Initialize, SyncGoto
    <2> HIDE DEF i
    <2> QED
      BY <1>0, <2>1, <2>2 DEF TypeOK
  <1>2. ASSUME NEW s \in Sessions,
               \/ RefuseInitialize(s) \/ EnterSyncLoop(s) \/ LoseConnection(s)
               \/ ReceiveMessage(s) \/ GainAccess(s) \/ StartIo(s) \/ EndIo(s)
        PROVE  OrderlyInv'
    <2>1. PICK x \in SyncStates :
            /\ sync' = [sync EXCEPT ![s] = x]
            /\ x \in Serving \/ sync[s] \in {"none", "registered"}
            /\ UNCHANGED <<registry, id, async, entry, bound, level, sole, orderly>>
      BY <1>2 DEF RefuseInitialize, EnterSyncLoop, LoseConnection, ReceiveMessage,
                  GainAccess, StartIo, EndIo, SyncGoto, SyncStates
    <2> QED
      BY <1>0, <2>1 DEF TypeOK
  <1>3. ASSUME NEW s \in Sessions, EndSync(s) PROVE OrderlyInv'
    <2>1. sync[s] \in {"reading", "io"} /\ id[s] \in Ids
      BY <1>0, <1>3 DEF EndSync, TypeOK
    <2>2. \A j \in Ids : level'[Instrument][j] = IF j = id[s] THEN 0 ELSE level[Instrument][j]
      <3>1. Locks!ReleaseAll(id[s])
        BY <1>3 DEF EndSync
      <3> QED
        BY <1>0, <2>1, <3>1 DEF TypeOK, Locks!ReleaseAll
    <2>3. /\ sync' = [sync EXCEPT ![s] = "dropped"]
          /\ orderly => async[s] \in {"none", "ended"}
          /\ UNCHANGED <<registry, id, async, entry, bound, orderly>>
      BY <1>3 DEF EndSync, SyncGoto
    <2>4. AsyncComesLater' /\ (orderly => AsyncEndsFirst')
      BY <1>0, <2>1, <2>3 DEF TypeOK
    <2>5. ASSUME orderly, NEW j \in Ids, level'[Instrument][j] > 0
          PROVE  registry'[j] # None /\ sync'[registry'[j]] \in Serving
      <3>1. j # id[s] /\ level[Instrument][j] > 0
        BY <2>2, <2>5
      <3>2. registry[j] # None /\ sync[registry[j]] \in Serving
        BY <2>5, <3>1
      <3>3. registry[j] \in Sessions /\ registry[j] # s
        BY <1>0, <3>1, <3>2 DEF TypeOK, RegistryAgrees
      <3> QED
        BY <1>0, <2>3, <3>2, <3>3 DEF TypeOK
    <2> QED
      BY <2>3, <2>4, <2>5
  <1>4. ASSUME NEW s \in Sessions, RemoveEntry(s) PROVE OrderlyInv'
    <2>1. id[s] \in Ids /\ registry[id[s]] = s /\ sync[s] = "dropped"
      BY <1>0, <1>4 DEF RemoveEntry, RegistryAgrees, Filed
    <2>2. /\ sync' = [sync EXCEPT ![s] = "closed"] /\ registry' = [registry EXCEPT ![id[s]] = None]
          /\ UNCHANGED <<id, async, entry, bound, level, sole, orderly>>
      BY <1>4 DEF RemoveEntry, SyncGoto
    <2>3. AsyncComesLater' /\ (orderly => AsyncEndsFirst')
      BY <1>0, <2>1, <2>2 DEF TypeOK
    <2>4. orderly => HoldersAreServed'
      BY <1>0, <2>1, <2>2 DEF TypeOK, RegistryAgrees
    <2> QED
      BY <2>2, <2>3, <2>4
  <1>5. ASSUME NEW s \in Sessions, AsyncInitialize(s) PROVE OrderlyInv'
    <2>1. /\ async' = [async EXCEPT ![s] = "binding"]
          /\ entry' = [entry EXCEPT ![s] = registry[id[s]]]
          /\ UNCHANGED <<registry, id, sync, level, sole, orderly>>
      BY <1>5 DEF AsyncInitialize, AsyncGoto
    <2>2. sync[s] \in Serving \/ (~orderly /\ sync[s] \in {"dropped", "closed"})
      BY <1>5 DEF AsyncInitialize, MayOpenAsync
    <2>3. orderly => registry[id[s]] = s
      BY <1>0, <2>2 DEF RegistryAgrees, Filed, Live
    <2>4. AsyncComesLater'
      BY <1>0, <2>1, <2>2 DEF TypeOK
    <2>5. orderly => AsyncEndsFirst'
      BY <1>0, <2>1, <2>2, <2>3 DEF TypeOK
    <2> QED
      BY <2>1, <2>4, <2>5
  <1>6. ASSUME NEW s \in Sessions,
               \/ RefuseAsync(s) \/ EnterAsyncLoop(s) \/ RequestLock(s) \/ GrantLock(s)
               \/ RefuseLock(s) \/ ReleaseLock(s) \/ AsyncDeviceClear(s) \/ DeviceCleared(s)
               \/ EndAsync(s)
        PROVE  OrderlyInv'
    <2>1. PICK x \in AsyncStates :
            /\ async' = [async EXCEPT ![s] = x]
            /\ x = "ended" \/ Active(s)
            /\ Active(s) \/ MayOpenAsync(s)
            /\ UNCHANGED <<registry, id, sync, entry, bound, orderly>>
      BY <1>0, <1>6 DEF RefuseAsync, EnterAsyncLoop, RequestLock, GrantLock, RefuseLock,
           ReleaseLock, AsyncDeviceClear, DeviceCleared, EndAsync, AsyncGoto, AsyncStates, TypeOK
    <2>2. sync[s] \notin {"none", "registered", "refused", "lost"}
      BY <2>1 DEF MayOpenAsync
    <2>3. AsyncComesLater' /\ (orderly => AsyncEndsFirst')
      BY <1>0, <2>1, <2>2 DEF TypeOK
    <2>4. ASSUME orderly PROVE HoldersAreServed'
      <3>1. CASE GrantLock(s) \/ ReleaseLock(s)
        <4>1. Active(s) /\ entry[s] = s /\ sync[s] \in Serving
          BY <2>4, <3>1 DEF GrantLock, ReleaseLock
        <4>2. Holder(s) = id[s] /\ id[s] \in Ids /\ registry[id[s]] = s
          BY <1>0, <4>1 DEF Holder, RegistryAgrees, Filed, Live
        <4>3. \A j \in Ids : level'[Instrument][j] > 0 => level[Instrument][j] > 0 \/ j = id[s]
          BY <1>0, <3>1, <4>2, OtherLevels DEF GrantLock, ReleaseLock, TypeOK
        <4> QED
          BY <1>0, <2>1, <2>4, <4>1, <4>2, <4>3 DEF TypeOK
      <3>2. CASE ~(GrantLock(s) \/ ReleaseLock(s))
        <4>1. UNCHANGED level
          BY <1>6, <3>2 DEF RefuseAsync, EnterAsyncLoop, RequestLock, RefuseLock, AsyncDeviceClear,
                            DeviceCleared, EndAsync
        <4> QED
          BY <2>1, <2>4, <4>1
      <3> QED
        BY <3>1, <3>2
    <2> QED
      BY <2>1, <2>3, <2>4
  <1>7. CASE UNCHANGED vars
    BY <1>7 DEF vars
  <1> QED
    BY <1>1, <1>2, <1>3, <1>4, <1>5, <1>6, <1>7 DEF Next, SyncTask, AsyncTask, Client

\* With orderly clients, async tasks end first and locks are those of served sessions.
LEMMA OrderlyInvariant == Spec => [](SessionInv /\ OrderlyInv)
  BY SessionInvInit, SessionInvStep, OrderlyInvInit, OrderlyInvStep, PTL DEF Spec

\* With orderly clients every lock is that of a session being served: none survives the
\* guard's release_all, or is met by the session that gets the id next.
THEOREM OrderlyLocksGo == Spec => []OrderlySessionsLeaveNoLock
  <1>1. SessionInv /\ OrderlyInv => OrderlySessionsLeaveNoLock
    <2> SUFFICES ASSUME SessionInv, OrderlyInv, orderly, NEW i \in Ids, level[Instrument][i] > 0
                 PROVE  \E s \in Sessions : id[s] = i /\ Live(s)
      BY DEF OrderlySessionsLeaveNoLock, LocksGoWithTheSession
    <2>1. registry[i] # None /\ sync[registry[i]] \in Serving
      BY DEF OrderlyInv, HoldersAreServed
    <2>2. registry[i] \in Sessions /\ id[registry[i]] = i
      BY <2>1 DEF SessionInv, RegistryAgrees, TypeOK
    <2> QED
      BY <2>1, <2>2 DEF Serving, Live
  <1> QED
    BY <1>1, OrderlyInvariant, PTL

\* A session that stays alive loses a level of its lock only in a ReleaseLock step of some
\* async task, never to the end of another session; with orderly clients that task is
\* the session's own.
THEOREM LiveSessionsKeepLocks == Spec => LiveSessionsKeepTheirLocks
  <1>1. SessionInv /\ OrderlyInv /\ [Next]_vars => [KeepsItsLock]_vars
    <2> SUFFICES ASSUME SessionInv, OrderlyInv, Next, NEW s \in Sessions,
                        Live(s), Live(s)', level'[Instrument][id[s]] < level[Instrument][id[s]]
                 PROVE  \E t \in Sessions : ReleaseLock(t) /\ (orderly => entry[t] = s)
      BY DEF KeepsItsLock
    <2>1. TypeOK /\ RegistryAgrees /\ id[s] \in Ids /\ registry[id[s]] = s
      BY DEF SessionInv, RegistryAgrees, Filed
    <2>2. level' # level
      BY <2>1 DEF TypeOK
    <2>3. PICK t \in Sessions : EndSync(t) \/ GrantLock(t) \/ ReleaseLock(t)
      BY <2>2 DEF Next, SyncTask, AsyncTask, Client, Initialize, RefuseInitialize, EnterSyncLoop,
           LoseConnection, ReceiveMessage, GainAccess, StartIo, EndIo, RemoveEntry,
           AsyncInitialize, RefuseAsync, EnterAsyncLoop, RequestLock, RefuseLock, AsyncDeviceClear,
           DeviceCleared, EndAsync
    <2>4. CASE EndSync(t)
      <3>1. id[t] \in Ids /\ registry[id[t]] = t
        BY <2>1, <2>4 DEF EndSync, RegistryAgrees, Filed, Live
      <3>2. id[s] = id[t]
        BY <2>1, <2>4, <3>1, OtherLevels DEF EndSync, TypeOK
      <3> QED
        BY <2>1, <2>4, <3>1, <3>2 DEF EndSync, SyncGoto, Live, TypeOK
    <2>5. CASE GrantLock(t)
      <3>1. Holder(t) \in Ids
        BY <2>1, <2>5 DEF GrantLock, Holder, TypeOK
      <3> QED
        BY <2>1, <2>5, <3>1, OtherLevels DEF GrantLock, TypeOK
    <2>6. CASE ReleaseLock(t)
      <3>1. ASSUME orderly PROVE entry[t] = s
        <4>1. entry[t] = t /\ sync[t] \in Serving
          BY <2>6, <3>1 DEF ReleaseLock, OrderlyInv, AsyncEndsFirst, Active
        <4>2. Holder(t) = id[t] /\ id[t] \in Ids /\ registry[id[t]] = t
          BY <2>1, <4>1 DEF Holder, RegistryAgrees, Filed, Live, Serving
        <4>3. id[s] = id[t]
          BY <2>1, <2>6, <4>2, OtherLevels DEF ReleaseLock, TypeOK
        <4> QED
          BY <2>1, <4>1, <4>2, <4>3
      <3> QED
        BY <2>6, <3>1
    <2> QED
      BY <2>3, <2>4, <2>5, <2>6
  <1> QED
    BY <1>1, OrderlyInvariant, PTL DEF Spec, LiveSessionsKeepTheirLocks
=============================================================================
