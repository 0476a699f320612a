-------------------------- MODULE HislipSessions --------------------------
(***************************************************************************)
(* The life of HiSLIP sessions, server/src/hislip/server.rs: a session is  *)
(* two TCP connections, each served by its own task, paired by an id from  *)
(* a registry of at most max_sessions entries.  The sync task registers    *)
(* the session and, when it ends, frees its locks and its id; the async    *)
(* task, which requests and releases the locks, has a life of its own.     *)
(*                                                                         *)
(* All sessions reach one instrument.  The lock registry appears through   *)
(* ViLock, the specification LockRegistry is proved to implement: a lock   *)
(* holder is an id, as in hislip_id, not a session.                        *)
(***************************************************************************)
EXTENDS Integers, FiniteSets, FiniteSetsExt

CONSTANTS
  Sessions,     \* client sessions, each a sync and an async connection
  Ids,          \* the even session ids, smallest first
  MaxSessions,  \* config.max_sessions
  Instrument,   \* the resource key every session locks under
  None,
  MaxLevel      \* bound: no lock is requested past this nesting level

ASSUME ConstantsAssumption ==
  /\ None \notin Sessions
  /\ None \notin Ids
  /\ Ids \subseteq Nat

VARIABLES
  registry,  \* id -> the session whose SessionEntry it names, or None
  id,        \* session -> the id it was given, or None
  sync,      \* where the sync connection's task is
  async,     \* where the async connection's task is
  entry,     \* session -> the session whose entry its async task holds
  bound,     \* SessionEntry::async_bound
  level,     \* the lock registry's state, see ViLock
  sole,
  orderly    \* chosen once: TRUE if clients close the async connection first
             \* and send no AsyncLock on it once the sync one is closed

vars == <<registry, id, sync, async, entry, bound, level, sole, orderly>>

Locks == INSTANCE ViLock WITH Holders <- Ids, Resources <- {Instrument}

\* The sync task: "registered" entry inserted, InitializeResponse unsent;
\* "reading" in sync_loop; "waiting" in wait_for_access; "ready" for the bus mutex;
\* "io" holding it;  "dropped" guard dropped, removal spawned; "closed" entry removed;
\* "lost" returned before the guard existed; "refused" never registered.
SyncStates == {"none", "registered", "reading", "waiting", "ready", "io",
               "dropped", "closed", "lost", "refused"}

\* The async task: "binding" flag set, response unsent; "locking" in request;
\* "clearing" waiting in AsyncDeviceClear.
AsyncStates == {"none", "binding", "reading", "locking", "clearing", "ended"}

TypeOK ==
  /\ registry \in [Ids -> Sessions \cup {None}]
  /\ id \in [Sessions -> Ids \cup {None}]
  /\ sync \in [Sessions -> SyncStates]
  /\ async \in [Sessions -> AsyncStates]
  /\ entry \in [Sessions -> Sessions \cup {None}]
  /\ bound \in [Sessions -> BOOLEAN]
  /\ level \in [{Instrument} -> [Ids -> Nat]]
  /\ sole \in [{Instrument} -> Ids \cup {None}]
  /\ orderly \in BOOLEAN
  /\ \A s \in Sessions :
       /\ sync[s] \notin {"none", "refused"} => id[s] \in Ids
       /\ async[s] \in {"binding", "reading", "locking", "clearing"} =>
            entry[s] \in Sessions /\ id[entry[s]] \in Ids

Init ==
  /\ registry = [i \in Ids |-> None]
  /\ id = [s \in Sessions |-> None]
  /\ sync = [s \in Sessions |-> "none"]
  /\ async = [s \in Sessions |-> "none"]
  /\ entry = [s \in Sessions |-> None]
  /\ bound = [s \in Sessions |-> FALSE]
  /\ Locks!Init
  /\ orderly \in BOOLEAN

FreeIds == {i \in Ids : registry[i] = None}
Registered == {i \in Ids : registry[i] # None}
SyncGoto(s, state) == sync' = [sync EXCEPT ![s] = state]
AsyncGoto(s, state) == async' = [async EXCEPT ![s] = state]

\* The sync task of s is inside init_sync or sync_loop.
Live(s) == sync[s] \in {"registered", "reading", "waiting", "ready", "io"}

-----------------------------------------------------------------------------
(* The sync connection.                                                    *)

\* Initialize: the registry has room, and the lowest free id is taken under its
\* mutex.
Initialize(s) ==
  /\ sync[s] = "none"
  /\ Cardinality(Registered) < MaxSessions
  /\ FreeIds # {}
  /\ LET i == Min(FreeIds) IN
       /\ registry' = [registry EXCEPT ![i] = s]
       /\ id' = [id EXCEPT ![s] = i]
  /\ SyncGoto(s, "registered")
  /\ UNCHANGED <<async, entry, bound, level, sole, orderly>>

\* Initialize: MaximumClientsExceeded.
RefuseInitialize(s) ==
  /\ sync[s] = "none"
  /\ Cardinality(Registered) >= MaxSessions \/ FreeIds = {}
  /\ SyncGoto(s, "refused")
  /\ UNCHANGED <<registry, id, async, entry, bound, level, sole, orderly>>

\* InitializeResponse is written, the guard created, sync_loop entered.
EnterSyncLoop(s) ==
  /\ sync[s] = "registered"
  /\ SyncGoto(s, "reading")
  /\ UNCHANGED <<registry, id, async, entry, bound, level, sole, orderly>>

\* Writing InitializeResponse fails: `?` returns before there is a guard.
LoseConnection(s) ==
  /\ sync[s] = "registered"
  /\ SyncGoto(s, "lost")
  /\ UNCHANGED <<registry, id, async, entry, bound, level, sole, orderly>>

\* A DataEND or Trigger: wait_for_access comes first.
ReceiveMessage(s) ==
  /\ sync[s] = "reading"
  /\ SyncGoto(s, "waiting")
  /\ UNCHANGED <<registry, id, async, entry, bound, level, sole, orderly>>

\* LockTable::grants_access, in ViLock's terms.
HasAccess(i) ==
  level[Instrument][i] > 0 \/ \A j \in Ids : level[Instrument][j] = 0

\* wait_for_access returns.
GainAccess(s) ==
  /\ sync[s] = "waiting"
  /\ HasAccess(id[s])
  /\ SyncGoto(s, "ready")
  /\ UNCHANGED <<registry, id, async, entry, bound, level, sole, orderly>>

\* execute or trigger: the bus mutex is free at last.
StartIo(s) ==
  /\ sync[s] = "ready"
  /\ \A t \in Sessions : sync[t] # "io"
  /\ SyncGoto(s, "io")
  /\ UNCHANGED <<registry, id, async, entry, bound, level, sole, orderly>>

EndIo(s) ==
  /\ sync[s] = "io"
  /\ SyncGoto(s, "reading")
  /\ UNCHANGED <<registry, id, async, entry, bound, level, sole, orderly>>

\* Mutant of EndSync: the guard forgets the locks.
EndSyncKeepsLocks(s) ==
  /\ sync[s] \in {"reading", "io"}
  /\ orderly => async[s] \in {"none", "ended"}
  /\ SyncGoto(s, "dropped")
  /\ UNCHANGED <<registry, id, async, entry, bound, level, sole, orderly>>

\* Mutant of EndSync: the guard frees the locks of every session.
EndSyncFreesAll(s) ==
  /\ sync[s] \in {"reading", "io"}
  /\ orderly => async[s] \in {"none", "ended"}
  /\ SyncGoto(s, "dropped")
  /\ level' = [level EXCEPT ![Instrument] = [i \in Ids |-> 0]]
  /\ sole' = [sole EXCEPT ![Instrument] = None]
  /\ UNCHANGED <<registry, id, async, entry, bound, orderly>>

\* Mutant of EndSync: the entry is removed at once, and again by the task.
EndSyncRemovesTwice(s) ==
  /\ sync[s] \in {"reading", "io"}
  /\ orderly => async[s] \in {"none", "ended"}
  /\ SyncGoto(s, "dropped")
  /\ Locks!ReleaseAll(id[s])
  /\ registry' = [registry EXCEPT ![id[s]] = None]
  /\ UNCHANGED <<id, async, entry, bound, orderly>>

\* sync_loop returns, on a read or a reply that fails or on a fatal error; the
\* guard is dropped: locks first, then a detached task to remove the entry.
EndSync(s) ==
  /\ sync[s] \in {"reading", "io"}
  /\ orderly => async[s] \in {"none", "ended"}
  /\ SyncGoto(s, "dropped")
  /\ Locks!ReleaseAll(id[s])
  /\ UNCHANGED <<registry, id, async, entry, bound, orderly>>

\* The detached task: registry.remove(&id).
RemoveEntry(s) ==
  /\ sync[s] = "dropped"
  /\ registry' = [registry EXCEPT ![id[s]] = None]
  /\ SyncGoto(s, "closed")
  /\ UNCHANGED <<id, async, entry, bound, level, sole, orderly>>

-----------------------------------------------------------------------------
(* The async connection, opened once InitializeResponse has named an id.   *)

MayOpenAsync(s) ==
  /\ async[s] = "none"
  /\ sync[s] \in {"reading", "waiting", "ready", "io"} \cup
                 (IF orderly THEN {} ELSE {"dropped", "closed"})

\* AsyncInitialize: the entry is whatever the id names now, if not yet bound.
AsyncInitialize(s) ==
  /\ MayOpenAsync(s)
  /\ LET e == registry[id[s]] IN
       /\ e # None /\ ~bound[e]
       /\ bound' = [bound EXCEPT ![e] = TRUE]
       /\ entry' = [entry EXCEPT ![s] = e]
  /\ AsyncGoto(s, "binding")
  /\ UNCHANGED <<registry, id, sync, level, sole, orderly>>

\* AsyncInitialize: InvalidInitialization, unknown id or already bound.
RefuseAsync(s) ==
  /\ MayOpenAsync(s)
  /\ LET e == registry[id[s]] IN e # None => bound[e]
  /\ AsyncGoto(s, "ended")
  /\ UNCHANGED <<registry, id, sync, entry, bound, level, sole, orderly>>

EnterAsyncLoop(s) ==
  /\ async[s] = "binding"
  /\ AsyncGoto(s, "reading")
  /\ UNCHANGED <<registry, id, sync, entry, bound, level, sole, orderly>>

Holder(s) == id[entry[s]]
MaySendLock(s) == orderly => Live(s)

\* AsyncLock, control code 1: LockRegistry::request.
RequestLock(s) ==
  /\ async[s] = "reading" /\ MaySendLock(s)
  /\ level[Instrument][Holder(s)] < MaxLevel
  /\ AsyncGoto(s, "locking")
  /\ UNCHANGED <<registry, id, sync, entry, bound, level, sole, orderly>>

GrantLock(s) ==
  /\ async[s] = "locking"
  /\ Locks!GrantExclusive(Holder(s), Instrument) \/ Locks!GrantShared(Holder(s), Instrument)
  /\ AsyncGoto(s, "reading")
  /\ UNCHANGED <<registry, id, sync, entry, bound, orderly>>

\* The request times out.
RefuseLock(s) ==
  /\ async[s] = "locking"
  /\ AsyncGoto(s, "reading")
  /\ UNCHANGED <<registry, id, sync, entry, bound, level, sole, orderly>>

\* AsyncLock, control code 0: release of one level.
ReleaseLock(s) ==
  /\ async[s] = "reading"
  /\ Locks!Release(Holder(s), Instrument)
  /\ UNCHANGED <<registry, id, sync, async, entry, bound, orderly>>

\* AsyncDeviceClear: wait for access, then the bus, then the acknowledge.  The
\* bus, held for another message, only delays it.
AsyncDeviceClear(s) ==
  /\ async[s] = "reading"
  /\ AsyncGoto(s, "clearing")
  /\ UNCHANGED <<registry, id, sync, entry, bound, level, sole, orderly>>

DeviceCleared(s) ==
  /\ async[s] = "clearing"
  /\ HasAccess(Holder(s))
  /\ AsyncGoto(s, "reading")
  /\ UNCHANGED <<registry, id, sync, entry, bound, level, sole, orderly>>

\* async_loop returns: nothing is released and nothing unbound.  A failed write
\* of AsyncInitializeResponse ends the task too.
EndAsync(s) ==
  /\ async[s] \in {"binding", "reading"}
  /\ AsyncGoto(s, "ended")
  /\ UNCHANGED <<registry, id, sync, entry, bound, level, sole, orderly>>

-----------------------------------------------------------------------------
SyncTask(s) ==
  \/ EnterSyncLoop(s) \/ GainAccess(s) \/ StartIo(s) \/ EndIo(s) \/ RemoveEntry(s)

AsyncTask(s) ==
  \/ EnterAsyncLoop(s) \/ GrantLock(s) \/ RefuseLock(s) \/ DeviceCleared(s)

Client(s) ==
  \/ Initialize(s) \/ RefuseInitialize(s) \/ LoseConnection(s)
  \/ ReceiveMessage(s) \/ EndSync(s)
  \/ AsyncInitialize(s) \/ RefuseAsync(s)
  \/ RequestLock(s) \/ ReleaseLock(s) \/ AsyncDeviceClear(s) \/ EndAsync(s)

Next == \E s \in Sessions : SyncTask(s) \/ AsyncTask(s) \/ Client(s)

Spec == Init /\ [][Next]_vars

-----------------------------------------------------------------------------
(* Properties.                                                             *)

\* While a session is served its id names it and no other, so no two sessions
\* share an id, and the detached removal of an earlier session, however late,
\* never unregisters the session that got the id next.
IdNamesItsSession == \A s \in Sessions : Live(s) => registry[id[s]] = s

\* At most one async channel ever drives a session.
OneAsyncPerSession ==
  \A s, t \in Sessions :
    /\ entry[s] # None /\ entry[s] = entry[t]
    /\ async[s] \notin {"none", "ended"} /\ async[t] \notin {"none", "ended"}
    => s = t

\* lock.rs: a lock "goes away when the session does".  Whoever holds a lock is
\* a session whose sync channel is still being served.
LocksGoWithTheSession ==
  \A i \in Ids : level[Instrument][i] > 0 => \E s \in Sessions : id[s] = i /\ Live(s)

\* With orderly clients it is so, and ids are reused meanwhile.
OrderlySessionsLeaveNoLock == orderly => LocksGoWithTheSession

\* A session's lock, while the session lives, is lost to one thing: the release that an
\* async task carries out for an AsyncLock it has read (ReleaseLock is that step).  The
\* end of another session, one that had the same id included, never takes it.  With
\* orderly clients the release is that of the session's own async channel; without, it
\* may be that of the leftover async task of an earlier session with the same id.
KeepsItsLock ==
  \A s \in Sessions :
    Live(s) /\ Live(s)' /\ level'[Instrument][id[s]] < level[Instrument][id[s]] =>
      \E t \in Sessions : ReleaseLock(t) /\ (orderly => entry[t] = s)
LiveSessionsKeepTheirLocks == [][KeepsItsLock]_vars
=============================================================================
