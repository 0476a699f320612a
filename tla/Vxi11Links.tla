----------------------------- MODULE Vxi11Links -----------------------------
(***************************************************************************)
(* VXI-11 core connections, links and locks, server/src/vxi11/server.rs.   *)
(* A connection is served by one task, one call at a time.  Links live in  *)
(* a table all connections share: a call names its link by number, and any *)
(* connection may name any link.  A call in progress keeps the Link it     *)
(* looked up, whatever becomes of the table.  A connection's links and     *)
(* their locks are to go when the connection does.                         *)
(*                                                                         *)
(* The lock registry appears through ViLock, the specification             *)
(* LockRegistry is proved to implement; a holder is a link id, vxi11_id.   *)
(***************************************************************************)
EXTENDS Integers, FiniteSets

CONSTANTS
  Conns,     \* core connections
  Devices,   \* the resource keys a device name resolves to
  MaxLinks,  \* config.max_links
  MaxLid,    \* bound: links created in one run
  None

Lids == 1..MaxLid

ASSUME ConstantsAssumption == MaxLid \in Nat /\ None \notin Lids /\ None \notin Devices

VARIABLES
  links,     \* LinkTable: the lids in it
  next_lid,
  dev,       \* lid -> the resource of its Link, None before it is created
  owned,     \* connection -> ConnState::owned
  conn,      \* connection -> where its task is
  arg,       \* connection -> the link its call looked up, or None
  level,     \* the lock registry's state, see ViLock
  sole,
  ownLinks,  \* chosen once: connections name only the links they created
  clean      \* chosen once: connections end between records, replies are written

table == <<links, next_lid, dev, owned>>
locks == <<level, sole>>
peers == <<ownLinks, clean>>
vars == <<table, conn, arg, locks, peers>>

Locks == INSTANCE ViLock WITH Holders <- Lids, Resources <- Devices

\* "open" waits for a record; "creating" waits for the lock create_link asked
\* for; "locking" waits in device_lock; "unlocking" is between the holds and the
\* release of device_unlock; "gating" is in acquire_access; "io" has passed it;
\* "replying" has a reply to write; "closed" has returned.
ConnStates == {"open", "creating", "locking", "unlocking", "gating", "io",
               "replying", "closed"}

TypeOK ==
  /\ links \subseteq Lids
  /\ next_lid \in 1..(MaxLid + 1)
  /\ dev \in [Lids -> Devices \cup {None}]
  /\ owned \in [Conns -> SUBSET Lids]
  /\ conn \in [Conns -> ConnStates]
  /\ arg \in [Conns -> Lids \cup {None}]
  /\ level \in [Devices -> [Lids -> Nat]]
  /\ sole \in [Devices -> Lids \cup {None}]
  /\ ownLinks \in BOOLEAN /\ clean \in BOOLEAN
  /\ \A l \in Lids : dev[l] # None <=> l < next_lid
  /\ \A c \in Conns :
       conn[c] \in {"creating", "locking", "unlocking", "gating", "io"} =>
         arg[c] \in Lids /\ dev[arg[c]] \in Devices

Init ==
  /\ links = {}
  /\ next_lid = 1
  /\ dev = [l \in Lids |-> None]
  /\ owned = [c \in Conns |-> {}]
  /\ conn = [c \in Conns |-> "open"]
  /\ arg = [c \in Conns |-> None]
  /\ Locks!Init
  /\ ownLinks \in BOOLEAN /\ clean \in BOOLEAN

Goto(c, state) == conn' = [conn EXCEPT ![c] = state]
Call(c, l, state) == arg' = [arg EXCEPT ![c] = l] /\ Goto(c, state)

\* The lids a client on c may put in a call, of which link_for finds only those
\* in links.  A client knows no lid before its create_link is answered.
Names(c) ==
  IF ownLinks THEN owned[c]
  ELSE {l \in Lids : \A k \in Conns : conn[k] = "creating" => arg[k] # l}

-----------------------------------------------------------------------------
(* create_link and destroy_link.                                           *)

\* The link is inserted before its lock, if one is wanted, is asked for.
CreateLink(c, d, lockDevice) ==
  /\ conn[c] = "open"
  /\ Cardinality(links) < MaxLinks
  /\ next_lid <= MaxLid
  /\ links' = links \cup {next_lid}
  /\ next_lid' = next_lid + 1
  /\ dev' = [dev EXCEPT ![next_lid] = d]
  /\ owned' = [owned EXCEPT ![c] = @ \cup {next_lid}]
  /\ Call(c, next_lid, IF lockDevice THEN "creating" ELSE "replying")
  /\ UNCHANGED <<locks, peers>>

\* RULE B.6.5: out of resources.
RefuseCreate(c) ==
  /\ conn[c] = "open"
  /\ Cardinality(links) >= MaxLinks
  /\ Goto(c, "replying")
  /\ UNCHANGED <<table, arg, locks, peers>>

\* The exclusive grant create_link or device_lock waits for.
GrantLock(c) ==
  /\ conn[c] \in {"creating", "locking"}
  /\ Locks!GrantExclusive(arg[c], dev[arg[c]])
  /\ Goto(c, "replying")
  /\ UNCHANGED <<table, arg, peers>>

\* Mutant of CreateTimesOut: the refused link is left in the table.
CreateTimesOutKeepsLink(c) ==
  /\ conn[c] = "creating"
  /\ owned' = [owned EXCEPT ![c] = @ \ {arg[c]}]
  /\ Goto(c, "replying")
  /\ UNCHANGED <<links, next_lid, dev, arg, locks, peers>>

\* lock_timeout runs out: the link is unwound.
CreateTimesOut(c) ==
  /\ conn[c] = "creating"
  /\ links' = links \ {arg[c]}
  /\ owned' = [owned EXCEPT ![c] = @ \ {arg[c]}]
  /\ Goto(c, "replying")
  /\ UNCHANGED <<next_lid, dev, arg, locks, peers>>

\* RULE B.6.9.2: the lock goes with the link.  Only the caller's own list of
\* links forgets it.
DestroyLink(c, l) ==
  /\ conn[c] = "open" /\ l \in Names(c) \cap links
  /\ links' = links \ {l}
  /\ owned' = [owned EXCEPT ![c] = @ \ {l}]
  /\ Locks!ReleaseAll(l)
  /\ Call(c, l, "replying")
  /\ UNCHANGED <<next_lid, dev, peers>>

-----------------------------------------------------------------------------
(* device_lock, device_unlock and the gated device operations.             *)

\* RULE B.6.72: holds is asked first, apart from the request that follows.
Lock(c, l) ==
  /\ conn[c] = "open" /\ l \in Names(c) \cap links
  /\ Call(c, l, IF level[dev[l]][l] > 0 THEN "replying" ELSE "locking")
  /\ UNCHANGED <<table, locks, peers>>

\* No waitlock, lock_timeout, or an abort of the wait.
LockFails(c) ==
  /\ conn[c] = "locking"
  /\ Goto(c, "replying")
  /\ UNCHANGED <<table, arg, locks, peers>>

Unlock(c, l) ==
  /\ conn[c] = "open" /\ l \in Names(c) \cap links
  /\ Call(c, l, IF level[dev[l]][l] > 0 THEN "unlocking" ELSE "replying")
  /\ UNCHANGED <<table, locks, peers>>

\* Mutant of Unlocked: every link's lock on the device is released.
UnlockedForAll(c) ==
  /\ conn[c] = "unlocking"
  /\ level' = [level EXCEPT ![dev[arg[c]]] = [l \in Lids |-> 0]]
  /\ sole' = [sole EXCEPT ![dev[arg[c]]] = None]
  /\ Goto(c, "replying")
  /\ UNCHANGED <<table, arg, peers>>

\* The release; it finds nothing if another call on the link was faster.
Unlocked(c) ==
  /\ conn[c] = "unlocking"
  /\ IF level[dev[arg[c]]][arg[c]] > 0
       THEN Locks!Release(arg[c], dev[arg[c]])
       ELSE UNCHANGED locks
  /\ Goto(c, "replying")
  /\ UNCHANGED <<table, arg, peers>>

\* device_write, device_read, device_readstb, device_docmd and the four generic
\* operations.
StartOperation(c, l) ==
  /\ conn[c] = "open" /\ l \in Names(c) \cap links
  /\ Call(c, l, "gating")
  /\ UNCHANGED <<table, locks, peers>>

HasAccess(l) ==
  level[dev[l]][l] > 0 \/ \A k \in Lids : level[dev[l]][k] = 0

\* acquire_access succeeds.
GainAccess(c) ==
  /\ conn[c] = "gating" /\ HasAccess(arg[c])
  /\ Goto(c, "io")
  /\ UNCHANGED <<table, arg, locks, peers>>

\* acquire_access fails: no waitlock, or lock_timeout.
RefuseAccess(c) ==
  /\ conn[c] = "gating" /\ ~HasAccess(arg[c])
  /\ Goto(c, "replying")
  /\ UNCHANGED <<table, arg, locks, peers>>

EndOperation(c) ==
  /\ conn[c] = "io"
  /\ Goto(c, "replying")
  /\ UNCHANGED <<table, arg, locks, peers>>

-----------------------------------------------------------------------------
(* The connection.                                                         *)

Reply(c) ==
  /\ conn[c] = "replying"
  /\ Call(c, None, "open")
  /\ UNCHANGED <<table, locks, peers>>

\* read_record or write_record fails and `?` returns at once: a reset, an EOF
\* inside a record, a record over the limit, a reply to a client that has gone.
BreakConnection(c) ==
  /\ ~clean
  /\ conn[c] \in {"open", "replying"}
  /\ Call(c, None, "closed")
  /\ UNCHANGED <<table, locks, peers>>

\* Mutant of CloseConnection: the links go and their locks stay.
CloseConnectionKeepsLocks(c) ==
  /\ conn[c] = "open"
  /\ links' = links \ owned[c]
  /\ Call(c, None, "closed")
  /\ UNCHANGED <<next_lid, dev, owned, locks, peers>>

\* EOF between records: the links still in the table are removed and the locks
\* of each released.
CloseConnection(c) ==
  /\ conn[c] = "open"
  /\ links' = links \ owned[c]
  /\ LET removed == owned[c] \cap links IN
       /\ level' = [d \in Devices |->
                     [l \in Lids |-> IF l \in removed THEN 0 ELSE level[d][l]]]
       /\ sole' = [d \in Devices |-> IF sole[d] \in removed THEN None ELSE sole[d]]
  /\ Call(c, None, "closed")
  /\ UNCHANGED <<next_lid, dev, owned, peers>>

-----------------------------------------------------------------------------
Client(c) ==
  \/ \E d \in Devices, lockDevice \in BOOLEAN : CreateLink(c, d, lockDevice)
  \/ RefuseCreate(c)
  \/ \E l \in Lids : DestroyLink(c, l) \/ Lock(c, l) \/ Unlock(c, l) \/ StartOperation(c, l)
  \/ BreakConnection(c) \/ CloseConnection(c)

Task(c) ==
  \/ GrantLock(c) \/ CreateTimesOut(c) \/ LockFails(c) \/ Unlocked(c)
  \/ GainAccess(c) \/ RefuseAccess(c) \/ EndOperation(c) \/ Reply(c)

Next == \E c \in Conns : Client(c) \/ Task(c)

Spec == Init /\ [][Next]_vars

-----------------------------------------------------------------------------
(* Properties.                                                             *)

\* RULE B.6.77 in serve_connection: "a broken connection releases everything its
\* links held".  Whoever holds a lock is a link some live connection created.
LocksGoWithTheConnection ==
  \A d \in Devices, l \in Lids :
    level[d][l] > 0 => \E c \in Conns : conn[c] # "closed" /\ l \in owned[c]

\* RULE B.6.9.2 in dispatch, "its lock goes with it", and RULE B.6.77 of clean
\* connections that keep to their links: a lock is held by a link that is in the
\* table and that a connection still being served created.
LocksEndWithTheirLinks ==
  ownLinks /\ clean =>
    /\ LocksGoWithTheConnection
    /\ \A d \in Devices, l \in Lids : level[d][l] > 0 => l \in links

\* RULE B.6.72: "VXI-11 locks do not nest", while no two connections name one link.
LocksDoNotNest == ownLinks => \A d \in Devices, l \in Lids : level[d][l] <= 1

\* ConnState::owned: links are "destroyed with it".  With clean connections, every
\* slot of the link table is one that a connection still being served will give
\* back, so a table that is full is full of links in use.
LinksAreRecovered ==
  clean => \A l \in links : \E c \in Conns : conn[c] # "closed" /\ l \in owned[c]

\* A link's lock is lost only by device_unlock on that link or with the link,
\* whoever names it: not by what other links do, and not by an unlock that comes
\* too late for its own link's lock.
KeepsLocks ==
  \A d \in Devices, l \in Lids :
    level'[d][l] < level[d][l] =>
      \/ l \notin links'
      \/ \E c \in Conns : conn[c] = "unlocking" /\ arg[c] = l
LocksAreKept == [][KeepsLocks]_vars
=============================================================================
