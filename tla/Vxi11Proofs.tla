---------------------------- MODULE Vxi11Proofs ----------------------------
(***************************************************************************)
(* Proofs about Vxi11Links, for any connections, devices and limits, and   *)
(* about Vxi11Abort, for any connections, abort channels, calls and        *)
(* aborts.                                                                 *)
(***************************************************************************)
EXTENDS Vxi11Links, Vxi11Abort, TLAPS

-----------------------------------------------------------------------------
(* Links: the inductive invariant.                                         *)

\* What the table, the connections and the locks mention has been created, and a link
\* holds no lock but on its own device.
Created ==
  /\ \A l \in links : l < next_lid
  /\ \A c \in Conns : \A l \in owned[c] : l < next_lid
  /\ \A d \in Devices, l \in Lids : level[d][l] > 0 => dev[l] = d

LinkInv == TypeOK /\ Created /\ LinksAreRecovered

InCall == {"creating", "locking", "unlocking", "gating", "io"}

OwnedOnce == \A c, k \in Conns : c # k => owned[c] \cap owned[k] = {}
CallsAreOnOwnLinks == \A c \in Conns : conn[c] \in InCall => arg[c] \in owned[c] \cap links
LocksHaveLinks == \A d \in Devices, l \in Lids : level[d][l] > 0 => l \in links
\* Between the holds of device_lock and its request, and while create_link waits, the
\* link has no lock.
RequestersHoldNothing ==
  \A c \in Conns : conn[c] \in {"creating", "locking"} => level[dev[arg[c]]][arg[c]] = 0

\* What keeping to one's own links sees to.
OwnInv ==
  /\ OwnedOnce
  /\ ownLinks => CallsAreOnOwnLinks /\ LocksHaveLinks /\ RequestersHoldNothing
  /\ LocksDoNotNest

-----------------------------------------------------------------------------
(* Every step, whoever names which link.                                   *)

\* The calls of c that change nothing but where c is and what it has looked up.
Looks(c) ==
  \/ RefuseCreate(c) \/ LockFails(c) \/ GainAccess(c) \/ RefuseAccess(c) \/ EndOperation(c)
  \/ Reply(c) \/ BreakConnection(c)
  \/ \E l \in Lids : Lock(c, l) \/ Unlock(c, l) \/ StartOperation(c, l)

\* A call that starts is on a link of the table; one that goes on keeps its link.
LEMMA LooksFacts ==
  ASSUME LinkInv, NEW c \in Conns, Looks(c)
  PROVE  \E x \in ConnStates, a \in Lids \cup {None} :
           /\ conn' = [conn EXCEPT ![c] = x] /\ arg' = [arg EXCEPT ![c] = a]
           /\ x \in InCall => \/ conn[c] \in InCall /\ conn[c] \notin {"creating", "locking"} /\ a = arg[c]
                               /\ x \notin {"creating", "locking"}
                            \/ /\ conn[c] = "open" /\ a \in Names(c) \cap links
                               /\ x = "locking" => level[dev[a]][a] = 0
                               /\ x # "creating"
           /\ x = "closed" => ~clean
           /\ conn[c] # "closed"
           /\ UNCHANGED <<table, locks, peers>>
  <1> USE DEF LinkInv, InCall, ConnStates, Goto, Call
  <1>0. conn \in [Conns -> ConnStates] /\ arg \in [Conns -> Lids \cup {None}]
    BY DEF TypeOK
  <1>1. CASE RefuseCreate(c) \/ LockFails(c) \/ RefuseAccess(c) \/ EndOperation(c)
    <2>1. /\ conn' = [conn EXCEPT ![c] = "replying"] /\ arg' = [arg EXCEPT ![c] = arg[c]]
          /\ conn[c] # "closed" /\ UNCHANGED <<table, locks, peers>>
      BY <1>0, <1>1 DEF RefuseCreate, LockFails, RefuseAccess, EndOperation
    <2> QED
      BY <1>0, <2>1
  <1>2. CASE GainAccess(c)
    <2>1. /\ conn' = [conn EXCEPT ![c] = "io"] /\ arg' = [arg EXCEPT ![c] = arg[c]]
          /\ conn[c] = "gating" /\ UNCHANGED <<table, locks, peers>>
      BY <1>0, <1>2 DEF GainAccess
    <2> QED
      BY <1>0, <2>1
  <1>3. CASE Reply(c) \/ BreakConnection(c)
    BY <1>0, <1>3 DEF Reply, BreakConnection
  <1>4. ASSUME NEW l \in Lids, Lock(c, l) \/ Unlock(c, l) \/ StartOperation(c, l)
        PROVE  \E x \in {"replying", "locking", "unlocking", "gating"} :
                 /\ conn' = [conn EXCEPT ![c] = x] /\ arg' = [arg EXCEPT ![c] = l]
                 /\ conn[c] = "open" /\ l \in Names(c) \cap links
                 /\ x = "locking" => ~(level[dev[l]][l] > 0)
                 /\ UNCHANGED <<table, locks, peers>>
    BY <1>4 DEF Lock, Unlock, StartOperation
  <1>5. ASSUME NEW l \in links PROVE l \in Lids /\ level[dev[l]][l] \in Nat
    BY <1>5 DEF TypeOK, Created
  <1>6. ASSUME NEW l \in Lids, Lock(c, l) \/ Unlock(c, l) \/ StartOperation(c, l)
        PROVE  \E x \in {"replying", "locking", "unlocking", "gating"} :
                 /\ conn' = [conn EXCEPT ![c] = x] /\ arg' = [arg EXCEPT ![c] = l]
                 /\ conn[c] = "open" /\ l \in Names(c) \cap links
                 /\ x = "locking" => level[dev[l]][l] = 0
                 /\ UNCHANGED <<table, locks, peers>>
    BY <1>4, <1>5, <1>6
  <1> QED
    BY <1>1, <1>2, <1>3, <1>6 DEF Looks

\* The grant or the release of a call touches one level: that of its own link.
LEMMA LockSteps ==
  ASSUME TypeOK, NEW c \in Conns, GrantLock(c) \/ Unlocked(c)
  PROVE  \E l \in Lids, e \in Devices :
           /\ l = arg[c] /\ e = dev[l]
           /\ level' \in [Devices -> [Lids -> Nat]] /\ sole' \in [Devices -> Lids \cup {None}]
           /\ \A d \in Devices, k \in Lids : d # e \/ k # l => level'[d][k] = level[d][k]
           /\ GrantLock(c) => level'[e][l] = level[e][l] + 1
           /\ Unlocked(c) => level'[e][l] <= level[e][l]
  <1>1. PICK l \in Lids, e \in Devices : l = arg[c] /\ e = dev[l]
    BY DEF TypeOK, GrantLock, Unlocked
  <1>2. level \in [Devices -> [Lids -> Nat]] /\ sole \in [Devices -> Lids \cup {None}]
    BY DEF TypeOK
  <1>3. CASE GrantLock(c)
    <2>1. Locks!GrantExclusive(l, e)
      BY <1>1, <1>3 DEF GrantLock
    <2>2. level' = [level EXCEPT ![e] = [level[e] EXCEPT ![l] = level[e][l] + 1]]
      BY <1>2, <2>1 DEF Locks!GrantExclusive
    <2>3. sole' \in [Devices -> Lids \cup {None}]
      BY <1>2, <2>1 DEF Locks!GrantExclusive
    <2>4. level' \in [Devices -> [Lids -> Nat]]
      BY <1>2, <2>2
    <2>5. ~Unlocked(c)
      BY <1>3 DEF GrantLock, Unlocked
    <2> QED
      BY <1>1, <1>2, <2>2, <2>3, <2>4, <2>5
  <1>4. CASE Unlocked(c)
    <2>0. ~GrantLock(c)
      BY <1>4 DEF GrantLock, Unlocked
    <2>1. CASE level[e][l] > 0
      <3>1. Locks!Release(l, e)
        BY <1>1, <1>4, <2>1 DEF Unlocked
      <3>2. level' = [level EXCEPT ![e] = [level[e] EXCEPT ![l] = level[e][l] - 1]]
        BY <1>2, <3>1 DEF Locks!Release
      <3>3. sole' \in [Devices -> Lids \cup {None}]
        BY <1>2, <3>1 DEF Locks!Release
      <3>4. level[e][l] - 1 \in Nat
        BY <1>2, <2>1
      <3>5. level' \in [Devices -> [Lids -> Nat]]
        BY <1>2, <3>2, <3>4
      <3> QED
        BY <1>1, <1>2, <2>0, <3>2, <3>3, <3>5
    <2>2. CASE ~(level[e][l] > 0)
      <3>1. UNCHANGED <<level, sole>>
        BY <1>1, <1>4, <2>2 DEF Unlocked, locks
      <3> QED
        BY <1>1, <1>2, <2>0, <3>1
    <2> QED
      BY <2>1, <2>2
  <1> QED
    BY <1>3, <1>4

\* Nothing has been created at first.
LEMMA LinkInvInit == Init => LinkInv
  <1> SUFFICES ASSUME Init PROVE LinkInv
    OBVIOUS
  <1> QED
    BY ConstantsAssumption
       DEF ConstantsAssumption, Init, LinkInv, TypeOK, Created, LinksAreRecovered, Lids,
           ConnStates, Locks!Init

\* Every step of a client or of a connection's task preserves it.
LEMMA LinkInvStep == LinkInv /\ [Next]_vars => LinkInv'
  <1> SUFFICES ASSUME LinkInv, [Next]_vars PROVE LinkInv'
    OBVIOUS
  <1> USE ConstantsAssumption DEF ConstantsAssumption, table, locks, peers
  <1>0. TypeOK /\ Created /\ LinksAreRecovered
    BY DEF LinkInv
  <1>1. ASSUME NEW c \in Conns, Looks(c) PROVE LinkInv'
    <2>1. PICK x \in ConnStates, a \in Lids \cup {None} :
            /\ conn' = [conn EXCEPT ![c] = x] /\ arg' = [arg EXCEPT ![c] = a]
            /\ x \in InCall => (conn[c] \in InCall /\ a = arg[c]) \/ a \in links
            /\ x = "closed" => ~clean
            /\ conn[c] # "closed"
            /\ UNCHANGED <<table, locks, peers>>
      BY <1>1, LooksFacts
    <2>2. x \in InCall => a \in Lids /\ dev[a] \in Devices
      BY <1>0, <2>1 DEF TypeOK, Created, InCall
    <2>3. TypeOK'
      BY <1>0, <2>1, <2>2 DEF TypeOK, InCall
    <2>4. Created'
      BY <1>0, <2>1 DEF Created
    <2>5. LinksAreRecovered'
      BY <1>0, <2>1 DEF LinksAreRecovered, TypeOK
    <2> QED
      BY <2>3, <2>4, <2>5 DEF LinkInv
  <1>2. ASSUME NEW c \in Conns, NEW e \in Devices, NEW b \in BOOLEAN, CreateLink(c, e, b)
        PROVE  LinkInv'
    <2>1. PICK x \in {"creating", "replying"} :
            /\ conn' = [conn EXCEPT ![c] = x] /\ arg' = [arg EXCEPT ![c] = next_lid]
      BY <1>2 DEF CreateLink, Call, Goto
    <2>2. /\ conn[c] = "open" /\ next_lid \in Lids /\ next_lid' = next_lid + 1
          /\ links' = links \cup {next_lid} /\ dev' = [dev EXCEPT ![next_lid] = e]
          /\ owned' = [owned EXCEPT ![c] = owned[c] \cup {next_lid}]
          /\ UNCHANGED <<locks, peers>>
      BY <1>0, <1>2 DEF CreateLink, TypeOK, Lids
    <2>3. TypeOK'
      BY <1>0, <2>1, <2>2 DEF TypeOK, Lids, ConnStates
    <2>4. Created'
      BY <1>0, <2>2 DEF TypeOK, Created, Lids
    <2>5. LinksAreRecovered'
      BY <1>0, <2>1, <2>2 DEF TypeOK, LinksAreRecovered
    <2> QED
      BY <2>3, <2>4, <2>5 DEF LinkInv
  <1>3. ASSUME NEW c \in Conns, GrantLock(c) \/ Unlocked(c) PROVE LinkInv'
    <2>1. PICK l \in Lids, e \in Devices :
            /\ e = dev[l]
            /\ level' \in [Devices -> [Lids -> Nat]] /\ sole' \in [Devices -> Lids \cup {None}]
            /\ \A d \in Devices, k \in Lids : d # e \/ k # l => level'[d][k] = level[d][k]
      BY <1>0, <1>3, LockSteps
    <2>2. /\ conn' = [conn EXCEPT ![c] = "replying"] /\ UNCHANGED <<table, arg, peers>>
          /\ conn[c] # "closed"
      BY <1>3 DEF GrantLock, Unlocked, Goto
    <2>3. TypeOK'
      BY <1>0, <2>1, <2>2 DEF TypeOK, ConnStates
    <2>4. Created'
      BY <1>0, <2>1, <2>2 DEF TypeOK, Created
    <2>5. LinksAreRecovered'
      BY <1>0, <2>2 DEF TypeOK, LinksAreRecovered
    <2> QED
      BY <2>3, <2>4, <2>5 DEF LinkInv
  <1>4. ASSUME NEW c \in Conns, CreateTimesOut(c) PROVE LinkInv'
    <2>1. TypeOK'
      BY <1>0, <1>4 DEF CreateTimesOut, Goto, TypeOK, ConnStates
    <2>2. Created'
      BY <1>0, <1>4 DEF CreateTimesOut, TypeOK, Created
    <2>3. LinksAreRecovered'
      BY <1>0, <1>4 DEF CreateTimesOut, Goto, TypeOK, LinksAreRecovered
    <2> QED
      BY <2>1, <2>2, <2>3 DEF LinkInv
  <1>5. ASSUME NEW c \in Conns, NEW l \in Lids, DestroyLink(c, l) PROVE LinkInv'
    <2>1. /\ level' = [d \in Devices |-> [level[d] EXCEPT ![l] = 0]]
          /\ sole' \in [Devices -> Lids \cup {None}]
      BY <1>0, <1>5 DEF DestroyLink, TypeOK, Locks!ReleaseAll
    <2>2. /\ conn' = [conn EXCEPT ![c] = "replying"] /\ arg' = [arg EXCEPT ![c] = l]
          /\ conn[c] = "open" /\ links' = links \ {l}
          /\ owned' = [owned EXCEPT ![c] = owned[c] \ {l}]
          /\ UNCHANGED <<next_lid, dev, peers>>
      BY <1>5 DEF DestroyLink, Call, Goto
    <2>3. TypeOK'
      BY <1>0, <2>1, <2>2 DEF TypeOK, ConnStates
    <2>4. Created'
      BY <1>0, <2>1, <2>2 DEF TypeOK, Created
    <2>5. LinksAreRecovered'
      BY <1>0, <2>2 DEF TypeOK, LinksAreRecovered
    <2> QED
      BY <2>3, <2>4, <2>5 DEF LinkInv
  <1>6. ASSUME NEW c \in Conns, CloseConnection(c) PROVE LinkInv'
    <2> DEFINE removed == owned[c] \cap links
    <2>1. /\ level' = [d \in Devices |->
                         [l \in Lids |-> IF l \in removed THEN 0 ELSE level[d][l]]]
          /\ sole' = [d \in Devices |-> IF sole[d] \in removed THEN None ELSE sole[d]]
          /\ conn' = [conn EXCEPT ![c] = "closed"] /\ arg' = [arg EXCEPT ![c] = None]
          /\ conn[c] = "open" /\ links' = links \ owned[c]
          /\ UNCHANGED <<next_lid, dev, owned, peers>>
      BY <1>6 DEF CloseConnection, Call, Goto
    <2> HIDE DEF removed
    <2>2. TypeOK'
      BY <1>0, <2>1 DEF TypeOK, ConnStates
    <2>3. Created'
      BY <1>0, <2>1 DEF TypeOK, Created
    <2>4. LinksAreRecovered'
      BY <1>0, <2>1 DEF TypeOK, LinksAreRecovered
    <2> QED
      BY <2>2, <2>3, <2>4 DEF LinkInv
  <1>7. CASE UNCHANGED vars
    BY <1>0, <1>7 DEF vars, LinkInv, TypeOK, Created, LinksAreRecovered
  <1> QED
    BY <1>1, <1>2, <1>3, <1>4, <1>5, <1>6, <1>7 DEF Next, Client, Task, Looks

\* Links and locks are those of links created, and none is left to nobody.
LEMMA LinkInvariant == Spec => []LinkInv
  BY LinkInvInit, LinkInvStep, PTL DEF Spec

-----------------------------------------------------------------------------
(* What connections that keep to their own links see to.                   *)

\* Nothing is held or called at first.
LEMMA OwnInvInit == Init => OwnInv
  <1> SUFFICES ASSUME Init PROVE OwnInv
    OBVIOUS
  <1> QED
    BY DEF Init, OwnInv, OwnedOnce, CallsAreOnOwnLinks, LocksHaveLinks, RequestersHoldNothing,
           LocksDoNotNest, InCall, Locks!Init

\* Every step preserves it.
LEMMA OwnInvStep == LinkInv /\ OwnInv /\ [Next]_vars => OwnInv'
  <1> SUFFICES ASSUME LinkInv, OwnInv, [Next]_vars PROVE OwnInv'
    OBVIOUS
  <1> USE ConstantsAssumption DEF ConstantsAssumption, table, locks, peers
  <1>0. TypeOK /\ Created /\ OwnedOnce
    BY DEF LinkInv, OwnInv
  <1>00. ownLinks => CallsAreOnOwnLinks /\ LocksHaveLinks /\ RequestersHoldNothing
    BY DEF OwnInv
  <1>000. LocksDoNotNest
    BY DEF OwnInv
  <1>1. ASSUME NEW c \in Conns, Looks(c) PROVE OwnInv'
    <2>1. PICK x \in ConnStates, a \in Lids \cup {None} :
            /\ conn' = [conn EXCEPT ![c] = x] /\ arg' = [arg EXCEPT ![c] = a]
            /\ x \in InCall => \/ conn[c] \in InCall /\ conn[c] \notin {"creating", "locking"} /\ a = arg[c]
                                /\ x \notin {"creating", "locking"}
                             \/ /\ conn[c] = "open" /\ a \in Names(c) \cap links
                                /\ x = "locking" => level[dev[a]][a] = 0
                                /\ x # "creating"
            /\ UNCHANGED <<table, locks, peers>>
      BY <1>1, LooksFacts
    <2>2. OwnedOnce' /\ LocksDoNotNest'
      BY <1>0, <1>000, <2>1 DEF OwnedOnce, LocksDoNotNest
    <2>3. ASSUME ownLinks PROVE CallsAreOnOwnLinks' /\ LocksHaveLinks' /\ RequestersHoldNothing'
      <3>1. CallsAreOnOwnLinks'
        BY <1>0, <1>00, <2>1, <2>3 DEF TypeOK, CallsAreOnOwnLinks, Names
      <3>2. LocksHaveLinks'
        BY <1>00, <2>1, <2>3 DEF LocksHaveLinks
      <3>3. RequestersHoldNothing'
        BY <1>0, <1>00, <2>1, <2>3 DEF TypeOK, RequestersHoldNothing, InCall
      <3> QED
        BY <3>1, <3>2, <3>3
    <2> QED
      BY <2>1, <2>2, <2>3 DEF OwnInv
  <1>2. ASSUME NEW c \in Conns, NEW e \in Devices, NEW b \in BOOLEAN, CreateLink(c, e, b)
        PROVE  OwnInv'
    <2>1. PICK x \in {"creating", "replying"} :
            /\ conn' = [conn EXCEPT ![c] = x] /\ arg' = [arg EXCEPT ![c] = next_lid]
      BY <1>2 DEF CreateLink, Call, Goto
    <2>2. /\ conn[c] = "open" /\ next_lid \in Lids
          /\ links' = links \cup {next_lid} /\ dev' = [dev EXCEPT ![next_lid] = e]
          /\ owned' = [owned EXCEPT ![c] = owned[c] \cup {next_lid}]
          /\ UNCHANGED <<locks, peers>>
      BY <1>0, <1>2 DEF CreateLink, TypeOK, Lids
    <2>3. /\ next_lid \notin links /\ \A k \in Conns : next_lid \notin owned[k]
          /\ \A d \in Devices : level[d][next_lid] = 0
      <3>1. ~(next_lid < next_lid) /\ dev[next_lid] \notin Devices
        BY <1>0, <2>2 DEF TypeOK, Lids
      <3>2. \A d \in Devices : level[d][next_lid] \in Nat
        BY <1>0, <2>2 DEF TypeOK
      <3> QED
        BY <1>0, <2>2, <3>1, <3>2 DEF Created
    <2>4. OwnedOnce' /\ LocksDoNotNest'
      BY <1>0, <1>000, <2>2, <2>3 DEF TypeOK, OwnedOnce, LocksDoNotNest
    <2>5. ASSUME ownLinks PROVE CallsAreOnOwnLinks' /\ LocksHaveLinks' /\ RequestersHoldNothing'
      <3>1. CallsAreOnOwnLinks'
        BY <1>0, <1>00, <2>1, <2>2, <2>5 DEF TypeOK, CallsAreOnOwnLinks
      <3>2. LocksHaveLinks'
        BY <1>00, <2>2, <2>5 DEF LocksHaveLinks
      <3>3. RequestersHoldNothing'
        <4> SUFFICES ASSUME NEW k \in Conns, conn'[k] \in {"creating", "locking"}
                     PROVE  level'[dev'[arg'[k]]][arg'[k]] = 0
          BY DEF RequestersHoldNothing
        <4>1. CASE k = c
          BY <1>0, <2>1, <2>2, <2>3, <4>1 DEF TypeOK
        <4>2. CASE k # c
          <5>1. conn'[k] = conn[k] /\ arg'[k] = arg[k]
            BY <1>0, <2>1, <4>2 DEF TypeOK
          <5>2. arg[k] \in owned[k] /\ level[dev[arg[k]]][arg[k]] = 0
            BY <1>00, <2>5, <5>1 DEF CallsAreOnOwnLinks, RequestersHoldNothing, InCall
          <5>3. arg[k] # next_lid /\ arg[k] \in Lids
            BY <1>0, <2>3, <5>2 DEF TypeOK
          <5>4. dev'[arg[k]] = dev[arg[k]]
            BY <1>0, <2>2, <5>3 DEF TypeOK
          <5> QED
            BY <2>2, <5>1, <5>2, <5>4
        <4> QED
          BY <4>1, <4>2
      <3> QED
        BY <3>1, <3>2, <3>3
    <2> QED
      BY <2>2, <2>4, <2>5 DEF OwnInv
  <1>3. ASSUME NEW c \in Conns, GrantLock(c) \/ Unlocked(c) PROVE OwnInv'
    <2>1. PICK l \in Lids, e \in Devices :
            /\ l = arg[c] /\ e = dev[l]
            /\ level' \in [Devices -> [Lids -> Nat]]
            /\ \A d \in Devices, k \in Lids : d # e \/ k # l => level'[d][k] = level[d][k]
            /\ GrantLock(c) => level'[e][l] = level[e][l] + 1
            /\ Unlocked(c) => level'[e][l] <= level[e][l]
      BY <1>0, <1>3, LockSteps
    <2>2. /\ conn' = [conn EXCEPT ![c] = "replying"] /\ UNCHANGED <<table, arg, peers>>
          /\ conn[c] \in InCall
      BY <1>3 DEF GrantLock, Unlocked, Goto, InCall
    <2>3. OwnedOnce'
      BY <1>0, <2>2 DEF OwnedOnce
    <2>4. ASSUME ownLinks
          PROVE  CallsAreOnOwnLinks' /\ LocksHaveLinks' /\ RequestersHoldNothing' /\ LocksDoNotNest'
      <3>1. l \in owned[c] \cap links
        BY <1>00, <2>1, <2>2, <2>4 DEF CallsAreOnOwnLinks
      <3>2. CallsAreOnOwnLinks'
        BY <1>0, <1>00, <2>2, <2>4 DEF TypeOK, CallsAreOnOwnLinks, InCall
      <3>3. LocksHaveLinks'
        BY <1>00, <2>1, <2>2, <2>4, <3>1 DEF LocksHaveLinks
      <3>4. RequestersHoldNothing'
        <4> SUFFICES ASSUME NEW k \in Conns, conn'[k] \in {"creating", "locking"}
                     PROVE  level'[dev'[arg'[k]]][arg'[k]] = 0
          BY DEF RequestersHoldNothing
        <4>1. k # c /\ conn[k] \in {"creating", "locking"}
          BY <1>0, <2>2 DEF TypeOK
        <4>2. arg[k] \in owned[k] /\ level[dev[arg[k]]][arg[k]] = 0
          BY <1>00, <2>4, <4>1 DEF CallsAreOnOwnLinks, RequestersHoldNothing, InCall
        <4>3. arg[k] # l
          BY <1>0, <3>1, <4>1, <4>2 DEF OwnedOnce
        <4>4. arg[k] \in Lids /\ dev[arg[k]] \in Devices
          BY <1>0, <4>1 DEF TypeOK
        <4> QED
          BY <2>1, <2>2, <4>2, <4>3, <4>4
      <3>5. LocksDoNotNest'
        <4>1. level'[e][l] <= 1
          <5>1. CASE GrantLock(c)
            BY <1>00, <2>1, <2>4, <5>1 DEF GrantLock, RequestersHoldNothing
          <5>2. CASE Unlocked(c)
            BY <1>0, <1>000, <2>1, <2>4, <5>2 DEF TypeOK, LocksDoNotNest
          <5> QED
            BY <1>3, <5>1, <5>2
        <4> QED
          BY <1>000, <2>1, <2>2, <2>4, <4>1 DEF LocksDoNotNest
      <3> QED
        BY <3>2, <3>3, <3>4, <3>5
    <2> QED
      BY <2>2, <2>3, <2>4 DEF OwnInv, LocksDoNotNest
  <1>4. ASSUME NEW c \in Conns, CreateTimesOut(c) PROVE OwnInv'
    <2>1. PICK l \in Lids : l = arg[c] /\ dev[l] \in Devices
      BY <1>0, <1>4 DEF CreateTimesOut, TypeOK
    <2>2. /\ conn[c] = "creating" /\ conn' = [conn EXCEPT ![c] = "replying"]
          /\ links' = links \ {l} /\ owned' = [owned EXCEPT ![c] = owned[c] \ {l}]
          /\ UNCHANGED <<next_lid, dev, arg, locks, peers>>
      BY <1>4, <2>1 DEF CreateTimesOut, Goto
    <2>3. OwnedOnce' /\ LocksDoNotNest'
      BY <1>0, <1>000, <2>2 DEF TypeOK, OwnedOnce, LocksDoNotNest
    <2>4. ASSUME ownLinks PROVE CallsAreOnOwnLinks' /\ LocksHaveLinks' /\ RequestersHoldNothing'
      <3>1. l \in owned[c] /\ level[dev[l]][l] = 0
        BY <1>00, <2>1, <2>2, <2>4 DEF CallsAreOnOwnLinks, RequestersHoldNothing, InCall
      <3>2. \A d \in Devices : ~(level[d][l] > 0)
        BY <1>0, <2>1, <3>1 DEF Created
      <3>3. CallsAreOnOwnLinks'
        BY <1>0, <1>00, <2>1, <2>2, <2>4, <3>1 DEF TypeOK, CallsAreOnOwnLinks, InCall, OwnedOnce
      <3>4. LocksHaveLinks'
        BY <1>00, <2>2, <2>4, <3>2 DEF LocksHaveLinks
      <3>5. RequestersHoldNothing'
        BY <1>0, <1>00, <2>2, <2>4 DEF TypeOK, RequestersHoldNothing
      <3> QED
        BY <3>3, <3>4, <3>5
    <2> QED
      BY <2>2, <2>3, <2>4 DEF OwnInv
  <1>5. ASSUME NEW c \in Conns, NEW l \in Lids, DestroyLink(c, l) PROVE OwnInv'
    <2>1. \A d \in Devices, k \in Lids : level'[d][k] = IF k = l THEN 0 ELSE level[d][k]
      BY <1>0, <1>5 DEF DestroyLink, TypeOK, Locks!ReleaseAll
    <2>2. /\ conn' = [conn EXCEPT ![c] = "replying"] /\ arg' = [arg EXCEPT ![c] = l]
          /\ links' = links \ {l} /\ owned' = [owned EXCEPT ![c] = owned[c] \ {l}]
          /\ UNCHANGED <<next_lid, dev, peers>> /\ l \in Names(c)
      BY <1>5 DEF DestroyLink, Call, Goto
    <2>3. OwnedOnce'
      BY <1>0, <2>2 DEF TypeOK, OwnedOnce
    <2>4. LocksDoNotNest'
      BY <1>000, <2>1, <2>2 DEF LocksDoNotNest
    <2>5. ASSUME ownLinks PROVE CallsAreOnOwnLinks' /\ LocksHaveLinks' /\ RequestersHoldNothing'
      <3>1. l \in owned[c]
        BY <2>2, <2>5 DEF Names
      <3>2. CallsAreOnOwnLinks'
        BY <1>0, <1>00, <2>2, <2>5, <3>1 DEF TypeOK, CallsAreOnOwnLinks, InCall, OwnedOnce
      <3>3. LocksHaveLinks'
        BY <1>00, <2>1, <2>2, <2>5 DEF LocksHaveLinks
      <3>4. RequestersHoldNothing'
        <4> SUFFICES ASSUME NEW k \in Conns, conn'[k] \in {"creating", "locking"}
                     PROVE  level'[dev'[arg'[k]]][arg'[k]] = 0
          BY DEF RequestersHoldNothing
        <4>1. k # c /\ conn[k] \in {"creating", "locking"} /\ arg'[k] = arg[k]
          BY <1>0, <2>2 DEF TypeOK
        <4>2. level[dev[arg[k]]][arg[k]] = 0 /\ arg[k] \in Lids /\ dev[arg[k]] \in Devices
          BY <1>0, <1>00, <2>5, <4>1 DEF TypeOK, RequestersHoldNothing
        <4> QED
          BY <2>1, <2>2, <4>1, <4>2
      <3> QED
        BY <3>2, <3>3, <3>4
    <2> QED
      BY <2>2, <2>3, <2>4, <2>5 DEF OwnInv
  <1>6. ASSUME NEW c \in Conns, CloseConnection(c) PROVE OwnInv'
    <2>1. \A d \in Devices, l \in Lids :
            level'[d][l] = IF l \in owned[c] \cap links THEN 0 ELSE level[d][l]
      BY <1>6 DEF CloseConnection
    <2>2. /\ conn' = [conn EXCEPT ![c] = "closed"] /\ arg' = [arg EXCEPT ![c] = None]
          /\ links' = links \ owned[c] /\ UNCHANGED <<next_lid, dev, owned, peers>>
      BY <1>6 DEF CloseConnection, Call, Goto
    <2>3. OwnedOnce'
      BY <1>0, <2>2 DEF OwnedOnce
    <2>4. LocksDoNotNest'
      BY <1>000, <2>1, <2>2 DEF LocksDoNotNest
    <2>5. ASSUME ownLinks PROVE CallsAreOnOwnLinks' /\ LocksHaveLinks' /\ RequestersHoldNothing'
      <3>1. CallsAreOnOwnLinks'
        BY <1>0, <1>00, <2>2, <2>5 DEF TypeOK, CallsAreOnOwnLinks, InCall, OwnedOnce
      <3>2. LocksHaveLinks'
        BY <1>00, <2>1, <2>2, <2>5 DEF LocksHaveLinks
      <3>3. RequestersHoldNothing'
        <4> SUFFICES ASSUME NEW k \in Conns, conn'[k] \in {"creating", "locking"}
                     PROVE  level'[dev'[arg'[k]]][arg'[k]] = 0
          BY DEF RequestersHoldNothing
        <4>1. k # c /\ conn[k] \in {"creating", "locking"} /\ arg'[k] = arg[k]
          BY <1>0, <2>2 DEF TypeOK
        <4>2. level[dev[arg[k]]][arg[k]] = 0 /\ arg[k] \in Lids /\ dev[arg[k]] \in Devices
          BY <1>0, <1>00, <2>5, <4>1 DEF TypeOK, RequestersHoldNothing
        <4> QED
          BY <2>1, <2>2, <4>1, <4>2
      <3> QED
        BY <3>1, <3>2, <3>3
    <2> QED
      BY <2>2, <2>3, <2>4, <2>5 DEF OwnInv
  <1>7. CASE UNCHANGED vars
    BY <1>0, <1>00, <1>000, <1>7
       DEF vars, OwnInv, OwnedOnce, CallsAreOnOwnLinks, LocksHaveLinks, RequestersHoldNothing,
           LocksDoNotNest
  <1> QED
    BY <1>1, <1>2, <1>3, <1>4, <1>5, <1>6, <1>7 DEF Next, Client, Task, Looks

\* Connections that keep to their own links lock what is theirs and in the table.
LEMMA OwnInvariant == Spec => [](LinkInv /\ OwnInv)
  BY LinkInvInit, LinkInvStep, OwnInvInit, OwnInvStep, PTL DEF Spec

-----------------------------------------------------------------------------
(* The theorems.                                                           *)

\* The links, the connections and the locks keep their types: a call in progress has a
\* link, and that link a device.
THEOREM LinksTyped == Spec => []TypeOK
  <1>1. LinkInv => TypeOK
    BY DEF LinkInv
  <1> QED
    BY <1>1, LinkInvariant, PTL

\* Every slot of the link table is one that a connection still being served gives back.
THEOREM LinksComeBack == Spec => []LinksAreRecovered
  <1>1. LinkInv => LinksAreRecovered
    BY DEF LinkInv
  <1> QED
    BY <1>1, LinkInvariant, PTL

\* A lock is held by a link in the table, of a connection still being served.
THEOREM LocksGoWithLinks == Spec => []LocksEndWithTheirLinks
  <1>1. LinkInv /\ OwnInv => LocksEndWithTheirLinks
    BY DEF LinkInv, OwnInv, LocksHaveLinks, LinksAreRecovered, LocksEndWithTheirLinks,
           LocksGoWithTheConnection
  <1> QED
    BY <1>1, OwnInvariant, PTL

\* RULE B.6.72 without a lock around holds and request_exclusive: no second level.
THEOREM LinksDoNotNest == Spec => []LocksDoNotNest
  <1>1. OwnInv => LocksDoNotNest
    BY DEF OwnInv
  <1> QED
    BY <1>1, OwnInvariant, PTL

\* A link loses a lock by device_unlock on it or with the link, whoever names it.
THEOREM LocksStay == Spec => LocksAreKept
  <1>1. LinkInv /\ [Next]_vars => [KeepsLocks]_vars
    <2> SUFFICES ASSUME LinkInv, Next PROVE KeepsLocks
      OBVIOUS
    <2> USE DEF table, locks, peers
    <2>0. level \in [Devices -> [Lids -> Nat]] /\ TypeOK
      BY DEF LinkInv, TypeOK
    <2> SUFFICES ASSUME NEW d \in Devices, NEW l \in Lids, level'[d][l] < level[d][l]
                 PROVE  l \notin links' \/ \E c \in Conns : conn[c] = "unlocking" /\ arg[c] = l
      BY DEF KeepsLocks
    <2>1. level' # level
      BY <2>0
    <2>2. ASSUME NEW c \in Conns, Looks(c) PROVE FALSE
      <3>1. UNCHANGED level
        BY <2>2, LooksFacts
      <3> QED
        BY <2>1, <3>1
    <2>3. ASSUME NEW c \in Conns, GrantLock(c) \/ Unlocked(c)
          PROVE  conn[c] = "unlocking" /\ arg[c] = l
      <3>1. PICK k \in Lids, e \in Devices :
              /\ k = arg[c]
              /\ \A f \in Devices, j \in Lids : f # e \/ j # k => level'[f][j] = level[f][j]
              /\ GrantLock(c) => level'[e][k] = level[e][k] + 1
        BY <2>0, <2>3, LockSteps
      <3>2. l = arg[c] /\ ~GrantLock(c)
        BY <2>0, <3>1
      <3> QED
        BY <2>3, <3>2 DEF Unlocked
    <2>4. ASSUME NEW c \in Conns, DestroyLink(c, l) PROVE l \notin links'
      BY <2>4 DEF DestroyLink
    <2>5. ASSUME NEW c \in Conns, NEW k \in Lids, DestroyLink(c, k) PROVE k = l
      BY <2>0, <2>5 DEF DestroyLink, Locks!ReleaseAll
    <2>6. ASSUME NEW c \in Conns, CloseConnection(c) PROVE l \notin links'
      BY <2>0, <2>6 DEF CloseConnection
    <2>7. ASSUME NEW c \in Conns, NEW e \in Devices, NEW b \in BOOLEAN, CreateLink(c, e, b)
          PROVE  FALSE
      BY <2>1, <2>7 DEF CreateLink
    <2>8. ASSUME NEW c \in Conns, CreateTimesOut(c) PROVE FALSE
      BY <2>1, <2>8 DEF CreateTimesOut
    <2> QED
      BY <2>2, <2>3, <2>4, <2>5, <2>6, <2>7, <2>8 DEF Next, Client, Task, Looks
  <1> QED
    BY <1>1, LinkInvariant, PTL DEF Spec, LocksAreKept

-----------------------------------------------------------------------------
(* device_abort.                                                           *)

\* An abort that was stored has terminated a call, waits in aborted, or was discarded:
\* the swaps of take_abort and drop leave nothing for a second call.
AbortInv ==
  /\ aborted \in BOOLEAN /\ stored \in Nat /\ terminated \in Nat
  /\ terminated <= stored
  /\ aborted => terminated + 1 <= stored

\* No abort has been stored at first.
LEMMA AbortInvInit == AbortInit => AbortInv
  <1>1. AbortInit => aborted = FALSE /\ stored = 0 /\ terminated = 0
    BY DEF AbortInit
  <1>2. 0 \in Nat /\ 0 <= 0
    OBVIOUS
  <1> QED
    BY <1>1, <1>2, Zenon DEF AbortInv

\* A call that answers Abort takes the abort with it.
LEMMA Swapped ==
  ASSUME AbortInv, NEW c \in Callers, TakeAbort, aborted, AnswerAbort(c)
  PROVE  AbortInv'
  <1>1. aborted' = FALSE /\ stored' = stored /\ terminated' = terminated + 1
    BY DEF TakeAbort, AnswerAbort
  <1>2. terminated + 1 <= stored /\ stored \in Nat /\ terminated \in Nat
    BY DEF AbortInv
  <1>3. terminated' <= stored' /\ stored' \in Nat /\ terminated' \in Nat
    BY <1>1, <1>2
  <1> QED
    BY <1>1, <1>3, Zenon DEF AbortInv

\* What takes an abort away, or leaves all as it is, leaves room.
LEMMA Spared ==
  ASSUME AbortInv, aborted' \in {aborted, FALSE}, UNCHANGED <<stored, terminated>>
  PROVE  AbortInv'
  <1>1. CASE aborted' = aborted
    BY <1>1 DEF AbortInv
  <1>2. CASE aborted' = FALSE
    BY <1>2 DEF AbortInv
  <1> QED
    BY <1>1, <1>2

\* Every step keeps the invariant.
LEMMA AbortInvStep == AbortInv /\ [AbortNext]_abortVars => AbortInv'
  <1> SUFFICES ASSUME AbortInv, [AbortNext]_abortVars PROVE AbortInv'
    OBVIOUS
  <1>1. ASSUME NEW c \in Callers, Notified(c) PROVE AbortInv'
    <2>1. CASE aborted
      BY <1>1, <2>1, Swapped DEF Notified
    <2>2. CASE ~aborted
      BY <1>1, <2>2, Spared DEF Notified, TakeAbort, history
    <2> QED
      BY <2>1, <2>2
  <1>2. ASSUME NEW c \in Callers, Check(c) PROVE AbortInv'
    <2>1. CASE aborted
      BY <1>2, <2>1, Swapped DEF Check
    <2>2. CASE ~aborted
      BY <1>2, <2>2, Spared DEF Check, TakeAbort, history
    <2> QED
      BY <2>1, <2>2
  <1>3. ASSUME NEW c \in Callers, Final(c) PROVE AbortInv'
    <2>1. CASE aborted
      BY <1>3, <2>1, Swapped DEF Final
    <2>2. CASE ~aborted
      BY <1>3, <2>2, Spared DEF Final, TakeAbort, history
    <2> QED
      BY <2>1, <2>2
  <1>4. ASSUME NEW c \in Callers,
               (\E k \in Kinds : Open(c, k)) \/ LockEnds(c) \/ MoreToTransfer(c) \/ TransferEnds(c) \/ DropWindow(c)
        PROVE  AbortInv'
    <2>1. aborted' \in {aborted, FALSE} /\ UNCHANGED <<stored, terminated>>
      BY <1>4 DEF Open, LockEnds, MoreToTransfer, TransferEnds, DropWindow, Discard, Close, link, history
    <2> QED
      BY <2>1, Spared
  <1>5. ASSUME NEW a \in Aborters, Load(a) \/ NotifyOne(a) PROVE AbortInv'
    <2>1. aborted' = aborted /\ UNCHANGED <<stored, terminated>>
      BY <1>5 DEF Load, NotifyOne, link, history
    <2> QED
      BY <2>1, Spared
  <1>6. ASSUME NEW a \in Aborters, Store(a) PROVE AbortInv'
    BY <1>6 DEF Store, AbortInv
  <1>7. ASSUME UNCHANGED abortVars PROVE AbortInv'
    BY <1>7, Spared DEF abortVars, link, history
  <1> QED
    BY <1>1, <1>2, <1>3, <1>4, <1>5, <1>6, <1>7 DEF AbortNext, Wakeup, Transfer, Dispatch

\* The flags of the link, and everything else of AbortTypeOK.
Flags == in_flight \in BOOLEAN /\ aborted \in BOOLEAN /\ permit \in BOOLEAN

CallsTyped ==
  /\ kind \in [Callers -> Kinds] /\ pc \in [Callers -> Pcs]
  /\ result \in [Callers -> {"none", "done", "abort"}] /\ calls \in [Callers -> 0..MaxCalls]
  /\ abortPc \in [Aborters -> {"idle", "store", "notify"}] /\ aborts \in [Aborters -> 0..MaxAborts]
  /\ target \subseteq Callers /\ stored \in Nat /\ terminated \in Nat
  /\ \A c \in Callers : /\ pc[c] = "select" => kind[c] = "lock"
                        /\ pc[c] = "check" => kind[c] \in {"write", "read"}

\* Flags are stored as TRUE or FALSE.
LEMMA FlagsStep == Flags /\ [AbortNext]_abortVars => Flags'
  <1> SUFFICES ASSUME Flags, [AbortNext]_abortVars PROVE Flags'
    OBVIOUS
  <1>1. in_flight' \in {in_flight, TRUE, FALSE}
    BY Zenon DEF AbortNext, Open, LockEnds, Wakeup, Notified, Transfer, Check, MoreToTransfer, TransferEnds,
       Final, DropWindow, Discard, Close, Load, Dispatch, Store, NotifyOne, link, abortVars
  <1>2. permit' \in {permit, TRUE, FALSE}
    BY Zenon DEF AbortNext, Open, LockEnds, Wakeup, Notified, Transfer, Check, MoreToTransfer, TransferEnds,
       Final, DropWindow, Discard, Close, Load, Dispatch, Store, NotifyOne, link, abortVars
  <1>3. aborted' \in {aborted, TRUE, FALSE}
    BY Zenon DEF AbortNext, Open, LockEnds, Wakeup, Notified, Transfer, Check, MoreToTransfer, TransferEnds,
       Final, DropWindow, Discard, Close, Load, Dispatch, Store, NotifyOne, link, abortVars, TakeAbort
  <1> QED
    BY <1>1, <1>2, <1>3, Zenon DEF Flags

\* An answer of either kind.
LEMMA AnswerTyped ==
  ASSUME CallsTyped, NEW c \in Callers, NEW r \in {"done", "abort"}, Answer(c, r),
         terminated' \in {terminated, terminated + 1},
         UNCHANGED <<kind, calls, aborting, target, stored>>
  PROVE  CallsTyped'
  BY DEF CallsTyped, Answer, CallGoto, Kinds, Pcs, aborting

\* A call goes on to a state its kind has.
LEMMA GotoTyped ==
  ASSUME CallsTyped, NEW c \in Callers, NEW to \in Pcs, CallGoto(c, to),
         to = "select" => kind[c] = "lock", to = "check" => kind[c] \in {"write", "read"},
         UNCHANGED <<kind, result, calls, aborting, history>>
  PROVE  CallsTyped'
  BY DEF CallsTyped, CallGoto, Kinds, Pcs, aborting, history

\* Every other variable keeps its type, and a call is only where its kind can be.
LEMMA CallsTypedStep == CallsTyped /\ [AbortNext]_abortVars => CallsTyped'
  <1> SUFFICES ASSUME CallsTyped, [AbortNext]_abortVars PROVE CallsTyped'
    OBVIOUS
  <1>1. ASSUME NEW c \in Callers, NEW k \in Kinds, Open(c, k) PROVE CallsTyped'
    <2> DEFINE to == CASE k = "lock" -> "select" [] k = "simple" -> "bus" [] OTHER -> "check"
    <2>1. /\ calls[c] < MaxCalls /\ calls' = [calls EXCEPT ![c] = @ + 1]
          /\ kind' = [kind EXCEPT ![c] = k] /\ pc' = [pc EXCEPT ![c] = to]
          /\ result' = [result EXCEPT ![c] = "none"] /\ target' = target \ {c}
          /\ UNCHANGED <<abortPc, aborts, stored, terminated>>
      BY <1>1 DEF Open, CallGoto, aborting
    <2>2. /\ to \in {"select", "bus", "check"} /\ (to = "select" => k = "lock")
          /\ (to = "check" => k \in {"write", "read"})
      BY DEF Kinds
    <2> HIDE DEF to
    <2> QED
      BY <2>1, <2>2, CountsAssumption DEF CallsTyped, Kinds, Pcs
  <1>2. ASSUME NEW c \in Callers, Answer(c, "done"), UNCHANGED <<kind, calls, aborting, history>>
        PROVE  CallsTyped'
    BY <1>2, AnswerTyped DEF history
  <1>3. ASSUME NEW c \in Callers, AnswerAbort(c), UNCHANGED aborting PROVE CallsTyped'
    BY <1>3, AnswerTyped DEF AnswerAbort
  <1>4. ASSUME UNCHANGED <<calling, aborting, history>> PROVE CallsTyped'
    BY <1>4 DEF CallsTyped, calling, aborting, history
  <1>5. ASSUME NEW c \in Callers, LockEnds(c) PROVE CallsTyped'
    BY <1>2, <1>5 DEF LockEnds
  <1>6. ASSUME NEW c \in Callers, Notified(c) PROVE CallsTyped'
    <2>1. CASE aborted
      BY <1>3, <1>6, <2>1 DEF Notified
    <2>2. CASE ~aborted
      BY <1>4, <1>6, <2>2 DEF Notified
    <2> QED
      BY <2>1, <2>2
  <1>7. ASSUME NEW c \in Callers, Check(c) PROVE CallsTyped'
    <2>1. CASE aborted
      BY <1>3, <1>7, <2>1 DEF Check
    <2>2. CASE ~aborted
      <3>1. /\ (CallGoto(c, "bus") /\ UNCHANGED result) \/ Answer(c, "done")
            /\ UNCHANGED <<kind, calls, aborting, history>>
        BY <1>7, <2>2 DEF Check
      <3> QED
        BY <1>2, <3>1, GotoTyped DEF Pcs
    <2> QED
      BY <2>1, <2>2
  <1>8. ASSUME NEW c \in Callers, MoreToTransfer(c) PROVE CallsTyped'
    BY <1>8, GotoTyped DEF MoreToTransfer, Pcs
  <1>9. ASSUME NEW c \in Callers, TransferEnds(c) PROVE CallsTyped'
    BY <1>2, <1>9, GotoTyped DEF TransferEnds, Pcs
  <1>10. ASSUME NEW c \in Callers, Final(c) PROVE CallsTyped'
    <2>1. CASE aborted
      BY <1>3, <1>10, <2>1 DEF Final
    <2>2. CASE ~aborted
      BY <1>2, <1>10, <2>2 DEF Final
    <2> QED
      BY <2>1, <2>2
  <1>11. ASSUME NEW c \in Callers, DropWindow(c) PROVE CallsTyped'
    BY <1>11, GotoTyped DEF DropWindow, Discard, Close, Pcs
  <1>12. ASSUME NEW a \in Aborters, Load(a) PROVE CallsTyped'
    <2>1. /\ aborts[a] < MaxAborts /\ aborts' = [aborts EXCEPT ![a] = @ + 1]
          /\ abortPc' \in {abortPc, [abortPc EXCEPT ![a] = "store"]}
          /\ target' \in {target, target \cup {c \in Callers : InWindow(c)}}
          /\ UNCHANGED <<calling, stored, terminated>>
      BY <1>12, Zenon DEF Load
    <2> QED
      BY <2>1, CountsAssumption DEF CallsTyped, calling
  <1>13. ASSUME NEW a \in Aborters, Dispatch(a) PROVE CallsTyped'
    <2>1. /\ \E x \in {"notify", "idle"} : abortPc' = [abortPc EXCEPT ![a] = x]
          /\ stored' \in {stored, stored + 1} /\ UNCHANGED <<calling, aborts, target, terminated>>
      BY <1>13 DEF Dispatch, Store, NotifyOne, history
    <2> QED
      BY <2>1 DEF CallsTyped, calling
  <1>14. ASSUME UNCHANGED abortVars PROVE CallsTyped'
    BY <1>4, <1>14 DEF abortVars
  <1> QED
    BY <1>1, <1>5, <1>6, <1>7, <1>8, <1>9, <1>10, <1>11, <1>12, <1>13, <1>14
       DEF AbortNext, Wakeup, Transfer

\* At first nothing runs.
LEMMA AbortTypeInit == AbortInit => Flags /\ CallsTyped
  <1> SUFFICES ASSUME AbortInit PROVE Flags /\ CallsTyped
    OBVIOUS
  <1>1. Flags
    BY Zenon DEF AbortInit, Flags
  <1>2. CallsTyped
    BY CountsAssumption DEF AbortInit, CallsTyped, Kinds, Pcs
  <1> QED
    BY <1>1, <1>2

\* One device_abort terminates at most one call, however many connections run calls on one
\* link and however many abort channels there are.
THEOREM AbortsAreConsumedOnce == AbortSpec => []AbortIsConsumedOnce
  <1>1. Flags /\ CallsTyped => AbortTypeOK
    BY DEF Flags, CallsTyped, AbortTypeOK
  <1>2. AbortInv /\ Flags /\ CallsTyped => AbortIsConsumedOnce
    BY <1>1 DEF AbortInv, AbortIsConsumedOnce
  <1> QED
    BY <1>2, AbortInvInit, AbortInvStep, AbortTypeInit, FlagsStep, CallsTypedStep, PTL DEF AbortSpec
=============================================================================
