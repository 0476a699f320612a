------------------------------- MODULE ViLock -------------------------------
(***************************************************************************)
(* What the lock registry promises its clients, the viLock semantics of    *)
(* the header of server/src/frontend/lock.rs, with no table, name, task,   *)
(* wait or wakeup in sight: how many levels each holder has, and whether   *)
(* one holder is the sole owner.                                           *)
(***************************************************************************)
EXTENDS Integers

CONSTANTS Holders, Resources, None

VARIABLES
  level,   \* unmatched grants of each holder on each resource
  sole     \* the holder of an exclusive lock, or None

vars == <<level, sole>>

Init ==
  /\ level = [r \in Resources |-> [h \in Holders |-> 0]]
  /\ sole = [r \in Resources |-> None]

\* An exclusive grant: nobody else holds anything.
GrantExclusive(h, r) ==
  /\ \A k \in Holders \ {h} : level[r][k] = 0
  /\ level' = [level EXCEPT ![r][h] = @ + 1]
  /\ sole' = [sole EXCEPT ![r] = h]

\* A shared grant: nobody else owns the resource alone.
GrantShared(h, r) ==
  /\ sole[r] \in {None, h}
  /\ level' = [level EXCEPT ![r][h] = @ + 1]
  /\ UNCHANGED sole

\* One release undoes one grant; sole ownership ends at the latest with the
\* last level, and only at its owner's hand.
Release(h, r) ==
  /\ level[r][h] > 0
  /\ level' = [level EXCEPT ![r][h] = @ - 1]
  /\ \/ UNCHANGED sole /\ (sole[r] = h => level[r][h] > 1)
     \/ sole[r] = h /\ sole' = [sole EXCEPT ![r] = None]

\* The end of a session undoes all of its grants, everywhere.
ReleaseAll(h) ==
  /\ level' = [r \in Resources |-> [level[r] EXCEPT ![h] = 0]]
  /\ sole' = [r \in Resources |-> IF sole[r] = h THEN None ELSE sole[r]]

Next ==
  \E h \in Holders :
    \/ \E r \in Resources : GrantExclusive(h, r) \/ GrantShared(h, r) \/ Release(h, r)
    \/ ReleaseAll(h)

Spec == Init /\ [][Next]_vars

\* The promise: while one holder owns a resource alone it holds a level of it,
\* and no other holder does.
SoleOwnership ==
  \A r \in Resources :
    sole[r] # None =>
      /\ level[r][sole[r]] > 0
      /\ \A k \in Holders \ {sole[r]} : level[r][k] = 0
=============================================================================
