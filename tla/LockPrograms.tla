---------------------------- MODULE LockPrograms -----------------------------
(***************************************************************************)
(* The checks of 05_lock.py and 10_lock_semantics.py.                      *)
(***************************************************************************)
EXTENDS CheckSteps

NoKey == "none"

-----------------------------------------------------------------------------
(* The instructions.                                                       *)

Open(s) == [op |-> "open", s |-> s]           \* with open_inst() as s
OpenBare(s) == [op |-> "openbare", s |-> s]   \* open_resource, closed by hand
Close(s) == [op |-> "close", s |-> s]
Drop(s) == [op |-> "drop", s |-> s]           \* the connection dies under it
Exclusive(s, wait, key, r) ==
  [op |-> "lock", s |-> s, kind |-> "exclusive", wait |-> wait, key |-> key, r |-> r]
Shared(s, key, r) ==
  [op |-> "lock", s |-> s, kind |-> "shared", wait |-> "long", key |-> key, r |-> r]
Unlock(s, r) == [op |-> "unlock", s |-> s, r |-> r]
State(s, r) == [op |-> "state", s |-> s, r |-> r]
Query(s, r) == [op |-> "query", s |-> s, r |-> r]
KeyOf == [x |-> "key x", y |-> "key y"]    \* the registers of the keys viLock returns
Same(r, q) == [op |-> "same", r |-> r, q |-> q]    \* whether the two keys are equal
KeyIs(r, key) == [op |-> "keyis", r |-> r, key |-> key]

Statuses == {"success", "nestedX", "nestedS", "timeout", "notlocked", "invalidprotocol", "badkey"}
Ok == {"success"}
OkX == {"success", "nestedX"}
OkS == {"success", "nestedS"}
Not(set) == Statuses \ set

Lock(s, r) == Exclusive(s, "long", NoKey, r)

-----------------------------------------------------------------------------
(* 05_lock.py.  Sessions a and b stay open; a cycle stands for its loop.   *)

CheckExclusiveCycles ==
  << Lock("a", "x"), Require("x", Ok), Unlock("a", "y"), Require("y", Ok),
     Lock("a", "x"), Require("x", Ok), Unlock("a", "y"), Require("y", Ok) >>
CheckSharedCycles ==
  LET cycle == << Shared("a", "stress", "x"), Require("x", Ok), KeyIs("x", "stress"),
                  Require("x", {"same"}), Unlock("a", "y"), Require("y", Ok) >>
  IN cycle \o cycle
CheckLockStateExclusive ==
  << Lock("a", Anything), State("a", "x"), Require("x", {"exclusive"}) >>
CheckLockStateCleared ==
  << Unlock("a", Anything), State("a", "x"), Require("x", {"unlocked"}) >>
CheckRedundantUnlock == << Unlock("a", "x"), Require("x", {"notlocked"}) >>
CheckALocks == << Lock("a", "x"), Require("x", Ok) >>
\* A lock B is granted and can do I/O under is not enforced, and not B's fault.
CheckBRefused ==
  << Exclusive("b", "short", NoKey, "x"),
     When("x", Ok, Query("b", "y")),
     When("y", {"answered"}, Unlock("b", Anything)),
     SkipIf("y", {"answered"}),
     Require("x", Not(Ok)) >>
CheckAUnlocks == << Unlock("a", "x"), Require("x", Ok) >>
CheckBLocksAfter == << Lock("b", "x"), Unlock("b", Anything), Require("x", Ok) >>
CheckASharedLock == << Shared("a", "team", "x"), Require("x", Ok) >>
CheckBJoinsSharedLock ==
  << Finally(Unlock("a", Anything)), Finally(Unlock("b", Anything)),
     Shared("b", "team", "x"), Require("x", Ok) >>
\* release_everything: up to four unlocks each, until one does not say VI_SUCCESS.
ReleaseAll(s) ==
  << Unlock(s, "u"), When("u", Ok, Unlock(s, "u")), When("u", Ok, Unlock(s, "u")),
     When("u", Ok, Unlock(s, "u")) >>
ReleaseEverything == ReleaseAll("a") \o ReleaseAll("b")
CheckAHealthy == ReleaseEverything \o << Query("a", "x"), Require("x", {"answered"}) >>
CheckBHealthy == << Query("b", "x"), Require("x", {"answered"}) >>

-----------------------------------------------------------------------------
(* 10_lock_semantics.py.  Every check opens its own sessions.              *)

CheckExclusiveNesting ==
  << Open("a"), Lock("a", "x"), Require("x", Ok), Lock("a", "y"),
     Unlock("a", Anything), When("y", OkX, Unlock("a", Anything)), Require("y", {"nestedX"}) >>
CheckUnlockReportsNesting ==
  << Open("a"), Lock("a", "x"), Lock("a", "y"),
     When("y", Not(OkX), Unlock("a", Anything)), SkipIf("y", Not(OkX)),
     Unlock("a", "x"), Unlock("a", "z"), Require("x", {"nestedX"}), Require("z", Ok) >>
CheckSharedNesting ==
  << Open("a"), Shared("a", "nest", "x"), SkipIf("x", {"invalidprotocol"}), Require("x", Ok),
     Shared("a", "nest", "y"), Unlock("a", Anything), When("y", OkS, Unlock("a", Anything)),
     Require("y", {"nestedS"}) >>
CheckNestingHoldsResource ==
  << Open("a"), Open("b"), Lock("a", "x"), Require("x", Ok), Lock("a", "y"),
     When("y", Not(OkX), Unlock("a", Anything)), SkipIf("y", Not(OkX)),
     Unlock("a", Anything), Exclusive("b", "short", NoKey, "z"),
     When("z", Ok, Unlock("b", Anything)), Unlock("a", Anything),
     Require("z", Not(Ok)) >>
CheckSharedWrongKey ==
  << Open("a"), Shared("a", "right", "x"), SkipIf("x", {"invalidprotocol"}), Require("x", Ok),
     Shared("a", "wrong", "y"), Unlock("a", Anything), When("y", OkS, Unlock("a", Anything)),
     Require("y", {"badkey"}) >>
CheckUnlockUnderflow ==
  << Open("a"), Lock("a", Anything), Unlock("a", "x"), Require("x", Ok),
     Unlock("a", "y"), Require("y", {"notlocked"}) >>
CheckSharedKeyStable ==
  << Open("a"), Shared("a", "nest", "x"), SkipIf("x", {"invalidprotocol"}), Require("x", Ok),
     Shared("a", "nest", "y"), Require("y", OkS), Unlock("a", Anything), Unlock("a", Anything),
     Same("x", "y"), Require("x", {"same"}) >>
CheckExclusiveIgnoresKey ==
  << Open("a"), Exclusive("a", "long", "ignored", "x"), Unlock("a", Anything), Require("x", Ok) >>
CheckLongKeyRefused ==
  << Open("a"), Shared("a", "long", "x"), When("x", Ok, Unlock("a", Anything)),
     Require("x", Not(Ok)) >>
CheckImmediateTimeout ==
  << Open("a"), Open("b"), Lock("a", "x"), Require("x", Ok), Finally(Unlock("a", Anything)),
     Exclusive("b", "immediate", NoKey, "y"), When("y", Ok, Unlock("b", Anything)),
     Require("y", Not(Ok)), Require("waited", {"none"}) >>
CheckLockWaitsFullTimeout ==
  << Open("a"), Open("b"), Lock("a", "x"), Require("x", Ok), Finally(Unlock("a", Anything)),
     Exclusive("b", "short", NoKey, "y"), When("y", Ok, Unlock("b", Anything)),
     Require("y", Not(Ok)), Require("waited", {"full"}) >>
\* The holder is closed without unlocking, or its connection dropped under it.
CheckCloseReleasesLocks ==
  << OpenBare("a"), Lock("a", "x"), Require("x", Ok), Close("a"),
     Open("b"), Lock("b", "y"), When("y", Ok, Unlock("b", Anything)), Require("y", Ok) >>
CheckLockDiesWithConnection ==
  << SkipIf("server", {"no"}),
     OpenBare("a"), Lock("a", "x"), Require("x", Ok), Drop("a"), Close("a"),
     Open("b"), Lock("b", "y"), When("y", Ok, Unlock("b", Anything)), Require("y", Ok) >>

\* In the order of the source lines, which is the order harness.collect runs them.
Lock05 ==
  << Check("exclusive cycles", EitherTransport, CheckExclusiveCycles),
     Check("shared cycles", {"hislip"}, CheckSharedCycles),
     Check("state exclusive", EitherTransport, CheckLockStateExclusive),
     Check("state cleared", EitherTransport, CheckLockStateCleared),
     Check("redundant unlock", EitherTransport, CheckRedundantUnlock),
     Check("a locks", EitherTransport, CheckALocks),
     Check("b refused", EitherTransport, CheckBRefused),
     Check("a unlocks", EitherTransport, CheckAUnlocks),
     Check("b locks after", EitherTransport, CheckBLocksAfter),
     Check("a shared", {"hislip"}, CheckASharedLock),
     Check("b joins", {"hislip"}, CheckBJoinsSharedLock),
     Check("a healthy", EitherTransport, CheckAHealthy),
     Check("b healthy", EitherTransport, CheckBHealthy) >>
Lock10 ==
  << Check("exclusive nesting", EitherTransport, CheckExclusiveNesting),
     Check("unlock reports nesting", EitherTransport, CheckUnlockReportsNesting),
     Check("shared nesting", {"hislip"}, CheckSharedNesting),
     Check("nesting holds", EitherTransport, CheckNestingHoldsResource),
     Check("wrong key", {"hislip"}, CheckSharedWrongKey),
     Check("unlock underflow", EitherTransport, CheckUnlockUnderflow),
     Check("key stable", {"hislip"}, CheckSharedKeyStable),
     Check("ignores key", EitherTransport, CheckExclusiveIgnoresKey),
     Check("long key", {"hislip"}, CheckLongKeyRefused),
     Check("immediate", EitherTransport, CheckImmediateTimeout),
     Check("full wait", EitherTransport, CheckLockWaitsFullTimeout),
     Check("close releases", EitherTransport, CheckCloseReleasesLocks),
     Check("dies with connection", {"vxi11"}, CheckLockDiesWithConnection) >>

LockScripts == {"05_lock", "10_lock_semantics"}
LockSuites ==
  [s \in LockScripts, p \in EitherTransport |->
     Collect(IF s = "05_lock" THEN Lock05 ELSE Lock10, p)]
=============================================================================
