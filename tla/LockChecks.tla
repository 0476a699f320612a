----------------------------- MODULE LockChecks ------------------------------
(***************************************************************************)
(* 05_lock.py and 10_lock_semantics.py: what the lock checks do, step by   *)
(* step, against a VISA library that has one flaw, or that conforms but    *)
(* loses an answer, raises or hangs once.                                  *)
(***************************************************************************)
EXTENDS CheckProgram, LockPrograms

CONSTANT Suites   \* script, transport -> its checks: LockSuites

Sessions == {"a", "b"}
\* The sessions an abandoned or failed check of 10_lock_semantics left; the checks
\* after it open their own.
Left == [a |-> "a left", b |-> "b left"]
Everyone == Sessions \cup {Left[s] : s \in Sessions}

-----------------------------------------------------------------------------
(* The library and the script running against it.                          *)

VARIABLES
  open, bare,  \* open sessions; those no with will close
  excl, shared,  \* session -> lock counts
  accessKey,   \* the key of the shared lock
  leaked       \* a flawed library still holds a lock nobody owns

library == <<open, bare, excl, shared, accessKey, leaked>>
vars == <<control, library>>

\* The check that is there for a flaw, and the transports it runs on.
Catchers ==
  [ forwards |-> "exclusive nesting", plain |-> "exclusive nesting", uncounted |-> "nesting holds",
    unenforced |-> "immediate", refusesshared |-> "shared cycles",
    otherkey |-> "shared cycles", anykey |-> "wrong key",
    acceptslong |-> "long key", leaky |-> "close releases", leakydrop |-> "dies with connection",
    impatient |-> "full wait", slow |-> "immediate", newkey |-> "key stable",
    forgiving |-> "unlock underflow", silent |-> "unlock reports nesting",
    keymatters |-> "ignores key", stateless |-> "state exclusive" ]

LockFlaws == DOMAIN Catchers \cup {"none"}

Suite == Suites[script, transport]
Locals == {"x", "y", "z", "u", "waited", "key x", "key y", Anything}
Kept == {"server"}
Blank == [r \in Locals \cup Kept |-> IF r \in Locals THEN "unset" ELSE regs[r]]

Init ==
  /\ script \in LockScripts /\ transport \in EitherTransport /\ flaw \in LockFlaws
  \* Only check_lock_dies_with_connection asks for the mock server.
  /\ \E server \in IF script = "10_lock_semantics" /\ transport = "vxi11"
                    THEN {"yes", "no"} ELSE {"yes"} :
       Start([r \in Locals \cup Kept |-> IF r = "server" THEN server ELSE "unset"])
  /\ open = IF script = "05_lock" THEN Sessions ELSE {}
  /\ bare = {}
  /\ excl = [s \in Everyone |-> 0] /\ shared = [s \in Everyone |-> 0]
  /\ accessKey = NoKey /\ leaked = FALSE

\* viLock and viUnlock as VPP-4.3 3.6 has them, or with the one flaw.
I == Instr(Suite)
\* The session an instruction is about: 05_lock has two for all its checks.
Mine == IF turn = "stray" /\ script = "10_lock_semantics" THEN Left[I.s] ELSE I.s
Held(s) == excl[s] + shared[s] > 0
Others(s) == Everyone \ {s}
HeldByOther(s) == \E t \in Others(s) : Held(t)
OthersExclusive(s) == \E t \in Others(s) : excl[t] > 0
OthersShare(s) == \E t \in Others(s) : shared[t] > 0
Answer(st, key, x, sh, waited) ==
  [status |-> st, key |-> key, excl |-> x, shared |-> sh, waited |-> waited]
Wait(wait) ==
  IF (wait = "immediate" /\ flaw # "slow") \/ flaw = "impatient" THEN "none" ELSE "full"
ViLockExclusive(i, s, x, sh) ==
  CASE flaw = "keymatters" /\ i.key # NoKey -> Answer("badkey", "", x, sh, "none")
    [] x > 0 /\ flaw = "forwards"  -> Answer("timeout", "", x, sh, "full")
    [] x > 0 /\ flaw = "uncounted" -> Answer("nestedX", "", x, sh, "none")
    [] x > 0 /\ flaw = "plain"     -> Answer("success", "", x + 1, sh, "none")
    [] x > 0 /\ flaw \notin {"forwards", "uncounted", "plain"} ->
         Answer("nestedX", "", x + 1, sh, "none")
    [] x = 0 /\ (flaw = "unenforced" \/ ~(leaked \/ HeldByOther(s))) ->
         Answer("success", "", 1, sh, "none")
    [] OTHER -> Answer("timeout", "", x, sh, Wait(i.wait))
ViLockShared(i, s, x, sh) ==
  LET back == IF flaw = "otherkey" \/ (flaw = "newkey" /\ sh > 0) THEN "new" ELSE i.key IN
  CASE flaw = "refusesshared" -> Answer("invalidprotocol", "", x, sh, "none")
    [] i.key = "long" /\ flaw # "acceptslong" -> Answer("badkey", "", x, sh, "none")
    [] sh > 0 /\ i.key # accessKey /\ flaw # "anykey" -> Answer("badkey", "", x, sh, "none")
    [] sh > 0 /\ (i.key = accessKey \/ flaw = "anykey") ->
         Answer("nestedS", back, x, sh + 1, "none")
    [] sh = 0 /\ (leaked \/ OthersExclusive(s) \/ (OthersShare(s) /\ i.key # accessKey))
         -> Answer("timeout", "", x, sh, Wait(i.wait))
    [] OTHER -> Answer("success", back, x, sh + 1, "none")
ViUnlock(x, sh) ==
  LET nx == IF x > 0 THEN x - 1 ELSE 0
      ns == IF x = 0 /\ sh > 0 THEN sh - 1 ELSE sh
      st == IF x + sh = 0 THEN IF flaw = "forgiving" THEN "success" ELSE "notlocked"
            ELSE IF flaw = "silent" THEN "success"
            ELSE IF nx > 0 THEN "nestedX" ELSE IF ns > 0 THEN "nestedS" ELSE "success"
  IN Answer(st, "", nx, ns, "none")
Refused(s) ==
  flaw # "unenforced" /\ (leaked \/ OthersExclusive(s) \/ (OthersShare(s) /\ ~Held(s)))

\* visa.call and visa.status: the answer, or a timeout whether or not the library acted.
Answered(i, s, x, sh) ==
  IF i.op = "unlock" THEN ViUnlock(x, sh)
  ELSE IF i.kind = "shared" THEN ViLockShared(i, s, x, sh) ELSE ViLockExclusive(i, s, x, sh)
Acted(i, s, r) ==
  /\ excl' = [excl EXCEPT ![s] = r.excl]
  /\ shared' = [shared EXCEPT ![s] = r.shared]
  /\ accessKey' = IF r.shared > shared[s] /\ shared[s] = 0 THEN i.key ELSE accessKey
Call ==
  /\ At(Suite, {"lock", "unlock"})
  /\ \E i \in {I}, s \in {Mine} : \E r \in {Answered(i, s, excl[s], shared[s])} :
       \/ /\ Acted(i, s, r) /\ UNCHANGED mishap
          /\ regs' = [regs EXCEPT ![i.r] = r.status, !["waited"] = r.waited,
                      ![IF i.r \in DOMAIN KeyOf THEN KeyOf[i.r] ELSE Anything] = r.key]
       \/ /\ flaw = "none" /\ mishap = "none" /\ mishap' = "lost"
          /\ Acted(i, s, r) \/ UNCHANGED <<excl, shared, accessKey>>
          /\ regs' = [regs EXCEPT ![i.r] = "timeout", !["waited"] = "full"]
  /\ Advance(Suite) /\ UNCHANGED <<open, bare, leaked>>

Ask ==
  /\ At(Suite, {"query", "state", "same", "keyis"})
  /\ regs' = [regs EXCEPT ![I.r] =
       CASE I.op = "same"  -> IF regs[KeyOf[I.r]] = regs[KeyOf[I.q]] THEN "same" ELSE "different"
         [] I.op = "keyis" -> IF regs[KeyOf[I.r]] = I.key THEN "same" ELSE "different"
         [] I.op = "query" -> IF Refused(Mine) THEN "refused" ELSE "answered"
         [] I.op = "state" -> IF flaw = "stateless" THEN "unlocked"
                              ELSE IF excl[Mine] > 0 THEN "exclusive"
                              ELSE IF shared[Mine] > 0 THEN "shared" ELSE "unlocked"]
  /\ Advance(Suite) /\ UNCHANGED <<mishap, library>>

OpenSession ==
  /\ At(Suite, {"open", "openbare"})
  /\ open' = open \cup {Mine}
  /\ IF I.op = "open" THEN cleanup' = <<Close(I.s)>> \o cleanup /\ UNCHANGED bare
                       ELSE bare' = bare \cup {Mine} /\ UNCHANGED cleanup
  /\ ip' = ip + 1
  /\ UNCHANGED <<program, n, regs, verdicts, threads, excl, shared, accessKey, leaked>>

\* The library closes sessions, or loses their connection.
Forget(ss, leakiness) ==
  /\ excl' = [s \in Everyone |-> IF s \in ss THEN 0 ELSE excl[s]]
  /\ shared' = [s \in Everyone |-> IF s \in ss THEN 0 ELSE shared[s]]
  /\ leaked' = (leaked \/ (flaw = leakiness /\ \E s \in ss : Held(s)))

CloseSession ==
  /\ At(Suite, {"close", "drop"})
  /\ open' = IF I.op = "close" THEN open \ {Mine} ELSE open
  /\ bare' = IF I.op = "close" THEN bare \ {Mine} ELSE bare
  /\ Forget({Mine}, IF I.op = "close" THEN "leaky" ELSE "leakydrop")
  /\ Advance(Suite) /\ UNCHANGED <<regs, mishap, accessKey>>

\* The sessions of a check that ends without closing them are no longer the next check's.
Leave(ss) ==
  LET moved(f) == [s \in Everyone |->
        IF s \in ss THEN 0
        ELSE IF \E t \in ss : Left[t] = s THEN f[CHOOSE t \in ss : Left[t] = s] ELSE f[s]]
      gone(set) == (set \ ss) \cup {Left[s] : s \in ss \cap set}
  IN /\ excl' = moved(excl) /\ shared' = moved(shared)
     /\ open' = gone(open) /\ bare' = gone(bare)
     /\ UNCHANGED <<accessKey, leaked>>

\* A session no with closes outlives a check that failed: its exception, the traceback's
\* frames and _with_watchdog's box hold each other.
EndCheck ==
  \/ Return(Suite, Blank) /\ Leave(bare \cap Sessions)
  \/ StrayEnds(Suite, Kept) /\ UNCHANGED library

\* The collector finds the cycle, at any time later, and the session is closed.
CollectCycle ==
  LET garbage == bare \ Sessions IN
  /\ garbage # {} /\ ~StrayLives
  /\ open' = open \ garbage /\ bare' = bare \ garbage
  /\ Forget(garbage, "leaky")
  /\ UNCHANGED <<control, accessKey>>

\* What the library may do once to a check: raise, or take longer than its watchdog.
LibraryCalls == {"lock", "unlock", "query", "state", "open", "openbare", "close", "drop"}
Mishap ==
  \/ Raises(Suite, {"query", "open", "openbare", "close"}, {}) /\ UNCHANGED library
  \/ /\ Abandon(Suite, LibraryCalls, Blank, <<>>)
     /\ IF script = "10_lock_semantics" THEN Leave(Sessions) ELSE UNCHANGED library

Control ==
  /\ PassOver(Suite) \/ Push(Suite) \/ Decide(Suite) \/ Switch(Suite, LibraryCalls, Kept, <<>>)
  /\ UNCHANGED library
Next ==
  \/ Control \/ Call \/ Ask \/ OpenSession \/ CloseSession
  \/ EndCheck \/ CollectCycle \/ Mishap

Spec == Init /\ [][Next]_vars

-----------------------------------------------------------------------------
(* Properties.                                                             *)

VerdictOf(name) == verdicts[CHOOSE i \in DOMAIN Suite : Suite[i].name = name]
Health == {"a healthy", "b healthy"}

\* A library that keeps the rules of VPP-4.3 3.6 and has no mishap passes every lock
\* check, in the order they run and whatever the ones before have left; only the one that
\* needs the mock server's faults skips without it.
NoFalseAlarm ==
  flaw = "none" /\ mishap = "none" =>
    \A i \in DOMAIN verdicts :
      verdicts[i] = IF Suite[i].name = "dies with connection" /\ regs["server"] = "no"
                    THEN "SKIP" ELSE "PASS"

\* Every flaw the checks were written for fails the check written for it, whatever
\* else the flaw does to the checks before it.
FlawsAreCaught ==
  (Finished(Suite) /\ flaw # "none") =>
    \A i \in DOMAIN Suite :
      (Suite[i].name = Catchers[flaw] /\ (flaw = "leakydrop" => regs["server"] = "yes")) =>
        verdicts[i] = "FAIL"

\* A lost answer or an exception costs the checks it concerns, never the two health
\* checks at the end: release_everything has given back whatever was left.  Only a
\* health check that itself raised fails, and then nothing else does.
HealthSurvives ==
  (Finished(Suite) /\ script = "05_lock" /\ flaw = "none" /\ mishap # "abandoned") =>
    \/ \A name \in Health : VerdictOf(name) = "PASS"
    \/ /\ mishap = "raised" /\ \E name \in Health : VerdictOf(name) = "PASS"
       /\ \A i \in DOMAIN Suite : Suite[i].name \notin Health => verdicts[i] = "PASS"

\* The locks and sessions a check of 10_lock_semantics finds when it starts are nobody's,
\* or they are those of a check the watchdog abandoned, whose thread is still to give them
\* back, or of a failed check's holder that is yet to be collected.  Only a library that
\* leaks, or a close that raised, leaves more.
ChecksStandAlone ==
  (/\ script = "10_lock_semantics" /\ flaw \notin {"leaky", "leakydrop"}
   /\ mishap # "uncleaned" /\ BetweenChecks) =>
    /\ ~leaked /\ open \cap Sessions = {}
    /\ \A s \in Everyone : Held(s) => s \in open
    /\ open # {} => StrayLives \/ (open \subseteq bare /\ \E i \in DOMAIN verdicts :
                                      verdicts[i] = "FAIL")
=============================================================================
