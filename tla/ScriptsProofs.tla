--------------------------- MODULE ScriptsProofs ---------------------------
(***************************************************************************)
(* Proofs about CheckScript, for any number of checks, any of them without *)
(* a watchdog, with or without a server to replace or a report to write,   *)
(* and about Sweep, for any suite, transports and exit codes.              *)
(* None of the properties is inductive by itself: what the exit code says  *)
(* of the report rests on where the main thread has been, and on results   *)
(* only ever growing, also while the report is built and after it.         *)
(***************************************************************************)
EXTENDS CheckScript, Sweep, FiniteSetTheorems, TLAPS

-----------------------------------------------------------------------------
(* The inductive invariant: the main thread.                               *)

Early == {"start", "setup", "next"}
Filing == {"replace", "replacing"}
Reporting == {"outputs", "results", "partial", "rename"}
Leaving == {"unwind", "exit"}
Places == Early \cup {"join", "finish"} \cup Filing \cup Reporting \cup Leaving

Results == [check : 0..N, by : {"run", "own"}, kind : Ended \cup {"own", "desync"}]
Tallies == [{"PASS", "FAIL", "SKIP"} -> Nat]
Reports == [tally : Tallies, results : Seq(Results), state : {"none", "partial", "whole"}]

TypeOK ==
  /\ run \in Invocations
  /\ pc \in Places
  /\ cur \in 1..(N + 1) /\ (pc \in Filing \cup {"join"} => cur <= N)
  /\ exc \in Raised \cup {None, "interrupt"}
  /\ thread \in [Checks -> Ended \cup {None, "running", "gone"}]
  /\ left \subseteq Checks /\ looked \subseteq Checks
  /\ own \in [Checks -> Nat]
  /\ results \in Seq(Results)
  /\ draft \in Reports /\ disk \in Reports
  /\ summary \in Nat \cup {Unsaid}
  /\ code \in {Running, Killed, 0, 1, 2, 3, 4, 5, 130}

\* Where in results run_checks' Result on check c is.
FiledAt(rs, c, i) == rs[i].check = c /\ rs[i].by = "run"

\* The checks that are over have one Result each, the others none.
OnePlaceEach ==
  \A c \in Checks :
    IF Over(c) THEN \E i \in DOMAIN results : \A j \in DOMAIN results :
                      FiledAt(results, c, j) <=> j = i
               ELSE \A i \in DOMAIN results : ~FiledAt(results, c, i)

\* The report is part of what was recorded, and what it counts is part of that.
IsPart(part, whole) == Len(part) <= Len(whole) /\ \A i \in DOMAIN part : part[i] = whole[i]
NoFailure(rs) == \A i \in DOMAIN rs : Outcome(rs[i].kind) # "FAIL"
Complete(rs) == \A c \in Checks : \E i \in DOMAIN rs : rs[i].check = c

ReportsWhatWasRecorded ==
  \A d \in {draft, disk} :
    /\ IsPart(d.results, results)
    /\ NoFailure(results) => d.tally["FAIL"] = 0

\* What has been done by the time the main thread is where it is.
InOrder ==
  /\ pc \in {"results", "partial", "rename"} => run.wanted
  /\ pc \in Reporting \cup {"finish"} /\ exc = None => cur > N
  /\ pc \in {"partial", "rename"} /\ exc = None => Complete(draft.results)
  /\ pc = "rename" => draft.state = "whole"
  /\ pc = "finish" => exc = None
  /\ pc \notin Leaving => summary = Unsaid
  /\ pc = "start" => disk.state = "none"
  /\ pc \in Leaving /\ exc = None => summary # Unsaid
  /\ disk.state # "partial"
  /\ run.wanted /\ (pc = "finish" \/ summary # Unsaid) =>
       disk.state = "whole" /\ Complete(disk.results)
  /\ summary = 0 => disk.tally["FAIL"] = 0 /\ NoFailure(disk.results)
  /\ code \in {0, 1} => summary # Unsaid
  /\ code = 0 => summary = 0

ScriptInv == TypeOK /\ OnePlaceEach /\ ReportsWhatWasRecorded /\ InOrder

-----------------------------------------------------------------------------
(* The inductive invariant: targets and threads.                           *)

Replaceable == run.restartable /\ target \notin unreplaced \cup {0}

TargetTypeOK ==
  /\ target \in 0..cur /\ up \subseteq Generations /\ unreplaced \subseteq Generations
  /\ at \in [Checks -> 0..target]
  /\ fault \in [Generations -> 0..N]
  /\ before \in [Checks -> {Unarmed} \cup 0..N]

\* Up to the end of run_checks, a thread that runs is the current check's or was left.
ThreadsAreKnown ==
  /\ pc \in {"start", "setup"} => cur = 1 /\ left = {} /\ unreplaced = {}
  /\ pc = "start" => target = 0
  /\ pc \in Early \cup {"join"} \cup Filing =>
       \A c \in Checks :
         /\ c > cur \/ (c = cur /\ pc \in Early) =>
              thread[c] = None /\ before[c] = Unarmed /\ c \notin left
         /\ thread[c] = "running" => c \in left \/ (c = cur /\ pc = "join")
  /\ pc = "join" => at[cur] = target

\* The servers to come have no fault yet, and the one in use runs.
ServersAreFresh ==
  /\ \A g \in Generations : g > target => fault[g] = Clear
  /\ pc \in {"setup", "next", "join", "replace"} /\ target \notin unreplaced \cup {0} => target \in up

\* An abandoned thread that has not looked its target up again is on an older one.
LeftAreBehind ==
  Replaceable /\ pc \notin Filing =>
    \A c \in left \ looked : at[c] < target

\* No fault but the current check's, unless one of those has come here.
FaultsAreOurs ==
  Replaceable /\ (\A c \in looked : at[c] # target) =>
    /\ pc \in {"setup", "next"} => fault[target] = Clear
    /\ pc = "join" => \/ fault[target] = Clear /\ before[cur] = Unarmed
                      \/ fault[target] = cur /\ before[cur] = Clear /\ thread[cur] = "running"

\* With the process, its threads and its servers are gone.
NothingOutlives ==
  pc = "join" => (\A c \in Checks : thread[c] = "gone") /\ (\A g \in Generations : fault[g] = Clear)

TargetInv ==
  /\ TargetTypeOK
  /\ Alive => ThreadsAreKnown /\ ServersAreFresh /\ LeftAreBehind /\ FaultsAreOurs
  /\ ~Alive => NothingOutlives

-----------------------------------------------------------------------------
(* Results, counts and reports.                                            *)

\* A count is 0 exactly if there is nothing to count.
LEMMA CountFacts ==
  ASSUME NEW rs \in Seq(Results), NEW o
  PROVE  /\ Count(rs, o) \in Nat
         /\ Count(rs, o) = 0 <=> \A i \in DOMAIN rs : Outcome(rs[i].kind) # o
  <1> DEFINE S == {i \in DOMAIN rs : Outcome(rs[i].kind) = o}
  <1>1. DOMAIN rs = 1..Len(rs) /\ Len(rs) \in Nat
    OBVIOUS
  <1>2. IsFiniteSet(1..Len(rs))
    BY <1>1, FS_Interval
  <1>3. IsFiniteSet(S)
    BY <1>1, <1>2, FS_Subset
  <1>4. Cardinality(S) \in Nat /\ (Cardinality(S) = 0 <=> S = {})
    BY <1>3, FS_CardinalityType, FS_EmptySet
  <1> QED
    BY <1>4 DEF Count

\* Append adds one place and leaves the others as they were.
LEMMA AppendFacts ==
  ASSUME NEW rs \in Seq(Results), NEW r \in Results
  PROVE  /\ Append(rs, r) \in Seq(Results)
         /\ Len(Append(rs, r)) = Len(rs) + 1 /\ Len(rs) \in Nat
         /\ DOMAIN Append(rs, r) = DOMAIN rs \cup {Len(rs) + 1}
         /\ Len(rs) + 1 \notin DOMAIN rs
         /\ Append(rs, r)[Len(rs) + 1] = r
         /\ \A i \in DOMAIN rs : Append(rs, r)[i] = rs[i]
  OBVIOUS

\* Reports stay part of what was recorded while results grow under them.
LEMMA ReportsSurvive ==
  ASSUME TypeOK, ReportsWhatWasRecorded, UNCHANGED <<draft, disk>>,
         NEW r \in Results, results' \in {results, Append(results, r)}
  PROVE  ReportsWhatWasRecorded'
  <1> USE DEF ReportsWhatWasRecorded
  <1>0. results \in Seq(Results) /\ draft.results \in Seq(Results) /\ disk.results \in Seq(Results)
    BY DEF TypeOK, Reports
  <1>1. CASE results' = results
    BY <1>1
  <1>2. CASE results' = Append(results, r)
    <2>1. ASSUME NEW p \in Seq(Results), IsPart(p, results) PROVE IsPart(p, results')
      <3>1. Len(p) <= Len(results) /\ \A i \in DOMAIN p : i \in DOMAIN results /\ p[i] = results[i]
        BY <1>0, <2>1 DEF IsPart
      <3>2. Len(results') = Len(results) + 1 /\ \A i \in DOMAIN results : results'[i] = results[i]
        BY <1>0, <1>2, AppendFacts
      <3>3. Len(p) \in Nat /\ Len(results) \in Nat
        BY <1>0
      <3> QED
        BY <3>1, <3>2, <3>3 DEF IsPart
    <2>2. NoFailure(results') => NoFailure(results)
      BY <1>0, <1>2, AppendFacts DEF NoFailure
    <2>3. IsPart(draft'.results, results') /\ IsPart(disk'.results, results')
      BY <1>0, <2>1
    <2> QED
      BY <2>2, <2>3
  <1> QED
    BY <1>1, <1>2

\* A Result of a check's own, or the desync of SETUP, is nobody's one Result.
LEMMA OthersDoNotCount ==
  ASSUME TypeOK, OnePlaceEach, UNCHANGED <<pc, cur>> \/ (pc = "next" /\ pc' = "outputs" /\ UNCHANGED cur),
         NEW r \in Results, r.by = "own" \/ r.check = 0,
         results' \in {results, Append(results, r)}
  PROVE  OnePlaceEach'
  <1>0. results \in Seq(Results)
    BY DEF TypeOK
  <1>1. \A c \in Checks : Over(c)' <=> Over(c)
    BY DEF Over
  <1>2. CASE results' = results
    BY <1>1, <1>2 DEF OnePlaceEach, FiledAt
  <1>3. CASE results' = Append(results, r)
    <2>1. /\ DOMAIN results' = DOMAIN results \cup {Len(results) + 1}
          /\ Len(results) + 1 \notin DOMAIN results
          /\ results'[Len(results) + 1] = r
          /\ \A i \in DOMAIN results : results'[i] = results[i]
      BY <1>0, <1>3, AppendFacts
    <2>2. \A c \in Checks : c # 0
      BY DEF Checks
    <2>3. \A c \in Checks, i \in DOMAIN results' :
            FiledAt(results', c, i) <=> i \in DOMAIN results /\ FiledAt(results, c, i)
      BY <2>1, <2>2 DEF FiledAt
    <2> HIDE DEF FiledAt
    <2>4. ASSUME NEW c \in Checks, Over(c)
          PROVE  \E i \in DOMAIN results' : \A j \in DOMAIN results' : FiledAt(results', c, j) <=> j = i
      <3>1. PICK i \in DOMAIN results : \A j \in DOMAIN results : FiledAt(results, c, j) <=> j = i
        BY <2>4 DEF OnePlaceEach
      <3> QED
        BY <2>1, <2>3, <3>1
    <2>5. ASSUME NEW c \in Checks, ~Over(c)
          PROVE  \A i \in DOMAIN results' : ~FiledAt(results', c, i)
      BY <2>3, <2>5 DEF OnePlaceEach
    <2> QED
      BY <1>1, <2>4, <2>5 DEF OnePlaceEach
  <1> QED
    BY <1>2, <1>3

\* The Result of the current check is its first, and with it the check is over.
LEMMA FileCounts ==
  ASSUME TypeOK, OnePlaceEach, pc = "join", NEW kind \in Ended, File(kind)
  PROVE  OnePlaceEach'
  <1>0. results \in Seq(Results)
    BY DEF TypeOK
  <1>00. PICK k \in Checks : k = cur
    BY ConstantsAssumption DEF TypeOK, Checks, ConstantsAssumption
  <1> DEFINE r == Result(cur, "run", kind)
  <1>1. r \in Results /\ r.check = k /\ r.by = "run"
    BY <1>00, ConstantsAssumption DEF Results, Result, Checks, ConstantsAssumption
  <1>2. /\ DOMAIN results' = DOMAIN results \cup {Len(results) + 1}
        /\ Len(results) + 1 \notin DOMAIN results
        /\ results'[Len(results) + 1] = r
        /\ \A i \in DOMAIN results : results'[i] = results[i]
    BY <1>0, <1>1, AppendFacts DEF File
  <1>3. ~Over(k) /\ Over(k)' /\ \A c \in Checks : c # k => (Over(c)' <=> Over(c))
    <2>1. (pc' = "replace" /\ cur' = cur) \/ (pc' = "next" /\ cur' = cur + 1)
      BY DEF File
    <2>2. \A c \in Checks : c \in Nat
      BY DEF Checks
    <2> QED
      BY <1>00, <2>1, <2>2 DEF Over
  <1>4. \A c \in Checks, i \in DOMAIN results' :
          FiledAt(results', c, i) <=>
            \/ i \in DOMAIN results /\ FiledAt(results, c, i)
            \/ c = k /\ i = Len(results) + 1
    BY <1>1, <1>2 DEF FiledAt
  <1> HIDE DEF FiledAt, r
  <1>5. \A i \in DOMAIN results' : FiledAt(results', k, i) <=> i = Len(results) + 1
    BY <1>0, <1>3, <1>4, <1>2 DEF OnePlaceEach
  <1>6. ASSUME NEW c \in Checks, c # k, Over(c)
        PROVE  \E i \in DOMAIN results' : \A j \in DOMAIN results' : FiledAt(results', c, j) <=> j = i
    <2>1. PICK i \in DOMAIN results : \A j \in DOMAIN results : FiledAt(results, c, j) <=> j = i
      BY <1>6 DEF OnePlaceEach
    <2> QED
      BY <1>2, <1>4, <1>6, <2>1
  <1>7. ASSUME NEW c \in Checks, c # k, ~Over(c)
        PROVE  \A i \in DOMAIN results' : ~FiledAt(results', c, i)
    BY <1>4, <1>7 DEF OnePlaceEach
  <1> SUFFICES ASSUME NEW c \in Checks
               PROVE  IF Over(c)' THEN \E i \in DOMAIN results' : \A j \in DOMAIN results' :
                                         FiledAt(results', c, j) <=> j = i
                                  ELSE \A i \in DOMAIN results' : ~FiledAt(results', c, i)
    BY DEF OnePlaceEach, FiledAt
  <1>8. CASE c = k
    BY <1>2, <1>3, <1>5, <1>8
  <1> QED
    BY <1>3, <1>6, <1>7, <1>8

\* Counting and reporting keep to their types, whatever was recorded.
LEMMA TallyFacts ==
  ASSUME NEW rs \in Seq(Results)
  PROVE  Tally(rs) \in Tallies /\ (NoFailure(rs) => Tally(rs)["FAIL"] = 0)
  BY CountFacts DEF Tally, Tallies, NoFailure

\* The report of nothing is a report, of nothing.
LEMMA NoDraftFacts ==
  /\ NoDraft \in Reports /\ NoDraft.state = "none" /\ NoDraft.results = <<>>
  /\ NoDraft.tally["FAIL"] = 0
  <1>1. <<>> \in Seq(Results) /\ NoFailure(<<>>)
    BY DEF NoFailure
  <1> QED
    BY <1>1, TallyFacts DEF NoDraft, Reports

-----------------------------------------------------------------------------
(* The main thread's invariant is one.                                     *)

\* Nothing has been recorded or reported at first.
LEMMA ScriptInvInit == Init => ScriptInv
  <1> SUFFICES ASSUME Init PROVE ScriptInv
    OBVIOUS
  <1>1. <<>> \in Seq(Results)
    OBVIOUS
  <1>2. TypeOK
    BY <1>1, NoDraftFacts, ConstantsAssumption
       DEF ConstantsAssumption, Init, TypeOK, Places, Early, Filing, Unsaid, Running, Generations, None
  <1>3. OnePlaceEach
    BY DEF Init, OnePlaceEach, Over, Checks
  <1>4. ReportsWhatWasRecorded
    BY NoDraftFacts DEF Init, ReportsWhatWasRecorded, IsPart
  <1>5. InOrder
    BY NoDraftFacts DEF Init, InOrder, Reporting, Leaving, Unsaid, Running, NoFailure
  <1> QED
    BY <1>2, <1>3, <1>4, <1>5 DEF ScriptInv

\* The steps that record nothing and write nothing.
Silent ==
  \/ OpenTarget \/ EnterSetup \/ StartCheck \/ Interrupt \/ StopOld \/ StartFresh \/ NoOutputs
  \/ StopServer \/ Hang
  \/ \E c \in Checks : ArmFault(c) \/ RestoreFault(c) \/ LookUpTarget(c) \/ End(c)

\* They move the main thread along or leave it where it is.
LEMMA SilentMoves ==
  ASSUME TypeOK, Silent
  PROVE  /\ UNCHANGED <<run, results, draft, disk, summary, code, own>>
         /\ \/ UNCHANGED <<pc, cur, exc>>
            \/ pc = "start" /\ cur' = cur /\ pc' = "setup" /\ exc' = exc
            \/ pc = "start" /\ cur' = cur /\ pc' = "unwind" /\ exc' # None
            \/ pc = "setup" /\ cur' = cur /\ pc' = "next" /\ exc' = exc
            \/ pc = "setup" /\ cur' = cur /\ pc' = "outputs" /\ exc' # None
            \/ pc = "next" /\ cur <= N /\ cur' = cur /\ pc' = "join" /\ exc' = exc
            \/ pc = "join" /\ cur' = cur /\ pc' = "outputs" /\ exc' # None
            \/ pc \in Filing /\ cur' = cur + 1 /\ pc' = "next" /\ exc' = exc
            \/ pc = "replace" /\ cur' = cur /\ pc' = "replacing" /\ exc' = exc
            \/ pc = "outputs" /\ ~run.wanted /\ cur' = cur /\ exc' = exc
               /\ pc' = IF exc = None THEN "finish" ELSE "unwind"
            \/ pc = "unwind" /\ cur' = cur /\ pc' = "exit" /\ exc' \in {exc, "broken"}
         /\ exc' \in Raised \cup {None, "interrupt"}
         /\ thread' \in [Checks -> Ended \cup {None, "running", "gone"}]
         /\ left' = left /\ looked' \subseteq Checks
  <1> USE DEF None, Raised, Ended, Filing, main, filing, output
  <1>1. CASE OpenTarget
    BY <1>1 DEF OpenTarget, TypeOK
  <1>2. CASE EnterSetup
    BY <1>2 DEF EnterSetup, TypeOK
  <1>3. CASE StartCheck
    BY <1>3 DEF StartCheck, TypeOK
  <1>4. CASE Interrupt
    BY <1>4 DEF Interrupt, TypeOK
  <1>5. CASE StopOld
    BY <1>5 DEF StopOld, TypeOK
  <1>6. CASE StartFresh
    BY <1>6 DEF StartFresh, TypeOK
  <1>7. CASE NoOutputs
    BY <1>7 DEF NoOutputs, TypeOK
  <1>8. CASE StopServer
    BY <1>8 DEF StopServer, TypeOK
  <1>9. ASSUME NEW c \in Checks, ArmFault(c) \/ RestoreFault(c) \/ LookUpTarget(c) \/ End(c)
        PROVE  /\ UNCHANGED <<run, results, draft, disk, summary, code, own, pc, cur, exc, left>>
               /\ thread' \in [Checks -> Ended \cup {None, "running", "gone"}]
               /\ looked' \subseteq Checks
    <2>1. UNCHANGED <<run, results, draft, disk, summary, code, own, pc, cur, exc, left>>
      BY <1>9 DEF ArmFault, RestoreFault, LookUpTarget, End
    <2>2. looked' \subseteq Checks
      BY <1>9 DEF ArmFault, RestoreFault, LookUpTarget, End, TypeOK
    <2>3. thread' = thread \/ \E kind \in Ended \cup {"gone"} : thread' = [thread EXCEPT ![c] = kind]
      BY <1>9 DEF ArmFault, RestoreFault, LookUpTarget, End
    <2> QED
      BY <2>1, <2>2, <2>3 DEF TypeOK
  <1>10. CASE Hang
    BY <1>10 DEF Hang, TypeOK
  <1> QED
    BY <1>1, <1>2, <1>3, <1>4, <1>5, <1>6, <1>7, <1>8, <1>9, <1>10 DEF Silent, TypeOK

\* Every step of the main thread, of a check's thread or of a killer preserves it.
LEMMA ScriptInvStep == ScriptInv /\ [Next]_vars => ScriptInv'
  <1> SUFFICES ASSUME ScriptInv, [Next]_vars PROVE ScriptInv'
    OBVIOUS
  <1> USE ConstantsAssumption DEF ConstantsAssumption, main, filing, output
  <1>0. TypeOK /\ OnePlaceEach /\ ReportsWhatWasRecorded /\ InOrder
    BY DEF ScriptInv
  <1>a. /\ results \in Seq(Results) /\ draft \in Reports /\ disk \in Reports
        /\ draft.results \in Seq(Results) /\ disk.results \in Seq(Results)
    BY <1>0 DEF TypeOK, Reports
  <1>1. CASE Silent
    <2>0. UNCHANGED <<run, results, draft, disk, summary, code>>
      BY <1>0, <1>1, SilentMoves
    <2>1. TypeOK'
      BY <1>0, <1>1, SilentMoves DEF TypeOK, Places, Early, Filing, Reporting, Leaving
    <2>2. \A c \in Checks : Over(c)' <=> Over(c)
      <3> SUFFICES ASSUME NEW c \in Checks PROVE Over(c)' <=> Over(c)
        OBVIOUS
      <3>1. c \in Nat /\ cur \in Nat
        BY <1>0 DEF TypeOK, Checks
      <3> QED
        BY <1>0, <1>1, <3>1, SilentMoves DEF Over, Filing
    <2>3. OnePlaceEach'
      BY <1>0, <2>0, <2>2 DEF OnePlaceEach, FiledAt
    <2>4. ReportsWhatWasRecorded'
      BY <1>0, <2>0 DEF ReportsWhatWasRecorded
    <2>5. InOrder'
      BY <1>0, <1>1, SilentMoves DEF InOrder, Filing, Reporting, Leaving, None
    <2> QED
      BY <2>1, <2>3, <2>4, <2>5 DEF ScriptInv
  <1>2. CASE CheckReturns \/ WatchdogFires
    <2>1. PICK kind \in Ended : File(kind)
      BY <1>2 DEF CheckReturns, WatchdogFires, Ended, Raised
    <2>2. /\ pc = "join" /\ UNCHANGED <<run, exc, draft, disk, summary, code, own, looked>>
      BY <1>2 DEF CheckReturns, WatchdogFires
    <2>3. (pc' = "replace" /\ cur' = cur) \/ (pc' = "next" /\ cur' = cur + 1)
      BY <2>1 DEF File
    <2>4. cur \in 0..N
      BY <1>0, <2>2 DEF TypeOK
    <2>5. PICK r \in Results : results' = Append(results, r)
      BY <2>1, <2>4 DEF File, Result, Results
    <2>6. TypeOK'
      <3>1. /\ thread' \in [Checks -> Ended \cup {None, "running", "gone"}] /\ left' \subseteq Checks
        <4>1. cur \in Checks
          BY <1>0, <2>2 DEF TypeOK, Checks
        <4>2. thread' = thread \/ thread' = [thread EXCEPT ![cur] = "gone"]
          BY <1>2 DEF CheckReturns, WatchdogFires
        <4>3. left' = left \/ left' = left \cup {cur}
          BY <1>2 DEF CheckReturns, WatchdogFires
        <4>4. thread \in [Checks -> Ended \cup {None, "running", "gone"}] /\ left \subseteq Checks
          BY <1>0 DEF TypeOK
        <4>5. thread' \in [Checks -> Ended \cup {None, "running", "gone"}]
          BY <4>1, <4>2, <4>4
        <4>6. left' \subseteq Checks
          BY <4>1, <4>3, <4>4
        <4> QED
          BY <4>5, <4>6
      <3>2. results' \in Seq(Results)
        BY <1>a, <2>5
      <3> QED
        BY <1>0, <2>2, <2>3, <3>1, <3>2 DEF TypeOK, Places, Early, Filing
    <2>7. OnePlaceEach'
      BY <1>0, <2>1, <2>2, FileCounts
    <2>8. ReportsWhatWasRecorded'
      BY <1>0, <2>2, <2>5, ReportsSurvive
    <2>9. InOrder'
      BY <1>0, <2>2, <2>3 DEF InOrder, Reporting, Leaving
    <2> QED
      BY <2>6, <2>7, <2>8, <2>9 DEF ScriptInv
  <1>3. CASE LeaveSetup
    <2> DEFINE r == Result(0, "run", "desync")
    <2>1. r \in Results /\ r.check = 0
      BY DEF Result, Results
    <2>2. /\ pc = "next" /\ pc' = "outputs" /\ cur > N /\ results' \in {results, Append(results, r)}
          /\ exc' \in {None, "broken"}
          /\ UNCHANGED <<run, cur, thread, left, looked, draft, disk, summary, code, own>>
      BY <1>3 DEF LeaveSetup
    <2> HIDE DEF r
    <2>3. TypeOK'
      <3>1. results' \in Seq(Results)
        BY <1>a, <2>1, <2>2
      <3> QED
        BY <1>0, <2>2, <3>1 DEF TypeOK, Places, Reporting, Filing, Raised
    <2>4. OnePlaceEach'
      BY <1>0, <2>1, <2>2, OthersDoNotCount
    <2>5. ReportsWhatWasRecorded'
      BY <1>0, <2>1, <2>2, ReportsSurvive
    <2>6. InOrder'
      BY <1>0, <2>2 DEF InOrder, Reporting, Leaving
    <2> QED
      BY <2>3, <2>4, <2>5, <2>6 DEF ScriptInv
  <1>4. ASSUME NEW c \in Checks, RecordFailure(c) PROVE ScriptInv'
    <2> DEFINE r == Result(c, "own", "own")
    <2>1. r \in Results /\ r.by = "own"
      BY DEF Result, Results, Checks
    <2>2. /\ results' \in {results, Append(results, r)} /\ own' = [own EXCEPT ![c] = @ + 1]
          /\ UNCHANGED <<run, pc, cur, exc, thread, left, looked, draft, disk, summary, code>>
      BY <1>4 DEF RecordFailure
    <2> HIDE DEF r
    <2>3. TypeOK'
      <3>1. results' \in Seq(Results)
        BY <1>a, <2>1, <2>2
      <3> QED
        BY <1>0, <2>2, <3>1 DEF TypeOK
    <2>4. OnePlaceEach'
      BY <1>0, <2>1, <2>2, OthersDoNotCount
    <2>5. ReportsWhatWasRecorded'
      BY <1>0, <2>1, <2>2, ReportsSurvive
    <2>6. InOrder'
      BY <1>0, <2>2 DEF InOrder
    <2> QED
      BY <2>3, <2>4, <2>5, <2>6 DEF ScriptInv
  <1>5. CASE ReportCounts
    <2>1. /\ pc = "outputs" /\ run.wanted /\ pc' = "results"
          /\ draft' = [draft EXCEPT !.tally = Tally(results)]
          /\ UNCHANGED <<run, cur, exc, thread, left, looked, own, results, disk, summary, code>>
      BY <1>5 DEF ReportCounts
    <2>2. /\ draft' \in Reports /\ draft'.results = draft.results /\ draft'.tally = Tally(results)
      BY <1>a, <2>1, TallyFacts DEF Reports
    <2>3. TypeOK'
      BY <1>0, <2>1, <2>2 DEF TypeOK, Places, Reporting, Filing
    <2>4. OnePlaceEach'
      BY <1>0, <2>1 DEF OnePlaceEach, Over, FiledAt
    <2>5. ReportsWhatWasRecorded'
      BY <1>0, <1>a, <2>1, <2>2, TallyFacts DEF ReportsWhatWasRecorded
    <2>6. InOrder'
      BY <1>0, <2>1 DEF InOrder, Reporting, Leaving
    <2> QED
      BY <2>3, <2>4, <2>5, <2>6 DEF ScriptInv
  <1>6. CASE ReportResults
    <2>1. /\ pc = "results" /\ pc' = "partial"
          /\ draft' = [draft EXCEPT !.results = results, !.state = "partial"]
          /\ UNCHANGED <<run, cur, exc, thread, left, looked, own, results, disk, summary, code>>
      BY <1>6 DEF ReportResults
    <2>2. draft' \in Reports /\ draft'.results = results /\ draft'.tally = draft.tally
      BY <1>a, <2>1 DEF Reports
    <2>3. TypeOK'
      BY <1>0, <2>1, <2>2 DEF TypeOK, Places, Reporting, Filing
    <2>4. OnePlaceEach'
      BY <1>0, <2>1 DEF OnePlaceEach, Over, FiledAt
    <2>5. ReportsWhatWasRecorded'
      <3>1. IsPart(results, results)
        BY <1>a DEF IsPart
      <3> QED
        BY <1>0, <2>1, <2>2, <3>1 DEF ReportsWhatWasRecorded
    <2>6. exc = None => Complete(draft'.results)
      <3> SUFFICES ASSUME exc = None, NEW c \in Checks
                   PROVE  \E i \in DOMAIN results : results[i].check = c
        BY <2>2 DEF Complete
      <3>1. cur > N
        BY <1>0, <2>1 DEF InOrder, Reporting
      <3>2. Over(c)
        BY <1>0, <3>1 DEF Over, TypeOK, Checks
      <3> QED
        BY <1>0, <3>2 DEF OnePlaceEach, FiledAt
    <2>7. InOrder'
      BY <1>0, <2>1, <2>6 DEF InOrder, Reporting, Leaving
    <2> QED
      BY <2>3, <2>4, <2>5, <2>7 DEF ScriptInv
  <1>7. CASE WritePartial
    <2>1. /\ pc = "partial"
          /\ UNCHANGED <<run, cur, thread, left, looked, own, results, disk, summary, code>>
          /\ \/ pc' = "rename" /\ draft' = [draft EXCEPT !.state = "whole"] /\ exc' = exc
             \/ pc' = "unwind" /\ exc' = "broken" /\ draft' = draft
      BY <1>7 DEF WritePartial
    <2>2. /\ draft' \in Reports /\ draft'.results = draft.results /\ draft'.tally = draft.tally
          /\ pc' = "rename" => draft'.state = "whole"
      BY <1>a, <2>1 DEF Reports
    <2>3. TypeOK'
      BY <1>0, <2>1, <2>2 DEF TypeOK, Places, Reporting, Leaving, Filing, Raised
    <2>4. OnePlaceEach'
      <3>1. \A c \in Checks : Over(c)' <=> Over(c)
        BY <2>1 DEF Over
      <3> QED
        BY <1>0, <2>1, <3>1 DEF OnePlaceEach, FiledAt
    <2>5. ReportsWhatWasRecorded'
      BY <1>0, <2>1, <2>2 DEF ReportsWhatWasRecorded
    <2>6. InOrder'
      BY <1>0, <2>1, <2>2 DEF InOrder, Reporting, Leaving, None
    <2> QED
      BY <2>3, <2>4, <2>5, <2>6 DEF ScriptInv
  <1>8. CASE Rename
    <2>1. /\ pc = "rename" /\ disk' = draft /\ draft' = NoDraft
          /\ pc' = IF exc = None THEN "finish" ELSE "unwind"
          /\ UNCHANGED <<run, cur, exc, thread, left, looked, own, results, summary, code>>
      BY <1>8 DEF Rename
    <2>2. TypeOK'
      BY <1>0, <1>a, <2>1, NoDraftFacts DEF TypeOK, Places, Leaving, Filing
    <2>3. OnePlaceEach'
      <3>1. \A c \in Checks : Over(c)' <=> Over(c)
        BY <2>1 DEF Over
      <3> QED
        BY <1>0, <2>1, <3>1 DEF OnePlaceEach, FiledAt
    <2>4. ReportsWhatWasRecorded'
      <3>1. IsPart(<<>>, results)
        BY <1>a DEF IsPart
      <3> QED
        BY <1>0, <2>1, <3>1, NoDraftFacts DEF ReportsWhatWasRecorded
    <2>5. InOrder'
      BY <1>0, <2>1 DEF InOrder, Reporting, Leaving, Unsaid
    <2> QED
      BY <2>2, <2>3, <2>4, <2>5 DEF ScriptInv
  <1>9. CASE Finish
    <2>1. /\ pc = "finish" /\ pc' = "unwind" /\ summary' = Count(results, "FAIL")
          /\ UNCHANGED <<run, cur, exc, thread, left, looked, own, results, draft, disk, code>>
      BY <1>9 DEF Finish
    <2>2. summary' \in Nat /\ (summary' = 0 => NoFailure(results))
      BY <1>a, <2>1, CountFacts DEF NoFailure
    <2>3. TypeOK'
      BY <1>0, <2>1, <2>2 DEF TypeOK, Places, Leaving, Filing
    <2>4. OnePlaceEach'
      <3>1. \A c \in Checks : Over(c)' <=> Over(c)
        BY <2>1 DEF Over
      <3> QED
        BY <1>0, <2>1, <3>1 DEF OnePlaceEach, FiledAt
    <2>5. ReportsWhatWasRecorded'
      BY <1>0, <2>1 DEF ReportsWhatWasRecorded
    <2>6. summary' = 0 => disk.tally["FAIL"] = 0 /\ NoFailure(disk.results)
      <3>1. \A i \in DOMAIN disk.results : i \in DOMAIN results /\ disk.results[i] = results[i]
        BY <1>0, <1>a DEF ReportsWhatWasRecorded, IsPart
      <3> QED
        BY <1>0, <2>2, <3>1 DEF ReportsWhatWasRecorded, NoFailure
    <2>7. summary' # Unsaid
      BY <2>2 DEF Unsaid
    <2>8. code \notin {0, 1}
      BY <1>0, <2>1 DEF InOrder, Leaving
    <2>9. InOrder'
      BY <1>0, <2>1, <2>6, <2>7, <2>8 DEF InOrder, Reporting, Leaving
    <2> QED
      BY <2>3, <2>4, <2>5, <2>9 DEF ScriptInv
  <1>10. CASE SetupMistake \/ Exit \/ Kill
    <2>1. /\ UNCHANGED <<run, pc, cur, exc, left, looked, own, results, draft, disk, summary>>
          /\ thread' \in [Checks -> Ended \cup {None, "running", "gone"}]
      BY <1>0, <1>10 DEF SetupMistake, Exit, Kill, Leave, TypeOK
    <2>2. /\ code' \in {Running, Killed, 0, 1, 2, 3, 4, 5, 130}
          /\ code' \in {0, 1} => pc = "exit" /\ exc = None /\ (code' = 0 <=> ~(summary > 0))
      BY <1>10 DEF SetupMistake, Exit, Kill, Leave, ExitCode, Killed
    <2>3. TypeOK'
      BY <1>0, <2>1, <2>2 DEF TypeOK
    <2>4. OnePlaceEach' /\ ReportsWhatWasRecorded'
      BY <1>0, <2>1 DEF OnePlaceEach, Over, FiledAt, ReportsWhatWasRecorded
    <2>5. code' \in {0, 1} => summary # Unsaid
      BY <1>0, <2>2 DEF InOrder, Leaving
    <2>6. code' = 0 => summary = 0
      BY <1>0, <2>2, <2>5 DEF TypeOK
    <2>7. InOrder'
      BY <1>0, <2>1, <2>5, <2>6 DEF InOrder
    <2> QED
      BY <2>3, <2>4, <2>7 DEF ScriptInv
  <1>11. CASE UNCHANGED vars
    BY <1>0, <1>11 DEF vars, ScriptInv, TypeOK, OnePlaceEach, Over, FiledAt, ReportsWhatWasRecorded,
                       InOrder
  <1> QED
    BY <1>1, <1>2, <1>3, <1>4, <1>5, <1>6, <1>7, <1>8, <1>9, <1>10, <1>11
       DEF Next, Main, Worker, Silent

\* One Result each, and reports that are part of them.
LEMMA ScriptInvariant == Spec => []ScriptInv
  BY ScriptInvInit, ScriptInvStep, PTL DEF Spec

-----------------------------------------------------------------------------
(* The theorems on results, exit codes and the caller's view.              *)

HungTypeOK == hung \in BOOLEAN

\* The state keeps its types, from the start of the script to whatever ends it.
THEOREM ScriptTyped == Spec => [](TypeOK /\ HungTypeOK)
  <1>1. ScriptInv => TypeOK
    BY DEF ScriptInv
  <1>2. Init => HungTypeOK
    BY Zenon DEF Init, HungTypeOK
  <1>3. HungTypeOK /\ [Next]_vars => HungTypeOK'
    BY Zenon DEF Next, Main, Hang, vars, HungTypeOK
  <1> QED
    BY <1>1, <1>2, <1>3, ScriptInvariant, PTL DEF Spec

\* run_checks files one Result per check, however late an abandoned thread returns.
THEOREM ResultsAreOneEach == Spec => []OneResultEach
  <1>1. ScriptInv => OneResultEach
    <2> SUFFICES ASSUME ScriptInv, NEW c \in Checks
                 PROVE  Cardinality({i \in DOMAIN results : FiledAt(results, c, i)})
                          = IF Over(c) THEN 1 ELSE 0
      BY DEF OneResultEach, FiledAt
    <2>0. OnePlaceEach
      BY DEF ScriptInv
    <2>1. CASE Over(c)
      <3>1. PICK i \in DOMAIN results : \A j \in DOMAIN results : FiledAt(results, c, j) <=> j = i
        BY <2>0, <2>1 DEF OnePlaceEach
      <3>2. {j \in DOMAIN results : FiledAt(results, c, j)} = {i}
        BY <3>1
      <3> QED
        BY <2>1, <3>2, FS_Singleton
    <2>2. CASE ~Over(c)
      <3>1. {j \in DOMAIN results : FiledAt(results, c, j)} = {}
        BY <2>0, <2>2 DEF OnePlaceEach
      <3> QED
        BY <2>2, <3>1, FS_EmptySet
    <2> QED
      BY <2>1, <2>2
  <1> QED
    BY <1>1, ScriptInvariant, PTL

\* Exit 0 vouches for the report on disk, whatever recorded while it was written.
THEOREM ZeroVouches == Spec => []ExitZeroIsClean
  <1>1. ScriptInv => ExitZeroIsClean
    <2> SUFFICES ASSUME ScriptInv, code = 0, run.wanted
                 PROVE  /\ disk.state = "whole"
                        /\ disk.tally["FAIL"] = 0 /\ Count(disk.results, "FAIL") = 0
                        /\ \A c \in Checks : \E i \in DOMAIN disk.results : disk.results[i].check = c
      BY DEF ExitZeroIsClean
    <2>1. summary = 0 /\ summary # Unsaid
      BY DEF ScriptInv, InOrder
    <2>2. disk.state = "whole" /\ Complete(disk.results)
      BY <2>1 DEF ScriptInv, InOrder
    <2>3. disk.tally["FAIL"] = 0 /\ NoFailure(disk.results)
      BY <2>1 DEF ScriptInv, InOrder
    <2>4. disk.results \in Seq(Results)
      BY DEF ScriptInv, TypeOK, Reports
    <2>5. Count(disk.results, "FAIL") = 0
      BY <2>3, <2>4, CountFacts DEF NoFailure
    <2> QED
      BY <2>2, <2>3, <2>5 DEF Complete
  <1> QED
    BY <1>1, ScriptInvariant, PTL

\* The caller's view starts as a ScriptProcess does.
LEMMA ProcessInitially == Init => Process!ProcessInit
  <1> SUFFICES ASSUME Init PROVE Process!ProcessInit
    OBVIOUS
  <1>1. run.wanted \in BOOLEAN
    BY ConstantsAssumption DEF Init, ConstantsAssumption
  <1>2. disk.state = "none" /\ summary = Unsaid /\ code = Running
    BY NoDraftFacts DEF Init
  <1> QED
    BY <1>1, <1>2 DEF Process!ProcessInit, Process!Running, Running

\* Every step of the script is a step of the process it is to its caller, or none.
LEMMA ProcessSteps ==
  ScriptInv /\ [Next]_vars => [Process!ProcessNext]_(Process!ProcessVars)
  <1> SUFFICES ASSUME ScriptInv, [Next]_vars PROVE [Process!ProcessNext]_(Process!ProcessVars)
    OBVIOUS
  <1> USE DEF main, filing, output, Process!ProcessVars
  <1>0. TypeOK /\ InOrder
    BY DEF ScriptInv
  <1>1. CASE UNCHANGED <<run, disk, summary, code>>
    BY <1>1
  <1>2. CASE Rename
    <2>1. /\ code = Running /\ run.wanted /\ summary = Unsaid /\ draft.state = "whole"
          /\ disk' = draft /\ UNCHANGED <<run, summary, code>>
      BY <1>0, <1>2 DEF Rename, Alive, InOrder, Leaving
    <2>2. Process!WriteReport
      BY <2>1 DEF Process!WriteReport, Process!Running, Running
    <2> QED
      BY <2>2 DEF Process!ProcessNext
  <1>3. CASE Finish
    <2>1. /\ code = Running /\ summary = Unsaid /\ (run.wanted => disk.state = "whole")
          /\ summary' = Count(results, "FAIL") /\ UNCHANGED <<run, disk, code>>
      BY <1>0, <1>3 DEF Finish, Alive, InOrder, Leaving
    <2>2. summary' # Unsaid
      BY <1>0, <2>1, CountFacts DEF TypeOK, Unsaid
    <2>3. Process!Say
      BY <2>1, <2>2 DEF Process!Say, Process!Running, Running
    <2> QED
      BY <2>3 DEF Process!ProcessNext
  <1>4. CASE SetupMistake \/ Exit
    <2>1. /\ code = Running /\ code' \in Process!Codes /\ UNCHANGED <<run, disk, summary>>
          /\ code' \in {0, 1} => pc = "exit" /\ exc = None
          /\ code' = 4 => pc = "start"
      BY <1>4 DEF SetupMistake, Exit, Leave, Alive, ExitCode, Process!Codes, Process!Verdicts
    <2>2. /\ code' \in {0, 1} => summary # Unsaid
          /\ code' = 4 => summary = Unsaid /\ disk.state = "none"
      BY <1>0, <2>1 DEF InOrder, Leaving
    <2>3. Process!Exit(code')
      BY <2>1, <2>2 DEF Process!Exit, Process!Verdicts, Process!Running, Running
    <2> QED
      BY <2>1, <2>3 DEF Process!ProcessNext
  <1>5. CASE Kill
    <2>1. code = Running /\ code' = Killed /\ UNCHANGED <<run, disk, summary>>
      BY <1>5 DEF Kill, Leave, Alive
    <2>2. Process!Kill
      BY <2>1 DEF Process!Kill, Process!Running, Process!Killed, Running, Killed
    <2> QED
      BY <2>2 DEF Process!ProcessNext
  <1>6. CASE Silent
    BY <1>0, <1>1, <1>6, SilentMoves
  <1>7. CASE \/ CheckReturns \/ WatchdogFires \/ LeaveSetup \/ ReportCounts \/ ReportResults
             \/ WritePartial \/ UNCHANGED vars
    BY <1>1, <1>7 DEF CheckReturns, WatchdogFires, LeaveSetup, ReportCounts, ReportResults,
                      WritePartial, vars
  <1>8. CASE \E c \in Checks : RecordFailure(c)
    BY <1>1, <1>8 DEF RecordFailure
  <1> QED
    BY <1>2, <1>3, <1>4, <1>5, <1>6, <1>7, <1>8 DEF Next, Main, Worker, Silent

\* The file, the summary line and the exit code are those of a ScriptProcess, which is
\* all that run_all and the CI tools go by.
THEOREM ScriptIsAProcess == Spec => ImplementsScriptProcess
  BY ScriptInvariant, ProcessInitially, ProcessSteps, PTL
     DEF Spec, ImplementsScriptProcess, Process!ProcessSpec

-----------------------------------------------------------------------------
(* The targets' invariant is one.                                          *)

\* There are no servers, threads or faults at first.
LEMMA TargetInvInit == Init => TargetInv
  <1> SUFFICES ASSUME Init PROVE TargetInv
    OBVIOUS
  <1> USE ConstantsAssumption DEF ConstantsAssumption
  <1>1. TargetTypeOK
    BY DEF Init, TargetTypeOK, Generations, Clear, Unarmed
  <1>2. Alive
    BY DEF Init, Alive
  <1>3. ThreadsAreKnown
    BY DEF Init, ThreadsAreKnown, Early, Filing, None
  <1>4. ServersAreFresh
    BY DEF Init, ServersAreFresh
  <1>5. LeftAreBehind /\ FaultsAreOurs
    BY DEF Init, LeftAreBehind, FaultsAreOurs, Replaceable
  <1> QED
    BY <1>1, <1>2, <1>3, <1>4, <1>5 DEF TargetInv

\* The end of the process ends its threads and servers.
LEMMA TargetInvEnds == TypeOK /\ TargetInv /\ (SetupMistake \/ Exit \/ Kill) => TargetInv'
  <1> SUFFICES ASSUME TypeOK, TargetInv, SetupMistake \/ Exit \/ Kill PROVE TargetInv'
    OBVIOUS
  <1> USE ConstantsAssumption DEF ConstantsAssumption
  <1>1. ~Alive'
    BY DEF SetupMistake, Exit, Kill, Leave, Alive, Running, Killed, ExitCode
  <1>2. /\ UNCHANGED <<pc, cur, target, unreplaced, at, before>>
        /\ \/ UNCHANGED <<up, fault>> /\ pc = "start"
           \/ up' = {} /\ fault' = [g \in Generations |-> Clear] /\ thread' = [c \in Checks |-> "gone"]
    BY DEF SetupMistake, Exit, Kill, Leave, main, servers, faults
  <1>3. TargetTypeOK'
    BY <1>2 DEF TargetInv, TargetTypeOK, Clear
  <1>4. NothingOutlives'
    BY <1>2 DEF NothingOutlives
  <1> QED
    BY <1>1, <1>3, <1>4 DEF TargetInv

\* Steps of the main thread that concern no target: into run_checks and out of it.
Aside ==
  \/ EnterSetup \/ LeaveSetup \/ Interrupt \/ ReportCounts \/ ReportResults \/ WritePartial
  \/ Rename \/ NoOutputs \/ Finish \/ Hang \/ \E c \in Checks : RecordFailure(c)

\* They leave targets, faults and threads alone.
LEMMA TargetInvAside == TypeOK /\ TargetInv /\ (Aside \/ UNCHANGED vars) => TargetInv'
  <1> SUFFICES ASSUME TypeOK, TargetInv, Aside \/ UNCHANGED vars PROVE TargetInv'
    OBVIOUS
  <1>1. /\ UNCHANGED <<run, code, cur, thread, left, looked, target, up, unreplaced, at, fault, before>>
        /\ \/ pc' = pc
           \/ pc = "setup" /\ pc' = "next"
           \/ /\ pc \notin Filing
              /\ pc' \in {"outputs", "results", "partial", "rename", "finish", "unwind"}
    <2>1. ASSUME NEW c \in Checks, RecordFailure(c)
          PROVE UNCHANGED <<run, code, pc, cur, thread, left, looked, target, up, unreplaced, at, fault, before>>
      BY <2>1 DEF RecordFailure, main, servers, faults, output
    <2>2. CASE EnterSetup \/ LeaveSetup \/ Interrupt
      BY <2>2 DEF EnterSetup, LeaveSetup, Interrupt, servers, faults, output, Filing
    <2>3. CASE \/ ReportCounts \/ ReportResults \/ WritePartial \/ Rename \/ NoOutputs \/ Finish
      BY <2>3 DEF ReportCounts, ReportResults, WritePartial, Rename, NoOutputs, Finish, servers,
                  faults, output, Filing
    <2>4. CASE UNCHANGED vars
      BY <2>4 DEF vars, main, servers, faults, output
    <2>5. CASE Hang
      BY <2>5 DEF Hang, main, servers, faults, output
    <2> QED
      BY <2>1, <2>2, <2>3, <2>4, <2>5 DEF Aside
  <1>2. TargetTypeOK'
    BY <1>1 DEF TargetInv, TargetTypeOK
  <1>3. CASE ~Alive
    <2>1. ~Alive' /\ NothingOutlives
      BY <1>1, <1>3 DEF Alive, TargetInv
    <2>2. NothingOutlives'
      BY <1>1, <2>1 DEF NothingOutlives
    <2> QED
      BY <1>2, <2>1, <2>2 DEF TargetInv
  <1>4. CASE Alive
    <2>0. Alive' /\ ThreadsAreKnown /\ ServersAreFresh /\ LeftAreBehind /\ FaultsAreOurs
      BY <1>1, <1>4 DEF Alive, TargetInv
    <2>1. ThreadsAreKnown'
      BY <1>1, <2>0 DEF ThreadsAreKnown, Early, Filing
    <2>2. ServersAreFresh'
      BY <1>1, <2>0 DEF ServersAreFresh
    <2>3. Replaceable' <=> Replaceable
      BY <1>1 DEF Replaceable
    <2>4. LeftAreBehind'
      <3>1. CASE pc' \in Filing
        BY <3>1 DEF LeftAreBehind
      <3>2. CASE pc \notin Filing
        BY <1>1, <2>0, <2>3, <3>2 DEF LeftAreBehind
      <3>3. pc \in Filing => pc' \in Filing
        BY <1>1 DEF Filing
      <3> QED
        BY <3>1, <3>2, <3>3
    <2>5. FaultsAreOurs'
      BY <1>1, <2>0, <2>3 DEF FaultsAreOurs
    <2> QED
      BY <1>2, <2>0, <2>1, <2>2, <2>4, <2>5 DEF TargetInv
  <1> QED
    BY <1>3, <1>4

\* What a thread does to its target, its faults or itself.
LEMMA TargetInvWorker ==
  ASSUME TypeOK, TargetInv, NEW c \in Checks,
         ArmFault(c) \/ RestoreFault(c) \/ LookUpTarget(c) \/ End(c)
  PROVE  TargetInv'
  <1> USE ConstantsAssumption DEF ConstantsAssumption
  <1>0. /\ Alive /\ thread[c] = "running"
        /\ TargetTypeOK /\ ThreadsAreKnown /\ ServersAreFresh /\ LeftAreBehind /\ FaultsAreOurs
    BY DEF ArmFault, RestoreFault, LookUpTarget, End, Runs, TargetInv
  <1>1. UNCHANGED <<run, code, pc, cur, left, target, up, unreplaced>>
    BY DEF ArmFault, RestoreFault, LookUpTarget, End, main, servers, output
  <1>2. Alive' /\ (Replaceable' <=> Replaceable)
    BY <1>0, <1>1 DEF Alive, Replaceable
  <1>3. at[c] \in Generations /\ target \in Generations /\ cur \in Nat
    <2>1. target \in 0..cur /\ cur \in 1..(N + 1) /\ at[c] \in 0..target
      BY <1>0 DEF TypeOK, TargetTypeOK
    <2> QED
      BY <2>1 DEF Generations
  <1>4. \A k \in Checks : thread[k] \in Ended \cup {None, "running", "gone"}
    BY DEF TypeOK
  <1>5. CASE ArmFault(c) \/ RestoreFault(c)
    <2>1. UNCHANGED <<at, thread, looked>>
      BY <1>5 DEF ArmFault, RestoreFault
    <2>2. \E x \in {Unarmed} \cup 0..N : before' = [before EXCEPT ![c] = x]
      <3>1. fault[at[c]] \in 0..N
        BY <1>0, <1>3 DEF TargetTypeOK
      <3> QED
        BY <1>5, <3>1 DEF ArmFault, RestoreFault
    <2>3. fault' = fault \/ \E x \in 0..N : fault' = [fault EXCEPT ![at[c]] = x]
      <3>1. CASE ArmFault(c)
        <4>1. c \in 0..N
          BY DEF Checks
        <4> QED
          BY <3>1, <4>1 DEF ArmFault
      <3>2. CASE RestoreFault(c)
        <4>1. before[c] \in 0..N
          BY <1>0, <3>2 DEF RestoreFault, TargetTypeOK
        <4> QED
          BY <3>2, <4>1 DEF RestoreFault
      <3> QED
        BY <1>5, <3>1, <3>2
    <2>4. TargetTypeOK'
      BY <1>0, <1>1, <2>1, <2>2, <2>3 DEF TargetTypeOK
    <2>5. ThreadsAreKnown'
      <3>1. \A k \in Checks : thread[k] = None => before'[k] = before[k]
        BY <1>0, <2>2 DEF None, TargetTypeOK
      <3>2. pc' \in Early \cup {"join"} \cup Filing =>
              \A k \in Checks :
                k > cur' \/ (k = cur' /\ pc' \in Early) =>
                  thread'[k] = None /\ before'[k] = Unarmed /\ k \notin left'
        BY <1>0, <1>1, <2>1, <3>1 DEF ThreadsAreKnown
      <3> QED
        BY <1>0, <1>1, <2>1, <3>2 DEF ThreadsAreKnown
    <2>6. ServersAreFresh'
      <3>1. \A g \in Generations : g > target => fault'[g] = fault[g]
        <4>1. ASSUME NEW g \in Generations, g > target PROVE g # at[c]
          <5>1. at[c] \in 0..target
            BY <1>0 DEF TargetTypeOK
          <5> QED
            BY <1>3, <4>1, <5>1 DEF Generations
        <4>2. fault \in [Generations -> 0..N]
          BY <1>0 DEF TargetTypeOK
        <4> QED
          BY <2>3, <4>1, <4>2
      <3> QED
        BY <1>0, <1>1, <3>1 DEF ServersAreFresh
    <2>7. LeftAreBehind'
      BY <1>0, <1>1, <1>2, <2>1 DEF LeftAreBehind
    <2>8. FaultsAreOurs'
      <3> SUFFICES ASSUME Replaceable, \A k \in looked : at[k] # target, pc \in {"setup", "next", "join"}
                   PROVE  /\ pc \in {"setup", "next"} => fault'[target] = Clear
                          /\ pc = "join" =>
                               \/ fault'[target] = Clear /\ before'[cur] = Unarmed
                               \/ fault'[target] = cur /\ before'[cur] = Clear /\ thread[cur] = "running"
        BY <1>1, <1>2, <2>1 DEF FaultsAreOurs
      <3>1. CASE c = cur /\ pc = "join"
        <4>1. at[c] = target /\ target \in up
          BY <1>0, <3>1 DEF ThreadsAreKnown, ServersAreFresh, Replaceable
        <4>2. \/ fault[target] = Clear /\ before[c] = Unarmed
              \/ fault[target] = c /\ before[c] = Clear
          BY <1>0, <3>1 DEF FaultsAreOurs
        <4>3. CASE ArmFault(c)
          BY <1>0, <1>3, <3>1, <4>1, <4>2, <4>3 DEF ArmFault, TargetTypeOK, Clear, Unarmed
        <4>4. CASE RestoreFault(c)
          BY <1>0, <1>3, <3>1, <4>1, <4>2, <4>4 DEF RestoreFault, TargetTypeOK, Clear, Unarmed
        <4> QED
          BY <1>5, <4>3, <4>4
      <3>2. CASE ~(c = cur /\ pc = "join")
        <4>1. c \in left
          BY <1>0, <3>2 DEF ThreadsAreKnown, Early
        <4>2. at[c] # target
          <5>1. CASE c \in looked
            BY <5>1
          <5>2. CASE c \notin looked
            <6>1. at[c] < target
              BY <1>0, <4>1, <5>2 DEF LeftAreBehind, Filing
            <6> QED
              BY <1>3, <6>1 DEF Generations
          <5> QED
            BY <5>1, <5>2
        <4>3. fault'[target] = fault[target]
          BY <1>0, <1>3, <2>3, <4>2 DEF TargetTypeOK
        <4>4. pc = "join" => before'[cur] = before[cur]
          <5>1. pc = "join" => c # cur /\ cur \in Checks
            BY <1>3, <3>2 DEF TypeOK, Checks
          <5> QED
            BY <1>0, <2>2, <5>1 DEF TargetTypeOK
        <4> QED
          BY <1>0, <4>3, <4>4 DEF FaultsAreOurs
      <3> QED
        BY <3>1, <3>2
    <2> QED
      BY <1>2, <2>4, <2>5, <2>6, <2>7, <2>8 DEF TargetInv
  <1>6. CASE LookUpTarget(c)
    <2>1. /\ at' = [at EXCEPT ![c] = target] /\ looked' = looked \cup {c} /\ at[c] # target
          /\ UNCHANGED <<thread, fault, before>>
      BY <1>6 DEF LookUpTarget, faults
    <2>2. TargetTypeOK'
      BY <1>0, <1>1, <2>1 DEF TargetTypeOK, TypeOK
    <2>3. ThreadsAreKnown'
      BY <1>0, <1>1, <2>1 DEF ThreadsAreKnown, TargetTypeOK
    <2>4. ServersAreFresh'
      BY <1>0, <1>1, <2>1 DEF ServersAreFresh
    <2>5. LeftAreBehind'
      BY <1>0, <1>1, <1>2, <2>1 DEF LeftAreBehind, TargetTypeOK
    <2>6. FaultsAreOurs'
      BY <1>0, <1>1, <2>1 DEF FaultsAreOurs, TargetTypeOK
    <2> QED
      BY <1>2, <2>2, <2>3, <2>4, <2>5, <2>6 DEF TargetInv
  <1>7. CASE End(c)
    <2>1. /\ UNCHANGED <<at, looked, fault, before>> /\ before[c] = Unarmed
          /\ \E kind \in Ended \cup {"gone"} : thread' = [thread EXCEPT ![c] = kind]
      BY <1>7 DEF End, faults
    <2>2. /\ \A k \in Checks : k # c => thread'[k] = thread[k]
          /\ thread'[c] # "running"
      BY <2>1 DEF TypeOK, Ended, Raised
    <2>3. TargetTypeOK'
      BY <1>0, <1>1, <2>1 DEF TargetTypeOK
    <2>4. ThreadsAreKnown'
      BY <1>0, <1>1, <2>1, <2>2 DEF ThreadsAreKnown, None
    <2>5. ServersAreFresh'
      BY <1>0, <1>1, <2>1 DEF ServersAreFresh
    <2>6. LeftAreBehind'
      BY <1>0, <1>1, <1>2, <2>1 DEF LeftAreBehind
    <2>7. FaultsAreOurs'
      <3> SUFFICES ASSUME Replaceable, \A k \in looked : at[k] # target, pc = "join"
                   PROVE  \/ fault[target] = Clear /\ before[cur] = Unarmed
                          \/ fault[target] = cur /\ before[cur] = Clear /\ thread'[cur] = "running"
        BY <1>0, <1>1, <1>2, <2>1 DEF FaultsAreOurs
      <3>1. \/ fault[target] = Clear /\ before[cur] = Unarmed
            \/ fault[target] = cur /\ before[cur] = Clear /\ thread[cur] = "running"
        BY <1>0 DEF FaultsAreOurs
      <3>2. cur \in Checks
        BY <1>3 DEF TypeOK, Checks
      <3> QED
        BY <2>1, <2>2, <3>1, <3>2 DEF Clear, Unarmed
    <2> QED
      BY <1>2, <2>3, <2>4, <2>5, <2>6, <2>7 DEF TargetInv
  <1> QED
    BY <1>5, <1>6, <1>7

\* What the main thread does to the target or to a check's thread.
LEMMA TargetInvMain ==
  ASSUME TypeOK, TargetInv,
         \/ OpenTarget \/ StartCheck \/ CheckReturns \/ WatchdogFires \/ StopOld \/ StartFresh
         \/ StopServer
  PROVE  TargetInv'
  <1> USE ConstantsAssumption DEF ConstantsAssumption
  <1>0. /\ Alive
        /\ TargetTypeOK /\ ThreadsAreKnown /\ ServersAreFresh /\ LeftAreBehind /\ FaultsAreOurs
    BY DEF OpenTarget, StartCheck, CheckReturns, WatchdogFires, StopOld, StartFresh, StopServer,
           TargetInv
  <1>1. UNCHANGED <<run, code, looked>>
    BY DEF OpenTarget, StartCheck, CheckReturns, WatchdogFires, StopOld, StartFresh, StopServer, output
  <1>2. Alive'
    BY <1>0, <1>1 DEF Alive
  <1>3. /\ target \in Nat /\ target <= cur /\ cur \in Nat /\ 1 <= cur /\ cur <= N + 1
        /\ \A c \in Checks : at[c] \in Nat /\ at[c] <= target
    BY <1>0 DEF TypeOK, TargetTypeOK
  <1>4. \A c \in Checks : c \in Nat /\ 1 <= c /\ c <= N
    BY DEF Checks
  <1>5. pc \in {"join", "replace", "replacing"} => cur \in Checks
    BY DEF TypeOK, Checks, Filing
  <1>6. CASE OpenTarget
    <2>1. /\ pc = "start" /\ pc' \in {"setup", "unwind"} /\ cur' = cur /\ target' \in {target, 1}
          /\ (target' = target /\ up' = up) \/ (target' = 1 /\ up' = up \cup {1} /\ pc' = "setup")
          /\ UNCHANGED <<thread, left, unreplaced, at, fault, before>>
      BY <1>6 DEF OpenTarget, Serve, faults
    <2>2. /\ cur = 1 /\ left = {} /\ unreplaced = {} /\ target = 0
          /\ \A c \in Checks : thread[c] = None /\ before[c] = Unarmed
      BY <1>0, <1>4, <2>1 DEF ThreadsAreKnown, Early
    <2>3. \A g \in Generations : g > 0 => fault[g] = Clear
      BY <1>0, <2>2 DEF ServersAreFresh
    <2>4. TargetTypeOK'
      <3>1. target' \in {0, 1} /\ cur' = 1 /\ 1 \in Generations
        BY <2>1, <2>2 DEF Generations
      <3>2. at' \in [Checks -> 0..target']
        BY <1>0, <2>1, <2>2, <3>1 DEF TargetTypeOK
      <3>3. up' \subseteq Generations
        BY <1>0, <2>1, <3>1 DEF TargetTypeOK
      <3> QED
        BY <1>0, <2>1, <3>1, <3>2, <3>3 DEF TargetTypeOK
    <2>5. ThreadsAreKnown'
      BY <2>1, <2>2 DEF ThreadsAreKnown, None, Early, Filing
    <2>6. ServersAreFresh'
      BY <2>1, <2>2, <2>3 DEF ServersAreFresh, Generations
    <2>7. LeftAreBehind'
      BY <2>1, <2>2 DEF LeftAreBehind
    <2>8. FaultsAreOurs'
      <3>1. target' = 0 \/ fault[target'] = Clear
        BY <2>1, <2>2, <2>3 DEF Generations
      <3> QED
        BY <2>1, <3>1 DEF FaultsAreOurs, Replaceable
    <2> QED
      BY <1>2, <2>4, <2>5, <2>6, <2>7, <2>8 DEF TargetInv
  <1>7. CASE StartCheck
    <2>1. /\ pc = "next" /\ pc' = "join" /\ cur' = cur /\ cur \in Checks
          /\ thread' = [thread EXCEPT ![cur] = "running"] /\ at' = [at EXCEPT ![cur] = target]
          /\ UNCHANGED <<left, target, up, unreplaced, fault, before>>
      BY <1>3, <1>7 DEF StartCheck, servers, faults, Checks
    <2>2. before[cur] = Unarmed /\ thread[cur] = None /\ cur \notin left
      BY <1>0, <2>1 DEF ThreadsAreKnown, Early
    <2>3. TargetTypeOK'
      BY <1>0, <1>3, <2>1 DEF TargetTypeOK
    <2>4. ThreadsAreKnown'
      <3>1. \A k \in Checks : k # cur => thread'[k] = thread[k]
        BY <2>1 DEF TypeOK
      <3>2. at'[cur] = target
        BY <1>0, <2>1 DEF TargetTypeOK
      <3> QED
        BY <1>0, <1>3, <1>4, <2>1, <3>1, <3>2 DEF ThreadsAreKnown, Early
    <2>5. ServersAreFresh'
      BY <1>0, <2>1 DEF ServersAreFresh
    <2>6. Replaceable' <=> Replaceable
      BY <1>1, <2>1 DEF Replaceable
    <2>7. LeftAreBehind'
      <3>1. \A k \in left : at'[k] = at[k]
        BY <1>0, <2>1, <2>2 DEF TargetTypeOK, TypeOK
      <3> QED
        BY <1>0, <1>1, <2>1, <2>6, <3>1 DEF LeftAreBehind, Filing
    <2>8. FaultsAreOurs'
      BY <1>0, <1>1, <2>1, <2>2, <2>6 DEF FaultsAreOurs, TargetTypeOK, TypeOK
    <2> QED
      BY <1>2, <2>3, <2>4, <2>5, <2>7, <2>8 DEF TargetInv
  <1>8. CASE CheckReturns \/ WatchdogFires
    <2>1. PICK kind \in Ended : File(kind) /\ (WatchdogFires => kind = "timeout")
      BY <1>8 DEF CheckReturns, WatchdogFires, Ended, Raised
    <2>2. /\ pc = "join" /\ UNCHANGED <<target, up, unreplaced, at, fault, before>>
          /\ (pc' = "replace" /\ cur' = cur) \/ (pc' = "next" /\ cur' = cur + 1)
          /\ WatchdogFires /\ run.restartable => pc' = "replace"
      BY <1>8, <2>1 DEF CheckReturns, WatchdogFires, File, servers, faults
    <2>3. \/ left' = left /\ thread' = [thread EXCEPT ![cur] = "gone"] /\ thread[cur] \in Ended
          \/ left' = left \cup {cur} /\ thread' = thread /\ WatchdogFires
      BY <1>8 DEF CheckReturns, WatchdogFires
    <2>4. cur \in Checks
      BY <1>5, <2>2
    <2>5. TargetTypeOK'
      BY <1>0, <1>3, <2>2 DEF TargetTypeOK
    <2>6. ThreadsAreKnown'
      <3>1. /\ \A k \in Checks : k # cur => thread'[k] = thread[k] /\ (k \in left' <=> k \in left)
            /\ thread'[cur] = "running" => cur \in left'
            /\ left \subseteq left'
        BY <2>3, <2>4 DEF TypeOK
      <3>2. \A k \in Checks : k > cur' \/ (k = cur' /\ pc' \in Early) => k > cur
        BY <1>3, <1>4, <2>2 DEF Early
      <3>3. \A k \in Checks : k > cur => thread[k] = None /\ before[k] = Unarmed /\ k \notin left /\ k # cur
        BY <1>0, <1>3, <2>2 DEF ThreadsAreKnown
      <3>4. \A k \in Checks : thread[k] = "running" => k \in left \/ k = cur
        BY <1>0, <2>2 DEF ThreadsAreKnown
      <3>5. \A k \in Checks : k > cur' \/ (k = cur' /\ pc' \in Early) =>
              thread'[k] = None /\ before'[k] = Unarmed /\ k \notin left'
        BY <2>2, <3>1, <3>2, <3>3
      <3>6. \A k \in Checks : thread'[k] = "running" => k \in left'
        BY <3>1, <3>4
      <3> QED
        BY <2>2, <3>5, <3>6 DEF ThreadsAreKnown
    <2>7. ServersAreFresh'
      BY <1>0, <2>2 DEF ServersAreFresh
    <2>8. Replaceable' <=> Replaceable
      BY <1>1, <2>2 DEF Replaceable
    <2>9. LeftAreBehind'
      <3>1. CASE WatchdogFires
        BY <2>2, <2>8, <3>1 DEF LeftAreBehind, Filing, Replaceable
      <3>2. CASE ~WatchdogFires
        BY <1>0, <1>1, <2>2, <2>3, <2>8, <3>2 DEF LeftAreBehind, Filing
      <3> QED
        BY <3>1, <3>2
    <2>10. FaultsAreOurs'
      <3>1. CASE WatchdogFires
        BY <2>2, <2>8, <3>1 DEF FaultsAreOurs, Replaceable
      <3>2. CASE ~WatchdogFires
        <4>1. thread[cur] # "running"
          BY <2>3, <3>2 DEF Ended, Raised
        <4> QED
          BY <1>0, <1>1, <2>2, <2>8, <4>1 DEF FaultsAreOurs
      <3> QED
        BY <3>1, <3>2
    <2> QED
      BY <1>2, <2>5, <2>6, <2>7, <2>9, <2>10 DEF TargetInv
  <1>9. CASE StopOld
    <2>1. /\ pc = "replace" /\ UNCHANGED <<thread, left, target, unreplaced, at, before>>
          /\ \/ target = 0 /\ pc' = "next" /\ cur' = cur + 1 /\ UNCHANGED <<up, fault>>
             \/ /\ pc' = "replacing" /\ cur' = cur /\ up' = up \ {target}
                /\ fault' = [fault EXCEPT ![target] = Clear]
      BY <1>9 DEF StopOld
    <2>2. cur \in Checks
      BY <1>5, <2>1
    <2>3. TargetTypeOK'
      BY <1>0, <1>3, <2>1 DEF TargetTypeOK, Clear
    <2>4. ThreadsAreKnown'
      <3>1. \A k \in Checks : k > cur' \/ (k = cur' /\ pc' \in Early) => k > cur
        BY <1>3, <1>4, <2>1 DEF Early
      <3> QED
        BY <1>0, <2>1, <3>1 DEF ThreadsAreKnown, Filing
    <2>5. ServersAreFresh'
      <3>1. \A g \in Generations : fault'[g] \in {fault[g], Clear}
        BY <1>0, <2>1 DEF TargetTypeOK
      <3> QED
        BY <1>0, <2>1, <3>1 DEF ServersAreFresh
    <2>6. LeftAreBehind' /\ FaultsAreOurs'
      BY <2>1 DEF LeftAreBehind, FaultsAreOurs, Replaceable, Filing
    <2> QED
      BY <1>2, <2>3, <2>4, <2>5, <2>6 DEF TargetInv
  <1>10. CASE StartFresh
    <2>1. /\ pc = "replacing" /\ pc' = "next" /\ cur' = cur + 1
          /\ UNCHANGED <<thread, left, at, fault, before>>
          /\ \/ target' = target + 1 /\ up' = up \cup {target + 1} /\ unreplaced' = unreplaced
             \/ unreplaced' = unreplaced \cup {target} /\ UNCHANGED <<target, up>>
      BY <1>10 DEF StartFresh, Serve, faults
    <2>2. target \in Generations /\ target + 1 \in Generations
      BY <1>3, <1>4, <1>5, <2>1 DEF Generations
    <2>3. TargetTypeOK'
      <3>1. at' \in [Checks -> 0..target'] /\ target' \in 0..cur'
        BY <1>0, <1>3, <2>1 DEF TargetTypeOK
      <3>2. up' \subseteq Generations /\ unreplaced' \subseteq Generations
        BY <1>0, <2>1, <2>2 DEF TargetTypeOK
      <3> QED
        BY <1>0, <2>1, <3>1, <3>2 DEF TargetTypeOK
    <2>4. ThreadsAreKnown'
      <3>1. \A k \in Checks : k > cur' \/ (k = cur' /\ pc' \in Early) => k > cur
        BY <1>3, <1>4, <2>1 DEF Early
      <3> QED
        BY <1>0, <2>1, <3>1 DEF ThreadsAreKnown, Filing
    <2>5. \A g \in Generations : g > target => fault[g] = Clear
      BY <1>0 DEF ServersAreFresh
    <2>6. ServersAreFresh'
      <3>1. \A g \in Generations : g > target' => g > target
        BY <1>3, <2>1 DEF Generations
      <3> QED
        BY <2>1, <2>5, <3>1 DEF ServersAreFresh
    <2>7. LeftAreBehind'
      BY <1>3, <2>1 DEF LeftAreBehind, Replaceable, TypeOK
    <2>8. FaultsAreOurs'
      <3>1. target' = target + 1 => fault'[target'] = Clear
        BY <1>3, <2>1, <2>2, <2>5
      <3> QED
        BY <2>1, <3>1 DEF FaultsAreOurs, Replaceable
    <2> QED
      BY <1>2, <2>3, <2>4, <2>6, <2>7, <2>8 DEF TargetInv
  <1>11. CASE StopServer
    <2>1. /\ pc = "unwind" /\ pc' = "exit" /\ up' \subseteq up /\ fault' = [fault EXCEPT ![1] = Clear]
          /\ UNCHANGED <<cur, thread, left, target, unreplaced, at, before>>
      BY <1>11 DEF StopServer
    <2>2. TargetTypeOK'
      <3>1. fault' \in [Generations -> 0..N]
        <4>1. fault \in [Generations -> 0..N] /\ Clear \in 0..N
          BY <1>0 DEF TargetTypeOK, Clear
        <4> QED
          BY <2>1, <4>1
      <3>2. up' \subseteq Generations
        BY <1>0, <2>1 DEF TargetTypeOK
      <3> QED
        BY <1>0, <2>1, <3>1, <3>2 DEF TargetTypeOK
    <2>3. ThreadsAreKnown'
      BY <2>1 DEF ThreadsAreKnown, Early, Filing
    <2>4. ServersAreFresh'
      <3>1. \A g \in Generations : fault'[g] \in {fault[g], Clear}
        BY <1>0, <2>1 DEF TargetTypeOK
      <3> QED
        BY <1>0, <2>1, <3>1 DEF ServersAreFresh
    <2>5. Replaceable' <=> Replaceable
      BY <1>1, <2>1 DEF Replaceable
    <2>6. LeftAreBehind'
      BY <1>0, <1>1, <2>1, <2>5 DEF LeftAreBehind, Filing
    <2>7. FaultsAreOurs'
      BY <2>1 DEF FaultsAreOurs
    <2> QED
      BY <1>2, <2>2, <2>3, <2>4, <2>6, <2>7 DEF TargetInv
  <1> QED
    BY <1>6, <1>7, <1>8, <1>9, <1>10, <1>11

\* Every step preserves the targets' invariant.
LEMMA TargetInvStep == ScriptInv /\ TargetInv /\ [Next]_vars => TargetInv'
  <1> SUFFICES ASSUME ScriptInv, TargetInv, [Next]_vars PROVE TargetInv'
    OBVIOUS
  <1>0. TypeOK
    BY DEF ScriptInv
  <1>1. CASE SetupMistake \/ Exit \/ Kill
    BY <1>0, <1>1, TargetInvEnds
  <1>2. CASE Aside \/ UNCHANGED vars
    BY <1>0, <1>2, TargetInvAside
  <1>3. ASSUME NEW c \in Checks, ArmFault(c) \/ RestoreFault(c) \/ LookUpTarget(c) \/ End(c)
        PROVE  TargetInv'
    BY <1>0, <1>3, TargetInvWorker
  <1>4. CASE \/ OpenTarget \/ StartCheck \/ CheckReturns \/ WatchdogFires \/ StopOld \/ StartFresh
             \/ StopServer
    BY <1>0, <1>4, TargetInvMain
  <1> QED
    BY <1>1, <1>2, <1>3, <1>4 DEF Next, Main, Worker, Aside

\* A replaced target meets no abandoned thread that did not look for it, and, unless one
\* did, no fault but the current check's.
THEOREM ReplacingCleans == Spec => []ReplacedTargetIsClean
  <1>1. ScriptInv /\ TargetInv => ReplacedTargetIsClean
    <2> SUFFICES ASSUME ScriptInv, TargetInv, pc = "join", Replaceable
                 PROVE  /\ Strays \subseteq looked
                        /\ fault[target] \notin {Clear, cur} => \E c \in looked : at[c] = target
      BY DEF ReplacedTargetIsClean, Replaceable
    <2>0. TypeOK /\ TargetTypeOK
      BY DEF ScriptInv, TargetInv
    <2>1. CASE Alive
      <3>1. LeftAreBehind /\ FaultsAreOurs
        BY <2>1 DEF TargetInv
      <3>2. Strays \subseteq looked
        <4> SUFFICES ASSUME NEW c \in left \ looked, at[c] = target PROVE FALSE
          BY DEF Strays
        <4>1. at[c] < target /\ at[c] \in Nat
          BY <2>0, <3>1 DEF LeftAreBehind, Filing, TargetTypeOK, TypeOK
        <4> QED
          BY <4>1
      <3> QED
        BY <3>1, <3>2 DEF FaultsAreOurs
    <2>2. CASE ~Alive
      <3>1. NothingOutlives
        BY <2>2 DEF TargetInv
      <3>2. Strays = {}
        BY <2>0, <3>1 DEF NothingOutlives, Strays, TypeOK
      <3>3. target \in Generations
        BY <2>0, ConstantsAssumption DEF TargetTypeOK, TypeOK, Generations, ConstantsAssumption
      <3> QED
        BY <3>1, <3>2, <3>3 DEF NothingOutlives
    <2> QED
      BY <2>1, <2>2
  <1> QED
    BY <1>1, ScriptInvInit, ScriptInvStep, TargetInvInit, TargetInvStep, PTL DEF Spec

-----------------------------------------------------------------------------
(* The sweep: the inductive invariant.                                     *)

Outcomes == {"", "timeout", "hung_at_exit"}
Endings == [outcome : Outcomes, clean : BOOLEAN, complete : BOOLEAN, lost : BOOLEAN]
Busy == {"poll", "judge", "term", "kill", "join", "account"}

SweepTypeOK ==
  /\ phase \in Busy \cup {"next", "done"}
  /\ position \in Nat /\ failed \in Nat
  /\ outcome \in Outcomes /\ log \in Seq(Endings)

\* What the runner believes of a script is so: the pump saw a summary that was said, the
\* grace is that of a summary it saw, and the script reports before it says so, and says
\* so before it gives a verdict.
BeliefsAreTrue ==
  /\ said => (wanted => report = "whole")
  /\ childCode \in Script!Verdicts => said
  /\ "summary" \in saw => said
  /\ graced => "summary" \in saw
  /\ outcome = "hung_at_exit" => graced

\* What a log entry says of a script that exited 0 by itself.
Passed(e) == e.outcome = "" /\ e.clean

\* The counters are of the log, and it is as long as the plan is done.
CountsAreOfTheLog ==
  /\ \A i \in DOMAIN log : log[i].outcome = "hung_at_exit" => log[i].complete
  /\ failed = 0 => \A i \in DOMAIN log : Passed(log[i])
  /\ phase = "next" => Len(log) = position
  /\ phase \in Busy => Len(log) + 1 = position
  /\ status # StillRunning => phase = "done"
  /\ status = 0 => failed = 0 /\ Len(log) = Len(Plan)

SweepInv == SweepTypeOK /\ BeliefsAreTrue /\ CountsAreOfTheLog

-----------------------------------------------------------------------------
(* It is one.                                                              *)

\* A script that runs has given no verdict.
LEMMA RunningIsNoCode == StillRunning \notin Script!Verdicts /\ StillRunning \notin Nat
  BY DEF StillRunning, Script!Running, Script!Verdicts

\* Nothing has been run at first.
LEMMA SweepInvInit == SweepInit => SweepInv
  <1> SUFFICES ASSUME SweepInit PROVE SweepInv
    OBVIOUS
  <1>0. ~said /\ ~graced /\ childCode = StillRunning /\ saw = {} /\ outcome = ""
    BY Zenon DEF SweepInit, Script!ProcessInit, StillRunning
  <1>a. phase = "next" /\ position = 0 /\ failed = 0 /\ status = StillRunning /\ log = <<>>
    BY Zenon DEF SweepInit
  <1>1. SweepTypeOK
    <2>1. outcome \in Outcomes
      BY <1>0, Zenon DEF Outcomes
    <2> QED
      BY <1>a, <2>1 DEF SweepTypeOK, Busy
  <1>2. BeliefsAreTrue
    BY <1>0, RunningIsNoCode DEF BeliefsAreTrue
  <1>3. CountsAreOfTheLog
    BY <1>a, RunningIsNoCode DEF CountsAreOfTheLog, Busy
  <1> QED
    BY <1>1, <1>2, <1>3 DEF SweepInv

\* A step that leaves the log and the plan alone and stays with the script.
LEMMA SameScript ==
  ASSUME SweepInv, phase \in Busy, phase' \in Busy, outcome' \in Outcomes, BeliefsAreTrue',
         UNCHANGED <<position, failed, status, log>>
  PROVE  SweepInv'
  <1>1. SweepTypeOK'
    BY DEF SweepInv, SweepTypeOK
  <1>2. status = StillRunning /\ "done" \notin Busy /\ "next" \notin Busy
    BY DEF SweepInv, CountsAreOfTheLog, Busy
  <1>3. CountsAreOfTheLog'
    BY <1>2 DEF SweepInv, CountsAreOfTheLog, StillRunning, Script!Running
  <1> QED
    BY <1>1, <1>3 DEF SweepInv

\* The script reports, says so and ends in that order.
LEMMA ScriptStepsStep ==
  ASSUME SweepInv, ScriptSteps
  PROVE  SweepInv'
  <1>0. SweepTypeOK /\ BeliefsAreTrue /\ CountsAreOfTheLog
    BY DEF SweepInv
  <1>1. /\ phase \in Busy /\ phase' = phase
        /\ UNCHANGED <<position, saw, late, graced, outcome, failed, status, log>>
    BY DEF ScriptSteps, Spawned, Busy, watch, counters
  <1>2. BeliefsAreTrue'
    <2>1. CASE Script!WriteReport
      BY <1>0, <1>1, <2>1 DEF BeliefsAreTrue, Script!WriteReport
    <2>2. CASE Script!Say
      BY <1>0, <1>1, <2>2 DEF BeliefsAreTrue, Script!Say
    <2>3. ASSUME NEW c \in ExitCodes \cap Script!Codes, Script!Exit(c) PROVE BeliefsAreTrue'
      BY <1>0, <1>1, <2>3 DEF BeliefsAreTrue, Script!Exit
    <2>4. CASE UNCHANGED <<wanted, report, said, childCode>>
      BY <1>0, <1>1, <2>4 DEF BeliefsAreTrue
    <2> QED
      BY <2>1, <2>2, <2>3, <2>4 DEF ScriptSteps
  <1> QED
    BY <1>0, <1>1, <1>2, SameScript DEF SweepTypeOK

\* The pump sees what was printed, and the clocks run; the runner looks, and kills.
LEMMA WatchStep ==
  ASSUME SweepInv, Pump \/ TimePasses \/ Poll \/ Judge \/ JoinReader
  PROVE  SweepInv'
  <1>0. SweepTypeOK /\ BeliefsAreTrue /\ CountsAreOfTheLog
    BY DEF SweepInv
  <1>1. /\ phase \in Busy /\ UNCHANGED <<position, failed, status, log>>
        /\ UNCHANGED <<wanted, report, said, childCode>>
    BY DEF Pump, TimePasses, Poll, Judge, JoinReader, Spawned, Busy, child, options, counters
  <1>2. phase' \in Busy /\ outcome' \in Outcomes
    BY <1>0, <1>1 DEF Pump, TimePasses, Poll, Judge, JoinReader, SweepTypeOK, Busy, Outcomes
  <1>3. BeliefsAreTrue'
    <2>1. CASE Pump
      <3>1. "summary" \in saw' => said
        BY <1>0, <2>1 DEF Pump, Printed, BeliefsAreTrue
      <3>2. saw \subseteq saw' /\ graced' = graced /\ outcome' = outcome
        BY <2>1 DEF Pump
      <3> QED
        BY <1>0, <1>1, <3>1, <3>2 DEF BeliefsAreTrue
    <2>2. CASE TimePasses
      <3>1. saw' = saw /\ outcome' = outcome /\ (graced' = graced \/ ("summary" \in saw /\ graced' = TRUE))
        BY <2>2 DEF TimePasses
      <3> QED
        BY <1>0, <1>1, <3>1 DEF BeliefsAreTrue
    <2>3. CASE Poll \/ JoinReader
      <3>1. saw' = saw /\ outcome' = outcome /\ graced' = graced
        BY <2>3 DEF Poll, JoinReader, watch
      <3> QED
        BY <1>0, <1>1, <3>1 DEF BeliefsAreTrue
    <2>4. CASE Judge
      <3>1. saw' = saw /\ graced' = graced /\ (outcome' = "hung_at_exit" => graced)
        BY <2>4 DEF Judge, watch
      <3> QED
        BY <1>0, <1>1, <3>1 DEF BeliefsAreTrue
    <2> QED
      BY <2>1, <2>2, <2>3, <2>4
  <1> QED
    BY <1>1, <1>2, <1>3, SameScript

\* A script that is killed gives no verdict.
LEMMA TerminateStep ==
  ASSUME SweepInv, Terminate \/ TerminateForGood
  PROVE  SweepInv'
  <1>0. SweepTypeOK /\ BeliefsAreTrue /\ CountsAreOfTheLog
    BY DEF SweepInv
  <1>1. /\ phase \in Busy /\ phase' \in Busy /\ UNCHANGED <<position, failed, status, log>>
        /\ UNCHANGED <<saw, graced, outcome>>
    BY DEF Terminate, TerminateForGood, Busy, watch, counters
  <1>2. UNCHANGED <<wanted, report, said>> /\ childCode' \in {childCode, Script!Killed}
    BY DEF Terminate, TerminateForGood, Script!Kill, options
  <1>3. Script!Killed \notin Script!Verdicts
    BY DEF Script!Killed, Script!Verdicts
  <1>4. BeliefsAreTrue'
    BY <1>0, <1>1, <1>2, <1>3 DEF BeliefsAreTrue
  <1> QED
    BY <1>0, <1>1, <1>4, SameScript DEF SweepTypeOK

\* The next script of the plan: the log is one behind until it is accounted for.
LEMMA StartStep ==
  ASSUME SweepInv, Start
  PROVE  SweepInv'
  <1>0. SweepTypeOK /\ BeliefsAreTrue /\ CountsAreOfTheLog
    BY DEF SweepInv
  <1>1. /\ phase = "next" /\ phase' = "poll" /\ position' = position + 1 /\ UNCHANGED <<failed, status, log, outcome>>
        /\ UNCHANGED <<wanted, report, said, childCode, saw, graced>>
    BY DEF Start, options, child, watch
  <1>2. SweepTypeOK'
    BY <1>0, <1>1 DEF SweepTypeOK, Busy
  <1>3. BeliefsAreTrue'
    BY <1>0, <1>1 DEF BeliefsAreTrue
  <1>4. CountsAreOfTheLog'
    BY <1>0, <1>1 DEF CountsAreOfTheLog, Busy, SweepTypeOK, StillRunning, Script!Running
  <1> QED
    BY <1>2, <1>3, <1>4 DEF SweepInv

\* One entry more.
LEMMA LongerLog ==
  ASSUME NEW q \in Seq(Endings), NEW e \in Endings
  PROVE  /\ Append(q, e) \in Seq(Endings) /\ Len(Append(q, e)) = Len(q) + 1
         /\ \A i \in DOMAIN Append(q, e) : (i \in DOMAIN q /\ Append(q, e)[i] = q[i]) \/ Append(q, e)[i] = e
  OBVIOUS

\* What is logged of a script.
LEMMA EndingTyped ==
  ASSUME SweepInv
  PROVE  Ending \in Endings
  <1>1. /\ (childCode = 0 /\ (wanted => report = "whole")) \in BOOLEAN
        /\ LeftComplete \in BOOLEAN /\ (childCode = 3 \/ (childCode # 0 /\ gone)) \in BOOLEAN
    BY DEF LeftComplete
  <1>2. outcome \in Outcomes
    BY DEF SweepInv, SweepTypeOK
  <1> HIDE DEF LeftComplete
  <1> QED
    BY <1>1, <1>2 DEF Ending, Endings

\* A script that is not counted as failed exited 0 by itself, so it said its summary and
\* left its report.
LEMMA AccountStep ==
  ASSUME SweepInv, Account
  PROVE  SweepInv'
  <1>0. SweepTypeOK /\ BeliefsAreTrue /\ CountsAreOfTheLog
    BY DEF SweepInv
  <1>1. /\ phase = "account" /\ position' = position /\ wanted' = wanted /\ log' = Append(log, Ending)
        /\ failed' = failed + (IF Failed THEN 1 ELSE 0)
        /\ \/ phase' = "done" /\ status' = IF failed' > 0 THEN failed' ELSE 1
           \/ phase' = "next" /\ status' = status
    BY Zenon DEF Account, options
  <1>a. ~said' /\ ~graced' /\ childCode' = StillRunning /\ saw' = {} /\ outcome' = ""
    BY Zenon DEF Account
  <1>2. Ending \in Endings
    BY EndingTyped
  <1>3. Ending.outcome = "hung_at_exit" => Ending.complete
    BY <1>0 DEF Ending, LeftComplete, BeliefsAreTrue
  <1>4. ~Failed => Passed(Ending)
    <2>1. 0 \in Script!Verdicts
      BY DEF Script!Verdicts
    <2> QED
      BY <1>0, <2>1, Zenon DEF Failed, Returned, Ending, BeliefsAreTrue, Passed
  <1>5. PICK e \in Endings : /\ log' = Append(log, e)
                             /\ e.outcome = "hung_at_exit" => e.complete
                             /\ ~Failed => Passed(e)
    BY <1>1, <1>2, <1>3, <1>4
  <1>6. log \in Seq(Endings) /\ failed \in Nat /\ failed' \in Nat /\ (failed' = 0 => failed = 0 /\ ~Failed)
    <2>1. log \in Seq(Endings) /\ failed \in Nat
      BY <1>0 DEF SweepTypeOK
    <2>2. CASE Failed
      BY <1>1, <2>1, <2>2
    <2>3. CASE ~Failed
      BY <1>1, <2>1, <2>3
    <2> QED
      BY <2>1, <2>2, <2>3
  <1>7. /\ log' \in Seq(Endings) /\ Len(log') = Len(log) + 1
        /\ \A i \in DOMAIN log' : (i \in DOMAIN log /\ log'[i] = log[i]) \/ log'[i] = e
    BY <1>5, <1>6, LongerLog
  <1>8. SweepTypeOK'
    <2>1. outcome' \in Outcomes
      BY <1>a, Zenon DEF Outcomes
    <2> QED
      BY <1>0, <1>1, <1>6, <1>7, <2>1 DEF SweepTypeOK, Busy
  <1>9. BeliefsAreTrue'
    BY <1>a, RunningIsNoCode DEF BeliefsAreTrue
  <1>10. CountsAreOfTheLog'
    <2>1. \A i \in DOMAIN log' : log'[i].outcome = "hung_at_exit" => log'[i].complete
      BY <1>0, <1>5, <1>7 DEF CountsAreOfTheLog
    <2>2. failed' = 0 => \A i \in DOMAIN log' : Passed(log'[i])
      BY <1>0, <1>5, <1>6, <1>7 DEF CountsAreOfTheLog
    <2>3. Len(log') = position
      BY <1>0, <1>1, <1>7 DEF CountsAreOfTheLog, Busy
    <2>4. status = StillRunning
      BY <1>0, <1>1 DEF CountsAreOfTheLog
    <2>5. status' # 0 /\ (status' # StillRunning => phase' = "done")
      BY <1>1, <1>6, <2>4, RunningIsNoCode
    <2>6. phase' \notin Busy
      BY <1>1 DEF Busy
    <2> QED
      BY <1>1, <2>1, <2>2, <2>3, <2>5, <2>6 DEF CountsAreOfTheLog
  <1> QED
    BY <1>8, <1>9, <1>10 DEF SweepInv

\* At the end of the plan the runner returns the number of scripts that failed.
LEMMA FinishStep ==
  ASSUME SweepInv, FinishSweep
  PROVE  SweepInv'
  <1>0. SweepTypeOK /\ BeliefsAreTrue /\ CountsAreOfTheLog
    BY DEF SweepInv
  <1>1. /\ phase = "next" /\ position = Len(Plan) /\ phase' = "done" /\ status' = failed
        /\ UNCHANGED <<position, failed, log, outcome, wanted, report, said, childCode, saw, graced>>
    BY DEF FinishSweep, options, child, watch, counters
  <1>2. SweepTypeOK'
    BY <1>0, <1>1 DEF SweepTypeOK, Busy
  <1>3. BeliefsAreTrue'
    BY <1>0, <1>1 DEF BeliefsAreTrue
  <1>4. CountsAreOfTheLog'
    BY <1>0, <1>1 DEF CountsAreOfTheLog, Busy
  <1> QED
    BY <1>2, <1>3, <1>4 DEF SweepInv

\* Every step keeps the invariant.
LEMMA SweepInvStep == SweepInv /\ [SweepNext]_sweepVars => SweepInv'
  <1> SUFFICES ASSUME SweepInv, [SweepNext]_sweepVars PROVE SweepInv'
    OBVIOUS
  <1>1. ASSUME UNCHANGED sweepVars PROVE SweepInv'
    <2>1. UNCHANGED <<wanted, report, said, childCode, saw, graced, outcome, phase, position, failed, status, log>>
      BY <1>1 DEF sweepVars, options, child, watch, counters
    <2> QED
      BY <2>1 DEF SweepInv, SweepTypeOK, BeliefsAreTrue, CountsAreOfTheLog
  <1> QED
    BY <1>1, ScriptStepsStep, WatchStep, TerminateStep, StartStep, AccountStep, FinishStep
       DEF SweepNext, Runner

\* The invariant holds in every reachable state.
THEOREM SweepInvariant == SweepSpec => []SweepInv
  BY SweepInvInit, SweepInvStep, PTL DEF SweepSpec

-----------------------------------------------------------------------------
(* When the sweep stops early.                                             *)

Exited(e) == e.outcome = ""
LostExit(e) == e.outcome = "" /\ e.lost

\* Entry j of q lost its target, and nothing after it exited by itself.
LastLost(q, j) == LostExit(q[j]) /\ \A k \in DOMAIN q : k > j => ~Exited(q[k])

TwoLost(q) ==
  \E i, j \in DOMAIN q :
    /\ i < j /\ LostExit(q[i]) /\ LostExit(q[j])
    /\ \A k \in DOMAIN q : k > i /\ Exited(q[k]) => k = j

\* What unreachable counts, and what it took to stop.
StopInv ==
  /\ unreachable \in Nat
  /\ "gone" \in saw => gone
  /\ unreachable >= 1 => \E j \in DOMAIN log : LastLost(log, j)
  /\ unreachable >= 2 => TwoLost(log)
  /\ status # StillRunning => Len(log) = Len(Plan) \/ (~keepGoing /\ status > 0 /\ TwoLost(log))

\* An entry more: of a script that exited with its target lost, or of one that was killed.
LEMMA OneMoreLost ==
  ASSUME NEW q \in Seq(Endings), NEW e \in Endings, LostExit(e)
  PROVE  /\ \E j \in DOMAIN Append(q, e) : LastLost(Append(q, e), j)
         /\ \A j \in DOMAIN q : LastLost(q, j) => TwoLost(Append(q, e))
  <1> DEFINE r == Append(q, e)
             n == Len(q) + 1
  <1>1. /\ n \in DOMAIN r /\ r[n] = e /\ DOMAIN r = 1..n /\ DOMAIN q = 1..Len(q) /\ Len(q) \in Nat
        /\ \A k \in DOMAIN q : r[k] = q[k]
    OBVIOUS
  <1> HIDE DEF r
  <1>2. LastLost(r, n)
    BY <1>1 DEF LastLost
  <1>3. ASSUME NEW j \in DOMAIN q, LastLost(q, j) PROVE TwoLost(r)
    <2>1. j \in DOMAIN r /\ j < n /\ r[j] = q[j]
      BY <1>1
    <2>2. LostExit(r[j]) /\ LostExit(r[n])
      BY <1>1, <1>3, <2>1 DEF LastLost
    <2>3. ASSUME NEW k \in DOMAIN r, k > j, Exited(r[k]) PROVE k = n
      <3>1. k = n \/ k \in DOMAIN q
        BY <1>1
      <3>2. ASSUME k \in DOMAIN q PROVE FALSE
        BY <1>1, <1>3, <2>3, <3>2 DEF LastLost
      <3> QED
        BY <3>1, <3>2
    <2> QED
      BY <1>1, <2>1, <2>2, <2>3 DEF TwoLost
  <1> QED
    BY <1>1, <1>2, <1>3 DEF r

\* The killed ones are looked past.
LEMMA OneMoreKilled ==
  ASSUME NEW q \in Seq(Endings), NEW e \in Endings, ~Exited(e)
  PROVE  /\ \A j \in DOMAIN q : LastLost(q, j) => j \in DOMAIN Append(q, e) /\ LastLost(Append(q, e), j)
         /\ TwoLost(q) => TwoLost(Append(q, e))
  <1> DEFINE r == Append(q, e)
             n == Len(q) + 1
  <1>1. /\ n \in DOMAIN r /\ r[n] = e /\ DOMAIN r = 1..n /\ DOMAIN q = 1..Len(q) /\ Len(q) \in Nat
        /\ \A k \in DOMAIN q : r[k] = q[k]
    OBVIOUS
  <1> HIDE DEF r
  <1>2. \A k \in DOMAIN r : Exited(r[k]) => k \in DOMAIN q /\ Exited(q[k])
    BY <1>1
  <1>3. DOMAIN q \subseteq DOMAIN r
    BY <1>1
  <1>4. ASSUME NEW j \in DOMAIN q, LastLost(q, j) PROVE LastLost(r, j)
    BY <1>1, <1>2, <1>4 DEF LastLost
  <1>5. ASSUME TwoLost(q) PROVE TwoLost(r)
    <2>1. PICK i \in DOMAIN q, j \in DOMAIN q :
            /\ i < j /\ LostExit(q[i]) /\ LostExit(q[j])
            /\ \A k \in DOMAIN q : k > i /\ Exited(q[k]) => k = j
      BY <1>5 DEF TwoLost
    <2>2. i \in DOMAIN r /\ j \in DOMAIN r /\ LostExit(r[i]) /\ LostExit(r[j])
      BY <1>1, <1>3, <2>1
    <2>3. \A k \in DOMAIN r : k > i /\ Exited(r[k]) => k = j
      BY <1>2, <2>1
    <2> QED
      BY <2>1, <2>2, <2>3 DEF TwoLost
  <1> QED
    BY <1>3, <1>4, <1>5 DEF r

\* Nothing was lost at first.
LEMMA StopInvInit == SweepInit => StopInv
  <1> SUFFICES ASSUME SweepInit PROVE StopInv
    OBVIOUS
  <1>1. unreachable = 0 /\ saw = {} /\ status = StillRunning
    BY DEF SweepInit
  <1> QED
    BY <1>1 DEF StopInv

\* A step that leaves the runner's counter and the log alone.
LEMMA SameCounter ==
  ASSUME StopInv, UNCHANGED <<unreachable, log, status, keepGoing>>, "gone" \in saw' => gone'
  PROVE  StopInv'
  BY Zenon DEF StopInv

\* unreachable grows with a script that lost its target, and falls with one that did not.
LEMMA StopInvAccount ==
  ASSUME SweepInv, StopInv, Account
  PROVE  StopInv'
  <1>1. /\ log' = Append(log, Ending) /\ keepGoing' = keepGoing /\ saw' = {}
        /\ unreachable' = IF ~Returned THEN unreachable ELSE IF CouldNotReach THEN unreachable + 1 ELSE 0
    BY Zenon DEF Account, options
  <1>2. \/ ~keepGoing /\ unreachable' >= 2 /\ status' = (IF failed' > 0 THEN failed' ELSE 1)
        \/ status' = status
    BY Zenon DEF Account
  <1>3. failed \in Nat /\ status = StillRunning /\ failed' \in Nat /\ log \in Seq(Endings)
    <2>1. failed \in Nat /\ log \in Seq(Endings) /\ phase = "account"
      BY DEF SweepInv, SweepTypeOK, Account
    <2>2. status = StillRunning
      BY <2>1 DEF SweepInv, CountsAreOfTheLog
    <2>3. failed' \in Nat
      BY AccountStep DEF SweepInv, SweepTypeOK
    <2> QED
      BY <2>1, <2>2, <2>3
  <1>4. Ending \in Endings
    BY EndingTyped
  <1>5. (Returned <=> Exited(Ending)) /\ (Returned /\ CouldNotReach => LostExit(Ending))
    BY Zenon DEF Ending, Returned, Exited, LostExit, CouldNotReach, StopInv
  <1> DEFINE e == Ending
  <1>6. e \in Endings /\ log' = Append(log, e) /\ (Returned <=> Exited(e))
        /\ (Returned /\ CouldNotReach => LostExit(e))
    BY <1>1, <1>4, <1>5
  <1> HIDE DEF e
  <1>7. /\ unreachable' \in Nat
        /\ unreachable' >= 1 => \E j \in DOMAIN log' : LastLost(log', j)
        /\ unreachable' >= 2 => TwoLost(log')
    <2>1. CASE ~Returned
      <3>1. unreachable' = unreachable
        BY <1>1, <2>1
      <3>2. /\ \A j \in DOMAIN log : LastLost(log, j) => j \in DOMAIN log' /\ LastLost(log', j)
            /\ TwoLost(log) => TwoLost(log')
        BY <1>3, <1>6, <2>1, OneMoreKilled
      <3> QED
        BY <3>1, <3>2 DEF StopInv
    <2>2. CASE Returned /\ CouldNotReach
      <3>1. unreachable' = unreachable + 1 /\ unreachable \in Nat
        BY <1>1, <2>2 DEF StopInv
      <3>2. /\ \E j \in DOMAIN log' : LastLost(log', j)
            /\ \A j \in DOMAIN log : LastLost(log, j) => TwoLost(log')
        BY <1>3, <1>6, <2>2, OneMoreLost
      <3>3. unreachable' >= 2 => unreachable >= 1
        BY <3>1
      <3>4. unreachable' >= 2 => TwoLost(log')
        BY <3>2, <3>3 DEF StopInv
      <3> QED
        BY <3>1, <3>2, <3>4
    <2>3. CASE Returned /\ ~CouldNotReach
      BY <1>1, <2>3
    <2> QED
      BY <2>1, <2>2, <2>3
  <1>8. status' # StillRunning => ~keepGoing' /\ status' > 0 /\ TwoLost(log')
    <2> SUFFICES ASSUME status' # StillRunning PROVE ~keepGoing' /\ status' > 0 /\ TwoLost(log')
      OBVIOUS
    <2>1. ~keepGoing /\ unreachable' >= 2 /\ status' = (IF failed' > 0 THEN failed' ELSE 1)
      BY <1>2, <1>3
    <2>2. status' > 0
      BY <1>3, <2>1
    <2>3. ~keepGoing'
      BY <1>1, <2>1, Zenon
    <2> QED
      BY <1>7, <2>1, <2>2, <2>3
  <1>9. "gone" \notin saw'
    BY <1>1
  <1> QED
    BY <1>7, <1>8, <1>9, Zenon DEF StopInv

\* Every step keeps it.
LEMMA StopInvStep == SweepInv /\ StopInv /\ [SweepNext]_sweepVars => StopInv'
  <1> SUFFICES ASSUME SweepInv, StopInv, [SweepNext]_sweepVars PROVE StopInv'
    OBVIOUS
  <1>1. CASE ScriptSteps
    <2>1. UNCHANGED <<unreachable, log, status, keepGoing, saw>>
      BY <1>1 DEF ScriptSteps, counters, watch
    <2>2. gone => gone'
      BY <1>1, Zenon DEF ScriptSteps
    <2> QED
      BY <2>1, <2>2, SameCounter, Zenon DEF StopInv
  <1>2. CASE Pump
    <2>1. UNCHANGED <<unreachable, log, status, keepGoing, gone>>
      BY <1>2 DEF Pump, options, child, counters
    <2>2. PICK line \in Printed \ saw : saw' = saw \cup {line}
      BY <1>2 DEF Pump
    <2>3. "gone" \in Printed => gone
      BY DEF Printed
    <2>4. "gone" \in saw' => gone
      BY <2>2, <2>3 DEF StopInv
    <2> QED
      BY <2>1, <2>4, SameCounter, Zenon
  <1>3. CASE TimePasses \/ Poll \/ Judge \/ JoinReader \/ Terminate \/ TerminateForGood \/ Start
    <2>1. UNCHANGED <<unreachable, log, status, keepGoing, gone, saw>>
      BY <1>3, Zenon DEF TimePasses, Poll, Judge, JoinReader, Terminate, TerminateForGood, Start,
         options, child, counters, watch
    <2> QED
      BY <2>1, SameCounter, Zenon DEF StopInv
  <1>4. CASE Account
    BY <1>4, StopInvAccount
  <1>5. CASE FinishSweep
    <2>1. UNCHANGED <<unreachable, log, keepGoing, gone, saw>>
      BY <1>5, Zenon DEF FinishSweep, options, child, counters, watch
    <2>2. Len(log) = Len(Plan)
      BY <1>5 DEF FinishSweep, SweepInv, CountsAreOfTheLog
    <2> QED
      BY <2>1, <2>2, Zenon DEF StopInv
  <1>6. CASE UNCHANGED sweepVars
    <2>1. UNCHANGED <<unreachable, log, status, keepGoing, gone, saw>>
      BY <1>6, Zenon DEF sweepVars, options, child, counters, watch
    <2> QED
      BY <2>1, SameCounter, Zenon DEF StopInv
  <1> QED
    BY <1>1, <1>2, <1>3, <1>4, <1>5, <1>6 DEF SweepNext, Runner

-----------------------------------------------------------------------------
(* What it gives.                                                          *)

\* run_all says hung_at_exit only of a script whose report and summary were complete,
\* whenever the pump, the clocks and the script came to it.
THEOREM HungIsReported == SweepSpec => []HungMeansReported
  <1>1. SweepInv => HungMeansReported
    BY DEF SweepInv, CountsAreOfTheLog, HungMeansReported
  <1> QED
    BY <1>1, SweepInvariant, PTL

\* run_all returns 0 only if every script of the plan ran, exited 0 by itself and left its
\* report; it leaves scripts unrun only if the last two that exited lost their target.
THEOREM ZeroIsEarned == SweepSpec => []ZeroMeansEveryScriptPassed
  <1>1. TwoLost(log) => LastTwoLostTarget
    BY Zenon DEF TwoLost, LostExit, Exited, LastTwoLostTarget, LostTarget
  <1>2. SweepInv => (status = 0 => Len(log) = Len(Plan) /\ \A i \in DOMAIN log : Passed(log[i]))
    BY DEF SweepInv, CountsAreOfTheLog
  <1>3. SweepInv /\ StopInv =>
          (status # StillRunning /\ Len(log) < Len(Plan) => ~keepGoing /\ status > 0 /\ LastTwoLostTarget)
    <2> SUFFICES ASSUME SweepInv, StopInv, status # StillRunning, Len(log) < Len(Plan)
                 PROVE  ~keepGoing /\ status > 0 /\ LastTwoLostTarget
      OBVIOUS
    <2>1. Len(log) # Len(Plan)
      <3>1. Len(log) \in Nat
        BY DEF SweepInv, SweepTypeOK
      <3> QED
        BY <3>1
    <2> QED
      BY <1>1, <2>1, Zenon DEF StopInv
  <1>4. SweepInv /\ StopInv => ZeroMeansEveryScriptPassed
    BY <1>2, <1>3, Zenon DEF ZeroMeansEveryScriptPassed, Passed
  <1>5. SweepSpec => []StopInv
    BY SweepInvariant, StopInvInit, StopInvStep, PTL DEF SweepSpec
  <1> QED
    BY <1>4, <1>5, SweepInvariant, PTL
=============================================================================
