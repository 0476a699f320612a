-------------------------------- MODULE Legs ---------------------------------
(***************************************************************************)
(* From check scripts to a verdict: every leg of the plan runs compare.py  *)
(* once per transport, records what it did with leg_status.py and uploads  *)
(* it; normalise_reports.py folds what arrived into one index per          *)
(* transport, and ci_status.py turns the indexes into red or green.        *)
(*                                                                         *)
(* Legs run concurrently and may be cut short anywhere, in the middle of a *)
(* file they write too: a step that is killed still lets the steps marked  *)
(* always() run, so an artifact may come without its leg.json; a lost      *)
(* runner uploads nothing.  A report is abstracted to the fact that a      *)
(* script left one.                                                        *)
(***************************************************************************)
EXTENDS Integers, Sequences, FiniteSets, SequencesExt

CONSTANTS
  Plan,        \* gha_matrix.plan: the legs of this run
  Provisioned, \* the legs whose library there is an installer for, or that need none
  Protocols,   \* the transports, in the order a leg runs them
  Scripts,     \* suite.SCRIPTS that belong in a matrix
  RunsOn,      \* script -> the transports it is for
  NameHas,     \* script -> the transports whose name occurs in its own
  ExitCodes    \* what the process of a script may return: 0 to 5, or -signal

TimedOut == -100   \* run_one's exit code None
NoFile == <<>>

\* What run_one returns: the report, if one could be read, and the exit code.  A
\* script that timed out loses the report it may have written with the directory
\* it was in; with any other code, a signal's too, there may be one or not.
Runs == [report : BOOLEAN, rc : ExitCodes] \cup {[report |-> FALSE, rc |-> TimedOut]}

OurBug == {2, 5}
LostTarget == 3

VARIABLES
  pc,        \* leg -> the step it is at
  todo,      \* leg -> transports compare.py has still to run
  ran,       \* leg -> transport -> script -> what run_one returned; <<>> if not run
  json,      \* leg -> transport -> scripts in compare's --json, {} without it
  codes,     \* leg -> transport -> script -> code in --exit-codes, or NoFile
  torn,      \* leg -> the kinds of file whose writing was cut off
  manifest,  \* leg -> leg.json, or NoFile
  arrived,   \* legs whose artifact was uploaded
  index,     \* transport -> leg -> index entry, <<>> before normalise
  verdict    \* ci_status' exit code, Undecided, or NoVerdict

leg == <<pc, todo, ran, json, codes, torn, manifest, arrived>>
vars == <<leg, index, verdict>>

Undecided == -1
NoVerdict == 2   \* the aggregate failed before ci_status: red as well
Transports == Range(Protocols)
For(p) == {s \in Scripts : p \in RunsOn[s]}

\* suite.SCRIPTS: a script named after a transport is for that one only.
ASSUME ConstantsAssumption ==
  /\ Protocols \in Seq(Transports) /\ Protocols # <<>>
  /\ \A i, j \in DOMAIN Protocols : Protocols[i] = Protocols[j] => i = j
  /\ RunsOn \in [Scripts -> SUBSET Transports]
  /\ NameHas \in [Scripts -> SUBSET Transports]
  /\ \A s \in Scripts : \A p \in NameHas[s] : RunsOn[s] = {p}
  /\ ExitCodes \subseteq Int

-----------------------------------------------------------------------------
(* One leg.                                                                *)

Init ==
  /\ pc = [l \in Plan |-> "probe"]
  /\ todo = [l \in Plan |-> Protocols]
  /\ ran = [l \in Plan |-> [p \in Transports |-> <<>>]]
  /\ json = [l \in Plan |-> [p \in Transports |-> {}]]
  /\ codes = [l \in Plan |-> [p \in Transports |-> NoFile]]
  /\ torn = [l \in Plan |-> {}]
  /\ manifest = [l \in Plan |-> NoFile]
  /\ arrived = {}
  /\ index = <<>> /\ verdict = Undecided

\* The backend loads in the container; or it does not, or a step before this one
\* failed, and the leg will report itself unavailable.
Probe(l) ==
  /\ pc[l] = "probe"
  /\ \/ l \in Provisioned /\ pc' = [pc EXCEPT ![l] = "run"]
     \/ pc' = [pc EXCEPT ![l] = "unavailable"]
  /\ UNCHANGED <<todo, ran, json, codes, torn, manifest, arrived, index, verdict>>

\* compare.main for one transport, up to --json: without a single report it returns
\* 2 and writes neither file, and the leg goes on.
Compare(l) ==
  /\ pc[l] = "run" /\ todo[l] # <<>>
  /\ LET p == Head(todo[l]) IN
     \E r \in [For(p) -> Runs] :
       LET reported == {s \in For(p) : r[s].report} IN
         /\ ran' = [ran EXCEPT ![l][p] = r]
         /\ IF reported = {}
              THEN todo' = [todo EXCEPT ![l] = Tail(@)] /\ UNCHANGED <<pc, json>>
              ELSE /\ json' = [json EXCEPT ![l][p] = reported]
                   /\ pc' = [pc EXCEPT ![l] = "codes"] /\ UNCHANGED todo
  /\ UNCHANGED <<codes, torn, manifest, arrived, index, verdict>>

\* ... and --exit-codes after it.
WriteCodes(l) ==
  /\ pc[l] = "codes"
  /\ LET p == Head(todo[l]) IN
       codes' = [codes EXCEPT ![l][p] = [s \in For(p) |-> ran[l][p][s].rc]]
  /\ todo' = [todo EXCEPT ![l] = Tail(@)]
  /\ pc' = [pc EXCEPT ![l] = "run"]
  /\ UNCHANGED <<ran, json, torn, manifest, arrived, index, verdict>>

\* The container of one transport is killed, and the next transport follows, or the
\* whole step is; what was written stays, and a file being written as far as it got.
CutShort(l) ==
  /\ pc[l] \in {"run", "codes"} /\ todo[l] # <<>>
  /\ \/ UNCHANGED torn
     \/ /\ pc[l] = "codes"
        /\ \E file \in {"json", "codes"} : torn' = [torn EXCEPT ![l] = @ \cup {file}]
  /\ pc' = [pc EXCEPT ![l] = "run"]
  /\ \E rest \in {<<>>, Tail(todo[l])} : todo' = [todo EXCEPT ![l] = rest]
  /\ UNCHANGED <<ran, json, codes, manifest, arrived, index, verdict>>

\* leg_status.classify, from the files that are there.
Recorded(l) == {sp \in Scripts \X Transports : codes[l][sp[2]] # NoFile /\ sp[1] \in For(sp[2])}
CodeOf(l, sp) == codes[l][sp[2]][sp[1]]
Classify(l) ==
  [ status |-> IF \A p \in Transports : json[l][p] = {} THEN "not-run" ELSE "ok",
    errors |-> {sp \in Recorded(l) : CodeOf(l, sp) \in OurBug},
    codes |-> {<<sp, CodeOf(l, sp)>> : sp \in Recorded(l)},
    flaky |-> \E sp \in Recorded(l) : CodeOf(l, sp) = LostTarget ]

\* The step after the run, whatever became of the run.
Recording(l) == pc[l] = "unavailable" \/ (pc[l] = "run" /\ todo[l] = <<>>)

\* leg_status.main; --status unavailable when the probe failed.  A file of exit
\* codes that ends in the middle makes it raise before leg.json is written.
RecordLeg(l) ==
  /\ Recording(l)
  /\ manifest' = [manifest EXCEPT ![l] =
       IF "codes" \in torn[l] THEN NoFile
       ELSE IF pc[l] = "unavailable" THEN [Classify(l) EXCEPT !.status = "unavailable"]
       ELSE Classify(l)]
  /\ pc' = [pc EXCEPT ![l] = "upload"]
  /\ UNCHANGED <<todo, ran, json, codes, torn, arrived, index, verdict>>

\* The step is killed, before leg.json is there or in the middle of it, or the tool
\* itself is not there to run.
RecordDies(l) ==
  /\ Recording(l)
  /\ \/ UNCHANGED torn
     \/ "codes" \notin torn[l] /\ torn' = [torn EXCEPT ![l] = @ \cup {"leg"}]
  /\ pc' = [pc EXCEPT ![l] = "upload"]
  /\ UNCHANGED <<todo, ran, json, codes, manifest, arrived, index, verdict>>

\* The directory, with what is in it: leg.json is one of the files.  An empty one
\* makes no artifact.
Upload(l) ==
  /\ pc[l] = "upload"
  /\ arrived' = IF /\ manifest[l] = NoFile /\ torn[l] = {}
                   /\ \A p \in Transports : json[l][p] = {} /\ codes[l][p] = NoFile
                THEN arrived ELSE arrived \cup {l}
  /\ pc' = [pc EXCEPT ![l] = "ended"]
  /\ UNCHANGED <<todo, ran, json, codes, torn, manifest, index, verdict>>

\* The runner is gone: no artifact, and the files go with the machine.
LoseRunner(l) ==
  /\ pc[l] # "ended"
  /\ pc' = [pc EXCEPT ![l] = "ended"] /\ todo' = [todo EXCEPT ![l] = <<>>]
  /\ json' = [json EXCEPT ![l] = [p \in Transports |-> {}]]
  /\ codes' = [codes EXCEPT ![l] = [p \in Transports |-> NoFile]]
  /\ torn' = [torn EXCEPT ![l] = {}]
  /\ manifest' = [manifest EXCEPT ![l] = NoFile]
  /\ UNCHANGED <<ran, arrived, index, verdict>>

-----------------------------------------------------------------------------
(* The aggregate.                                                          *)

\* e["script"] is "<script> [<transport>]", and the filter asks whether the
\* transport's name occurs anywhere in it.
Mentions(sp, p) == p = sp[2] \/ p \in NameHas[sp[1]]

\* leg_root: whether the leg's artifact is found.  One that came alone is unpacked
\* without a directory of its name, and only its leg.json tells whose it is.
LegRoot(l) ==
  /\ l \in arrived
  /\ (\E k \in arrived : k # l) \/ manifest[l] # NoFile
\* load_column: the scripts in the transport's report, none without one.
LoadColumn(l, p) == json[l][p]

\* What is read of leg.json: without one every key has its default, "ok" among them.
Said(l) ==
  IF manifest[l] = NoFile
    THEN [status |-> "ok", errors |-> {}, codes |-> {}, flaky |-> FALSE]
    ELSE manifest[l]

\* normalise_reports.main for one leg and transport.  A leg that says "ok" and has
\* no report for this transport is "not-run" here.
Entry(l, p) ==
  IF ~LegRoot(l)
    THEN [status |-> "not-run", has |-> {}, errors |-> {}, codes |-> {}, flaky |-> FALSE]
    ELSE LET m == Said(l)
             column == m.status = "ok" /\ LoadColumn(l, p) # {} IN
         [ status |-> IF column THEN "ok" ELSE IF m.status = "ok" THEN "not-run" ELSE m.status,
           has |-> IF column THEN LoadColumn(l, p) ELSE {},
           errors |-> IF column THEN {sp \in m.errors : Mentions(sp, p)} ELSE {},
           codes |-> m.codes,
           flaky |-> m.flaky ]

\* json.loads of a report or of a leg.json that ends in the middle raises.
Unreadable(l) == LegRoot(l) /\ torn[l] \cap {"json", "leg"} # {}

\* Mutant of Normalise: the legs that turned up, not the plan.
NormaliseArrived ==
  /\ \A l \in Plan : pc[l] = "ended" /\ ~Unreadable(l)
  /\ index = <<>>
  /\ index' = [p \in Transports |-> [l \in {k \in Plan : LegRoot(k)} |-> Entry(l, p)]]
  /\ UNCHANGED <<leg, verdict>>

Normalise ==
  /\ \A l \in Plan : pc[l] = "ended" /\ ~Unreadable(l)
  /\ index = <<>>
  /\ index' = [p \in Transports |-> [l \in Plan |-> Entry(l, p)]]
  /\ UNCHANGED <<leg, verdict>>

\* The job ends there: no index of this transport, and no verdict.
NormaliseRaises ==
  /\ \A l \in Plan : pc[l] = "ended"
  /\ \E l \in Plan : Unreadable(l)
  /\ index = <<>> /\ verdict = Undecided
  /\ verdict' = NoVerdict
  /\ UNCHANGED <<leg, index>>

\* ci_status.main: the same leg is in every transport's index, with all its codes.
Crashes(ix) ==
  {crash \in Plan \X (Scripts \X Transports) :
     \E p \in Transports, c \in OurBug : <<crash[2], c>> \in ix[p][crash[1]].codes}

\* Mutant of Judge: any code but 0 is red.
JudgeAnyCode ==
  /\ index # <<>> /\ verdict = Undecided
  /\ verdict' = IF \E p \in Transports, l \in Plan : \E c \in index[p][l].codes : c[2] # 0
                THEN 1 ELSE 0
  /\ UNCHANGED <<leg, index>>

Judge ==
  /\ index # <<>> /\ verdict = Undecided
  /\ verdict' = IF \/ Crashes(index) # {}
                   \/ \E p \in Transports, l \in Plan : index[p][l].status = "errored"
                THEN 1 ELSE 0
  /\ UNCHANGED <<leg, index>>

LegSteps(l) ==
  \/ Probe(l) \/ Compare(l) \/ WriteCodes(l) \/ CutShort(l)
  \/ RecordLeg(l) \/ RecordDies(l) \/ Upload(l) \/ LoseRunner(l)

Next == (\E l \in Plan : LegSteps(l)) \/ Normalise \/ NormaliseRaises \/ Judge

Spec == Init /\ [][Next]_vars

-----------------------------------------------------------------------------
(* Properties.                                                             *)

\* Script s exited with one of the suite's own error codes in leg l on transport p.
Crashed(l, p, s) == ran[l][p] # <<>> /\ s \in For(p) /\ ran[l][p][s].rc \in OurBug
AnyCrash == \E l \in Plan, p \in Transports, s \in Scripts : Crashed(l, p, s)

\* Everything that speaks for a transport came: its two files and leg.json.
Complete(l, p) ==
  l \in arrived /\ manifest[l] # NoFile /\ json[l][p] # {} /\ codes[l][p] # NoFile

\* Red is never a check that failed, a lost target, a timeout, a signal or a leg
\* that died: it is a crash the leg recorded, or a file cut off in the middle of
\* being written, which keeps the aggregate from giving a verdict.  And green hides
\* no crash of a leg that recorded what it did.
RedMeansOurBug ==
  verdict # Undecided =>
    /\ verdict = 1 => AnyCrash
    /\ verdict = NoVerdict => \E l \in arrived : torn[l] # {}
    /\ (\E l \in Plan, p \in Transports, s \in Scripts : Complete(l, p) /\ Crashed(l, p, s))
         => verdict # 0

\* Every leg of the plan has its column, whatever became of it.  A column that is
\* compared holds exactly the scripts that reported in that leg's own run of that
\* transport; where the leg recorded what it did, every script that crashed and is
\* missing from it is named, and no script of another transport's column is.
GapsAreNamed ==
  index # <<>> =>
    \A p \in Transports, l \in Plan :
      LET e == index[p][l] IN
        /\ l \in DOMAIN index[p]
        /\ e.status = "ok" => /\ ran[l][p] # <<>> /\ e.has # {}
                              /\ e.has = {s \in For(p) : ran[l][p][s].report}
        /\ e.status = "ok" /\ Complete(l, p) =>
             \A s \in For(p) : Crashed(l, p, s) => <<s, p>> \in e.errors
        /\ \A sp \in e.errors : sp[2] = p

\* What ci_status' docstring says: a script that exited 2 or 5 makes the run red,
\* at least in a leg that nothing cut short.
CrashIsRed ==
  verdict # Undecided =>
    \A l \in arrived, p \in Transports, s \in Scripts :
      (/\ Crashed(l, p, s) /\ manifest[l] # NoFile
       /\ \A q \in Transports : ran[l][q] # <<>> /\ (json[l][q] # {} => codes[l][q] # NoFile))
      => verdict # 0

\* leg_status' and normalise_reports' words for errors: those scripts are missing
\* from the column.
CrashedScriptsAreMissing ==
  index # <<>> =>
    \A p \in Transports, l \in Plan : \A sp \in index[p][l].errors : sp[1] \notin index[p][l].has
=============================================================================
