--------------------------- MODULE VerdictsProofs ---------------------------
(***************************************************************************)
(* Proofs about Legs, for any plan, transports and scripts, and about      *)
(* Matrix, for any number of columns, scripts and answers: what CI folds   *)
(* into a verdict, and what it folds into tables.                          *)
(***************************************************************************)
EXTENDS Legs, Matrix, FiniteSetTheorems, WellFoundedInduction, TLAPS

-----------------------------------------------------------------------------
(* The inductive invariant.                                                *)

Steps == {"probe", "run", "codes", "unavailable", "upload", "ended"}
AnyRuns == {<<>>} \cup UNION {[For(p) -> Runs] : p \in Transports}
AnyCodes == {NoFile} \cup UNION {[For(p) -> Int] : p \in Transports}

TypeOK ==
  /\ pc \in [Plan -> Steps]
  /\ todo \in [Plan -> Seq(Transports)]
  /\ ran \in [Plan -> [Transports -> AnyRuns]]
  /\ json \in [Plan -> [Transports -> SUBSET Scripts]]
  /\ codes \in [Plan -> [Transports -> AnyCodes]]
  /\ manifest = [l \in Plan |-> manifest[l]]
  /\ arrived \subseteq Plan

\* A leg runs a transport once: what it has still to run has no codes yet.
RunsOnce ==
  \A l \in Plan :
    /\ \A i, j \in DOMAIN todo[l] : todo[l][i] = todo[l][j] => i = j
    /\ \A i \in DOMAIN todo[l] : codes[l][todo[l][i]] = NoFile
    /\ pc[l] = "codes" => todo[l] # <<>> /\ ran[l][Head(todo[l])] \in [For(Head(todo[l])) -> Runs]

\* So the codes of a transport are those of its run.
CodesAreOfRuns ==
  \A l \in Plan, p \in Transports :
    codes[l][p] # NoFile =>
      /\ ran[l][p] \in [For(p) -> Runs]
      /\ codes[l][p] = [s \in For(p) |-> ran[l][p][s].rc]

\* And so are its reports, which are there before its codes.
Reported(l, p) == {s \in For(p) : ran[l][p][s].report}
ReportsAreOfRuns ==
  \A l \in Plan :
    /\ \A p \in Transports :
         json[l][p] # {} => ran[l][p] \in [For(p) -> Runs] /\ json[l][p] = Reported(l, p)
    /\ \A i \in DOMAIN todo[l] : json[l][todo[l][i]] # {} => pc[l] = "codes" /\ i = 1

\* leg.json, if there is one, is of the files it is uploaded with.
ManifestsAreOfFiles ==
  /\ \A l \in arrived : pc[l] = "ended"
  /\ \A l \in Plan : manifest[l] # NoFile =>
       /\ pc[l] \in {"upload", "ended"}
       /\ manifest[l] \in {Classify(l), [Classify(l) EXCEPT !.status = "unavailable"]}

\* The indexes are made of what arrived, when no leg can change it any more, and the
\* verdict is made of the indexes; without a verdict some leg's files cannot be read.
FoldOf(ix) ==
  IF \/ Crashes(ix) # {}
     \/ \E p \in Transports, l \in Plan : ix[p][l].status = "errored"
  THEN 1 ELSE 0
IndexIsFold ==
  /\ index # <<>> =>
       /\ \A l \in Plan : pc[l] = "ended"
       /\ index = [p \in Transports |-> [l \in Plan |-> Entry(l, p)]]
  /\ verdict \notin {Undecided, NoVerdict} => index # <<>> /\ verdict = FoldOf(index)
  /\ verdict = NoVerdict =>
       /\ index = <<>>
       /\ \A l \in Plan : pc[l] = "ended"
       /\ \E l \in Plan : Unreadable(l)

LegInv ==
  /\ TypeOK /\ RunsOnce /\ CodesAreOfRuns /\ ReportsAreOfRuns
  /\ ManifestsAreOfFiles /\ IndexIsFold

-----------------------------------------------------------------------------
(* It is one.                                                              *)

\* The transports are some, and what compare.py returns for one is a run.
LEMMA Sorts ==
  /\ Transports # {}
  /\ <<>> \in AnyRuns /\ NoFile \in AnyCodes
  /\ \A p \in Transports : [For(p) -> Runs] \subseteq AnyRuns /\ [For(p) -> Int] \subseteq AnyCodes
  <1>1. Transports # {}
    <2>1. 1 \in DOMAIN Protocols
      BY ConstantsAssumption DEF ConstantsAssumption
    <2> QED
      BY <2>1 DEF Transports, Range
  <1> QED
    BY <1>1 DEF AnyRuns, AnyCodes, NoFile

\* At first nothing has been run.
LEMMA LegInvInit == Init => LegInv
  <1> SUFFICES ASSUME Init PROVE LegInv
    OBVIOUS
  <1>0. Protocols \in Seq(Transports) /\ \A i, j \in DOMAIN Protocols : Protocols[i] = Protocols[j] => i = j
    BY ConstantsAssumption DEF ConstantsAssumption
  <1>1. TypeOK
    BY <1>0, Sorts DEF Init, TypeOK, Steps
  <1>2. \A i \in DOMAIN Protocols : Protocols[i] \in Transports
    BY <1>0
  <1>3. RunsOnce
    BY <1>0, <1>2 DEF Init, RunsOnce
  <1>4. CodesAreOfRuns
    BY DEF Init, CodesAreOfRuns
  <1>5. ReportsAreOfRuns
    BY <1>2 DEF Init, ReportsAreOfRuns
  <1>6. ManifestsAreOfFiles
    BY DEF Init, ManifestsAreOfFiles
  <1>7. IndexIsFold
    BY DEF Init, IndexIsFold, Undecided, NoVerdict
  <1> QED
    BY <1>1, <1>3, <1>4, <1>5, <1>6, <1>7 DEF LegInv

\* The head and the tail of what a leg has to run.
LEMMA HeadAndTail ==
  ASSUME NEW S, NEW q \in Seq(S), q # <<>>
  PROVE  /\ Head(q) \in S /\ Head(q) = q[1] /\ 1 \in DOMAIN q /\ Tail(q) \in Seq(S)
         /\ \A i \in DOMAIN Tail(q) : i + 1 \in DOMAIN q /\ Tail(q)[i] = q[i + 1] /\ i + 1 # 1
         /\ \A i \in DOMAIN Tail(q) : i \in Int
  OBVIOUS

\* Where the aggregate has not run, a leg's step is none of its business.
LEMMA NoIndexYet ==
  ASSUME IndexIsFold, NEW l \in Plan, pc[l] # "ended", UNCHANGED <<index, verdict>>
  PROVE  IndexIsFold'
  <1>1. index = <<>> /\ verdict = Undecided
    BY DEF IndexIsFold
  <1>2. index' = <<>> /\ verdict' = Undecided
    BY <1>1
  <1> QED
    BY <1>2 DEF IndexIsFold, Undecided, NoVerdict

\* classify finds the same in the same files.
LEMMA ClassifyStands ==
  ASSUME NEW l \in Plan, codes'[l] = codes[l], json'[l] = json[l]
  PROVE  Classify(l)' = Classify(l)
  <1>1. Recorded(l)' = Recorded(l)
    BY DEF Recorded
  <1>2. \A sp : CodeOf(l, sp)' = CodeOf(l, sp)
    BY DEF CodeOf
  <1> HIDE DEF Recorded, CodeOf
  <1>3. {sp \in Recorded(l) : CodeOf(l, sp) \in OurBug}' = {sp \in Recorded(l) : CodeOf(l, sp) \in OurBug}
    BY <1>1, <1>2
  <1>4. {<<sp, CodeOf(l, sp)>> : sp \in Recorded(l)}' = {<<sp, CodeOf(l, sp)>> : sp \in Recorded(l)}
    BY <1>1, <1>2
  <1>5. (\E sp \in Recorded(l) : CodeOf(l, sp) = LostTarget)' = (\E sp \in Recorded(l) : CodeOf(l, sp) = LostTarget)
    BY <1>1, <1>2 DEF LostTarget
  <1>6. (\A p \in Transports : json[l][p] = {})' = (\A p \in Transports : json[l][p] = {})
    OBVIOUS
  <1> QED
    BY <1>3, <1>4, <1>5, <1>6, Zenon DEF Classify

\* A leg that has not come to leg.json has none, and others' stand.
LEMMA ManifestsStand ==
  ASSUME ManifestsAreOfFiles, NEW l \in Plan, pc[l] \notin {"upload", "ended"}, TypeOK,
         \A k \in Plan \ {l} : pc'[k] = pc[k] /\ codes'[k] = codes[k] /\ json'[k] = json[k],
         manifest' = manifest, arrived' = arrived
  PROVE  ManifestsAreOfFiles'
  <1>1. l \notin arrived /\ manifest[l] = NoFile
    BY DEF ManifestsAreOfFiles
  <1>2. \A k \in Plan \ {l} : Classify(k)' = Classify(k)
    BY ClassifyStands
  <1> QED
    BY <1>1, <1>2 DEF ManifestsAreOfFiles, TypeOK

\* What a leg has still to run stays, or all or the first of it is given up, and its
\* files stay.
LEMMA RunsStand ==
  ASSUME RunsOnce, CodesAreOfRuns, ReportsAreOfRuns, ran' = ran, json' = json, codes' = codes,
         \A k \in Plan : \/ todo'[k] = <<>> /\ pc'[k] # "codes"
                         \/ todo'[k] = todo[k] /\ (pc'[k] = "codes" <=> pc[k] = "codes")
                         \/ /\ pc'[k] # "codes"
                            /\ \A i \in DOMAIN todo'[k] :
                                 /\ i \in Int /\ i + 1 \in DOMAIN todo[k] /\ i + 1 # 1
                                 /\ todo'[k][i] = todo[k][i + 1]
  PROVE  RunsOnce' /\ CodesAreOfRuns' /\ ReportsAreOfRuns'
  <1>1. CodesAreOfRuns'
    BY DEF CodesAreOfRuns
  <1>2. ASSUME NEW k \in Plan
        PROVE  /\ \A i, j \in DOMAIN todo'[k] : todo'[k][i] = todo'[k][j] => i = j
               /\ \A i \in DOMAIN todo'[k] : codes[k][todo'[k][i]] = NoFile
               /\ pc'[k] = "codes" => todo'[k] # <<>> /\ ran[k][Head(todo'[k])] \in [For(Head(todo'[k])) -> Runs]
               /\ \A i \in DOMAIN todo'[k] : json[k][todo'[k][i]] # {} => pc'[k] = "codes" /\ i = 1
    <2>a. /\ \A i, j \in DOMAIN todo[k] : todo[k][i] = todo[k][j] => i = j
          /\ \A i \in DOMAIN todo[k] : codes[k][todo[k][i]] = NoFile
          /\ pc[k] = "codes" => todo[k] # <<>> /\ ran[k][Head(todo[k])] \in [For(Head(todo[k])) -> Runs]
          /\ \A i \in DOMAIN todo[k] : json[k][todo[k][i]] # {} => pc[k] = "codes" /\ i = 1
      BY DEF RunsOnce, ReportsAreOfRuns
    <2>1. CASE todo'[k] = <<>> /\ pc'[k] # "codes"
      BY <2>1
    <2>2. CASE todo'[k] = todo[k] /\ (pc'[k] = "codes" <=> pc[k] = "codes")
      BY ONLY <2>a, <2>2
    <2>3. CASE /\ pc'[k] # "codes"
               /\ \A i \in DOMAIN todo'[k] : /\ i \in Int /\ i + 1 \in DOMAIN todo[k] /\ i + 1 # 1
                                             /\ todo'[k][i] = todo[k][i + 1]
      <3>1. \A i, j \in DOMAIN todo'[k] : todo'[k][i] = todo'[k][j] => i = j
        <4> SUFFICES ASSUME NEW i \in DOMAIN todo'[k], NEW j \in DOMAIN todo'[k],
                            todo'[k][i] = todo'[k][j]
                     PROVE  i = j
          OBVIOUS
        <4>1. i + 1 = j + 1 /\ i \in Int /\ j \in Int
          BY ONLY <2>a, <2>3, todo'[k][i] = todo'[k][j]
        <4> QED
          BY ONLY <4>1
      <3>2. ASSUME NEW i \in DOMAIN todo'[k]
            PROVE  codes[k][todo'[k][i]] = NoFile /\ json[k][todo'[k][i]] = {}
        <4>1. i + 1 \in DOMAIN todo[k] /\ i + 1 # 1 /\ todo'[k][i] = todo[k][i + 1]
          BY ONLY <2>3
        <4>2. codes[k][todo[k][i + 1]] = NoFile /\ json[k][todo[k][i + 1]] = {}
          BY ONLY <2>a, <4>1
        <4> QED
          BY ONLY <4>1, <4>2
      <3> QED
        BY ONLY <2>3, <3>1, <3>2
    <2> QED
      BY <2>1, <2>2, <2>3
  <1>3. RunsOnce'
    BY <1>2 DEF RunsOnce
  <1>4. ReportsAreOfRuns'
    BY <1>2 DEF ReportsAreOfRuns, Reported
  <1> QED
    BY <1>1, <1>3, <1>4

\* A transport that compare.py has run is the first of those left to run.
LEMMA CompareStep ==
  ASSUME LegInv, NEW l \in Plan, Compare(l)
  PROVE  LegInv'
  <1>0. /\ TypeOK /\ RunsOnce /\ CodesAreOfRuns /\ ReportsAreOfRuns
        /\ ManifestsAreOfFiles /\ IndexIsFold
    BY DEF LegInv
  <1>1. PICK p \in Transports : p = Head(todo[l]) /\ p = todo[l][1] /\ 1 \in DOMAIN todo[l]
    BY <1>0, HeadAndTail DEF Compare, TypeOK
  <1>a. PICK r \in [For(p) -> Runs], reported \in SUBSET For(p) :
          /\ ran' = [ran EXCEPT ![l][p] = r]
          /\ reported = {s \in For(p) : r[s].report}
          /\ \/ todo' = [todo EXCEPT ![l] = Tail(todo[l])] /\ UNCHANGED <<pc, json>>
             \/ /\ json' = [json EXCEPT ![l][p] = reported]
                /\ pc' = [pc EXCEPT ![l] = "codes"] /\ UNCHANGED todo
    <2> DEFINE Ran(q, r) ==
                 LET reported == {s \in For(q) : r[s].report} IN
                   /\ ran' = [ran EXCEPT ![l][q] = r]
                   /\ IF reported = {}
                        THEN todo' = [todo EXCEPT ![l] = Tail(@)] /\ UNCHANGED <<pc, json>>
                        ELSE /\ json' = [json EXCEPT ![l][q] = reported]
                             /\ pc' = [pc EXCEPT ![l] = "codes"] /\ UNCHANGED todo
    <2>0. \E r \in [For(Head(todo[l])) -> Runs] : Ran(Head(todo[l]), r)
      BY Zenon DEF Compare
    <2>1. PICK r \in [For(p) -> Runs] : Ran(p, r)
      <3> HIDE DEF Ran
      <3> QED
        BY <1>1, <2>0, Zenon
    <2> DEFINE reported == {s \in For(p) : r[s].report}
    <2>2. reported \in SUBSET For(p) /\ reported = {s \in For(p) : r[s].report}
      OBVIOUS
    <2>3. /\ ran' = [ran EXCEPT ![l][p] = r]
          /\ \/ todo' = [todo EXCEPT ![l] = Tail(todo[l])] /\ UNCHANGED <<pc, json>>
             \/ /\ json' = [json EXCEPT ![l][p] = reported]
                /\ pc' = [pc EXCEPT ![l] = "codes"] /\ UNCHANGED todo
      BY <2>1, Zenon
    <2> HIDE DEF reported
    <2> QED
      BY <2>2, <2>3
  <1>2. /\ ran' = [ran EXCEPT ![l] = [ran[l] EXCEPT ![p] = r]]
        /\ \/ todo' = [todo EXCEPT ![l] = Tail(todo[l])] /\ UNCHANGED <<pc, json>>
           \/ /\ json' = [json EXCEPT ![l] = [json[l] EXCEPT ![p] = reported]]
              /\ pc' = [pc EXCEPT ![l] = "codes"] /\ UNCHANGED todo
    BY <1>0, <1>a DEF TypeOK
  <1>3. pc[l] = "run" /\ todo[l] # <<>> /\ UNCHANGED <<codes, manifest, arrived, index, verdict>>
    BY DEF Compare
  <1>4. todo[l] \in Seq(Transports) /\ r \in AnyRuns
    BY <1>0, <1>1, Sorts DEF TypeOK
  <1>5. TypeOK'
    <2>1. ran' \in [Plan -> [Transports -> AnyRuns]]
      BY <1>0, <1>2, <1>4 DEF TypeOK
    <2>2. json' \in [Plan -> [Transports -> SUBSET Scripts]]
      <3>1. reported \in SUBSET Scripts
        BY DEF For
      <3>2. [json[l] EXCEPT ![p] = reported] \in [Transports -> SUBSET Scripts]
        BY <1>0, <3>1 DEF TypeOK
      <3>3. [json EXCEPT ![l] = [json[l] EXCEPT ![p] = reported]] \in [Plan -> [Transports -> SUBSET Scripts]]
        BY <1>0, <3>2 DEF TypeOK
      <3> QED
        BY <1>0, <1>2, <3>3 DEF TypeOK
    <2>3. pc' \in [Plan -> Steps]
      BY <1>0, <1>2 DEF TypeOK, Steps
    <2>4. todo' \in [Plan -> Seq(Transports)]
      <3>1. Tail(todo[l]) \in Seq(Transports)
        BY <1>3, <1>4, HeadAndTail
      <3> QED
        BY <1>0, <1>2, <3>1 DEF TypeOK
    <2> QED
      BY <1>0, <1>3, <2>1, <2>2, <2>3, <2>4 DEF TypeOK
  <1>b. \A i \in DOMAIN Tail(todo[l]) : i + 1 \in DOMAIN todo[l] /\ Tail(todo[l])[i] = todo[l][i + 1] /\ i \in Int
    BY <1>3, <1>4, HeadAndTail
  <1>6. RunsOnce'
    <2> SUFFICES ASSUME NEW k \in Plan
                 PROVE  /\ \A i, j \in DOMAIN todo'[k] : todo'[k][i] = todo'[k][j] => i = j
                        /\ \A i \in DOMAIN todo'[k] : codes[k][todo'[k][i]] = NoFile
                        /\ pc'[k] = "codes" => /\ todo'[k] # <<>>
                                               /\ ran'[k][Head(todo'[k])] \in [For(Head(todo'[k])) -> Runs]
      BY <1>3 DEF RunsOnce
    <2>1. CASE k # l
      BY <1>0, <1>2, <2>1 DEF TypeOK, RunsOnce
    <2>2. CASE k = l /\ UNCHANGED todo
      <3>1. ran'[l][p] = r
        BY <1>0, <1>2 DEF TypeOK
      <3> QED
        BY <1>0, <1>1, <1>3, <2>2, <3>1 DEF RunsOnce
    <2>3. CASE k = l /\ todo'[l] = Tail(todo[l]) /\ UNCHANGED pc
      BY <1>0, <1>3, <1>b, <2>3 DEF RunsOnce
    <2> QED
      BY <1>0, <1>2, <2>1, <2>2, <2>3 DEF TypeOK
  <1>c. \A k \in Plan, q \in Transports :
          ran'[k][q] = IF k = l /\ q = p THEN r ELSE ran[k][q]
    BY <1>0, <1>2 DEF TypeOK
  <1>7. CodesAreOfRuns'
    <2>1. codes[l][p] = NoFile
      BY <1>0, <1>1 DEF RunsOnce
    <2> QED
      BY <1>0, <1>3, <1>c, <2>1 DEF CodesAreOfRuns
  <1>d. ReportsAreOfRuns'
    <2>1. \A i \in DOMAIN todo[l] : todo[l][i] \in Transports /\ json[l][todo[l][i]] = {}
      BY <1>0, <1>3, <1>4 DEF ReportsAreOfRuns
    <2>2. json[l][p] = {}
      BY <1>1, <2>1
    <2>3. CASE todo' = [todo EXCEPT ![l] = Tail(todo[l])] /\ UNCHANGED <<pc, json>>
      <3>1. \A k \in Plan, q \in Transports : json'[k][q] # {} => ran'[k][q] = ran[k][q]
        BY <1>c, <2>2, <2>3
      <3>2. \A k \in Plan, q \in Transports : json'[k][q] # {} =>
              ran'[k][q] \in [For(q) -> Runs] /\ json'[k][q] = Reported(k, q)'
        BY <1>0, <2>3, <3>1 DEF ReportsAreOfRuns, Reported
      <3>3. ASSUME NEW k \in Plan, NEW i \in DOMAIN todo'[k], json'[k][todo'[k][i]] # {}
            PROVE  pc'[k] = "codes" /\ i = 1
        <4>1. CASE k = l
          <5>1. todo'[l] = Tail(todo[l])
            BY <1>0, <2>3 DEF TypeOK
          <5>2. i \in DOMAIN Tail(todo[l]) /\ json[l][Tail(todo[l])[i]] # {}
            BY <2>3, <3>3, <4>1, <5>1
          <5>3. i + 1 \in DOMAIN todo[l] /\ json[l][todo[l][i + 1]] # {}
            BY <1>b, <5>2
          <5> QED
            BY <2>1, <5>3
        <4>2. CASE k # l
          <5>1. todo'[k] = todo[k]
            BY <1>0, <2>3, <4>2 DEF TypeOK
          <5> QED
            BY <1>0, <2>3, <3>3, <5>1 DEF ReportsAreOfRuns
        <4> QED
          BY <4>1, <4>2
      <3> QED
        BY <3>2, <3>3 DEF ReportsAreOfRuns
    <2>4. CASE /\ json' = [json EXCEPT ![l] = [json[l] EXCEPT ![p] = reported]]
               /\ pc' = [pc EXCEPT ![l] = "codes"] /\ UNCHANGED todo
      <3>1. \A k \in Plan, q \in Transports :
              json'[k][q] = IF k = l /\ q = p THEN reported ELSE json[k][q]
        BY <1>0, <2>4 DEF TypeOK
      <3>2. \A k \in Plan, q \in Transports : json'[k][q] # {} =>
              ran'[k][q] \in [For(q) -> Runs] /\ json'[k][q] = Reported(k, q)'
        <4> SUFFICES ASSUME NEW k \in Plan, NEW q \in Transports, json'[k][q] # {}
                     PROVE  ran'[k][q] \in [For(q) -> Runs] /\ json'[k][q] = Reported(k, q)'
          OBVIOUS
        <4>1. CASE k = l /\ q = p
          <5>1. ran'[k][q] = r /\ json'[k][q] = reported
            BY <1>c, <3>1, <4>1
          <5> QED
            BY <1>a, <4>1, <5>1 DEF Reported
        <4>2. CASE ~(k = l /\ q = p)
          <5>1. ran'[k][q] = ran[k][q] /\ json'[k][q] = json[k][q]
            BY <1>c, <3>1, <4>2
          <5> QED
            BY <1>0, <5>1 DEF ReportsAreOfRuns, Reported
        <4> QED
          BY <4>1, <4>2
      <3>3. ASSUME NEW k \in Plan, NEW i \in DOMAIN todo'[k], json'[k][todo'[k][i]] # {}
            PROVE  pc'[k] = "codes" /\ i = 1
        <4>1. CASE k = l
          <5>1. pc'[l] = "codes" /\ todo'[l] = todo[l]
            BY <1>0, <2>4 DEF TypeOK
          <5>2. todo[l][i] = p
            BY <2>1, <3>1, <3>3, <4>1, <5>1
          <5> QED
            BY <1>0, <1>1, <4>1, <5>1, <5>2 DEF RunsOnce
        <4>2. CASE k # l
          <5>1. todo'[k] = todo[k] /\ pc'[k] = pc[k] /\ json'[k] = json[k]
            BY <1>0, <2>4, <4>2 DEF TypeOK
          <5> QED
            BY <1>0, <3>3, <5>1 DEF ReportsAreOfRuns
        <4> QED
          BY <4>1, <4>2
      <3> QED
        BY <3>2, <3>3 DEF ReportsAreOfRuns
    <2> QED
      BY <1>2, <2>3, <2>4
  <1>8. ManifestsAreOfFiles'
    <2>1. \A k \in Plan \ {l} : pc'[k] = pc[k] /\ json'[k] = json[k]
      BY <1>0, <1>2 DEF TypeOK
    <2> QED
      BY <1>0, <1>3, <2>1, ManifestsStand
  <1>9. IndexIsFold'
    BY <1>0, <1>3, NoIndexYet
  <1> QED
    BY <1>5, <1>6, <1>7, <1>d, <1>8, <1>9 DEF LegInv

\* --exit-codes writes those of the run just made.
LEMMA WriteCodesStep ==
  ASSUME LegInv, NEW l \in Plan, WriteCodes(l)
  PROVE  LegInv'
  <1>0. /\ TypeOK /\ RunsOnce /\ CodesAreOfRuns /\ ReportsAreOfRuns
        /\ ManifestsAreOfFiles /\ IndexIsFold
    BY DEF LegInv
  <1>1. /\ pc[l] = "codes" /\ pc' = [pc EXCEPT ![l] = "run"]
        /\ todo' = [todo EXCEPT ![l] = Tail(todo[l])]
        /\ UNCHANGED <<ran, json, manifest, arrived, index, verdict>>
    BY DEF WriteCodes
  <1>2. todo[l] \in Seq(Transports) /\ todo[l] # <<>>
    BY <1>0, <1>1 DEF TypeOK, RunsOnce
  <1>3. PICK p \in Transports : p = Head(todo[l]) /\ p = todo[l][1] /\ 1 \in DOMAIN todo[l]
    BY <1>2, HeadAndTail
  <1>4. ran[l][p] \in [For(p) -> Runs]
    BY <1>0, <1>1, <1>3 DEF RunsOnce
  <1> DEFINE c == [s \in For(p) |-> ran[l][p][s].rc]
  <1>5. codes' = [codes EXCEPT ![l] = [codes[l] EXCEPT ![p] = c]]
    BY <1>0, <1>3 DEF WriteCodes, TypeOK
  <1>6. c \in AnyCodes
    <2>1. \A x \in Runs : x.rc \in Int
      <3>1. ExitCodes \subseteq Int /\ TimedOut \in Int
        BY ConstantsAssumption DEF TimedOut, ConstantsAssumption
      <3>2. ASSUME NEW x \in [report : BOOLEAN, rc : ExitCodes] PROVE x.rc \in ExitCodes
        OBVIOUS
      <3>3. [report |-> FALSE, rc |-> TimedOut].rc = TimedOut
        OBVIOUS
      <3> QED
        BY <3>1, <3>2, <3>3 DEF Runs
    <2>2. c \in [For(p) -> Int]
      BY <1>4, <2>1
    <2> QED
      BY <2>2, Sorts
  <1>7. \A k \in Plan, q \in Transports :
          codes'[k][q] = IF k = l /\ q = p THEN c ELSE codes[k][q]
    BY <1>0, <1>5 DEF TypeOK
  <1> HIDE DEF c
  <1>8. TypeOK'
    <2>1. codes' \in [Plan -> [Transports -> AnyCodes]]
      BY <1>0, <1>5, <1>6 DEF TypeOK
    <2>2. Tail(todo[l]) \in Seq(Transports)
      BY <1>2, HeadAndTail
    <2> QED
      BY <1>0, <1>1, <2>1, <2>2 DEF TypeOK, Steps
  <1>a. /\ todo'[l] = Tail(todo[l]) /\ pc'[l] = "run"
        /\ \A i \in DOMAIN Tail(todo[l]) : /\ i + 1 \in DOMAIN todo[l] /\ i + 1 # 1 /\ i \in Int
                                           /\ Tail(todo[l])[i] = todo[l][i + 1]
    <2>1. \A i \in DOMAIN Tail(todo[l]) : /\ i + 1 \in DOMAIN todo[l] /\ i + 1 # 1 /\ i \in Int
                                          /\ Tail(todo[l])[i] = todo[l][i + 1]
      BY <1>2, HeadAndTail
    <2> QED
      BY <1>0, <1>1, <2>1 DEF TypeOK
  <1>b. \A k \in Plan \ {l} : todo'[k] = todo[k] /\ pc'[k] = pc[k] /\ codes'[k] = codes[k]
    BY <1>0, <1>1, <1>5 DEF TypeOK
  <1>9. RunsOnce'
    <2> SUFFICES ASSUME NEW k \in Plan
                 PROVE  /\ \A i, j \in DOMAIN todo'[k] : todo'[k][i] = todo'[k][j] => i = j
                        /\ \A i \in DOMAIN todo'[k] : codes'[k][todo'[k][i]] = NoFile
                        /\ pc'[k] = "codes" => /\ todo'[k] # <<>>
                                               /\ ran[k][Head(todo'[k])] \in [For(Head(todo'[k])) -> Runs]
      BY <1>1 DEF RunsOnce
    <2>1. CASE k # l
      <3>1. todo'[k] = todo[k] /\ pc'[k] = pc[k] /\ codes'[k] = codes[k]
        BY <1>b, <2>1
      <3> QED
        BY <1>0, <3>1 DEF RunsOnce
    <2>2. CASE k = l
      <3>3. \A i \in DOMAIN todo[l] : todo[l][i] \in Transports
        BY <1>2
      <3>4. \A i \in DOMAIN todo[l] : i # 1 => todo[l][i] # p /\ codes[l][todo[l][i]] = NoFile
        BY <1>0, <1>3 DEF RunsOnce
      <3>5. \A i \in DOMAIN todo[l] : i # 1 => codes'[l][todo[l][i]] = NoFile
        BY <1>7, <3>3, <3>4
      <3>6. \A i, j \in DOMAIN Tail(todo[l]) : Tail(todo[l])[i] = Tail(todo[l])[j] => i = j
        BY <1>0, <1>a DEF RunsOnce
      <3>7. \A i \in DOMAIN Tail(todo[l]) : codes'[l][Tail(todo[l])[i]] = NoFile
        BY <1>a, <3>5
      <3> QED
        BY <1>a, <2>2, <3>6, <3>7
    <2> QED
      BY <2>1, <2>2
  <1>10. CodesAreOfRuns'
    <2> SUFFICES ASSUME NEW k \in Plan, NEW q \in Transports, codes'[k][q] # NoFile
                 PROVE  /\ ran[k][q] \in [For(q) -> Runs]
                        /\ codes'[k][q] = [s \in For(q) |-> ran[k][q][s].rc]
      BY <1>1 DEF CodesAreOfRuns
    <2>1. CASE k = l /\ q = p
      BY <1>4, <1>7, <2>1 DEF c
    <2>2. CASE ~(k = l /\ q = p)
      BY <1>0, <1>7, <2>2 DEF CodesAreOfRuns
    <2> QED
      BY <2>1, <2>2
  <1>c. ReportsAreOfRuns'
    <2>1. \A k \in Plan, q \in Transports : json'[k][q] # {} =>
            ran'[k][q] \in [For(q) -> Runs] /\ json'[k][q] = Reported(k, q)'
      BY <1>0, <1>1 DEF ReportsAreOfRuns, Reported
    <2>2. ASSUME NEW k \in Plan, NEW i \in DOMAIN todo'[k], json'[k][todo'[k][i]] # {}
          PROVE  pc'[k] = "codes" /\ i = 1
      <3>1. CASE k = l
        <4>1. i + 1 \in DOMAIN todo[l] /\ i + 1 # 1 /\ json[l][todo[l][i + 1]] # {}
          BY <1>1, <1>a, <2>2, <3>1
        <4> QED
          BY <1>0, <4>1 DEF ReportsAreOfRuns
      <3>2. CASE k # l
        BY <1>0, <1>1, <1>b, <2>2, <3>2 DEF ReportsAreOfRuns
      <3> QED
        BY <3>1, <3>2
    <2> QED
      BY <2>1, <2>2 DEF ReportsAreOfRuns
  <1>11. ManifestsAreOfFiles'
    BY <1>0, <1>1, <1>b, ManifestsStand
  <1>12. IndexIsFold'
    BY <1>0, <1>1, NoIndexYet
  <1> QED
    BY <1>8, <1>9, <1>10, <1>c, <1>11, <1>12 DEF LegInv

\* A step that writes no whole file: the leg moves on, or is cut short.
LEMMA QuietStep ==
  ASSUME LegInv, NEW l \in Plan, NEW next \in Steps \ {"codes"}, pc[l] \notin {"upload", "ended"},
         pc' = [pc EXCEPT ![l] = next],
         \/ pc[l] # "codes" /\ todo' = todo
         \/ todo' = [todo EXCEPT ![l] = <<>>]
         \/ todo[l] # <<>> /\ todo' = [todo EXCEPT ![l] = Tail(todo[l])],
         UNCHANGED <<ran, json, codes, manifest, arrived, index, verdict>>
  PROVE  LegInv'
  <1>0. /\ TypeOK /\ RunsOnce /\ CodesAreOfRuns /\ ReportsAreOfRuns
        /\ ManifestsAreOfFiles /\ IndexIsFold
    BY DEF LegInv
  <1>1. TypeOK'
    <2>1. <<>> \in Seq(Transports) /\ (todo[l] # <<>> => Tail(todo[l]) \in Seq(Transports))
      BY <1>0 DEF TypeOK
    <2> QED
      BY <1>0, <2>1 DEF TypeOK
  <1>a. ASSUME todo[l] # <<>>
        PROVE  \A i \in DOMAIN Tail(todo[l]) : /\ i \in Int /\ i + 1 \in DOMAIN todo[l] /\ i + 1 # 1
                                              /\ Tail(todo[l])[i] = todo[l][i + 1]
    <2>1. todo[l] \in Seq(Transports)
      BY <1>0 DEF TypeOK
    <2> QED
      BY <1>a, <2>1, HeadAndTail
  <1>2. RunsOnce' /\ CodesAreOfRuns' /\ ReportsAreOfRuns'
    <2>1. \A k \in Plan : \/ todo'[k] = <<>> /\ pc'[k] # "codes"
                          \/ todo'[k] = todo[k] /\ (pc'[k] = "codes" <=> pc[k] = "codes")
                          \/ /\ pc'[k] # "codes"
                             /\ \A i \in DOMAIN todo'[k] :
                                  /\ i \in Int /\ i + 1 \in DOMAIN todo[k] /\ i + 1 # 1
                                  /\ todo'[k][i] = todo[k][i + 1]
      <3>1. CASE pc[l] # "codes" /\ todo' = todo
        BY <1>0, <3>1 DEF TypeOK
      <3>2. CASE todo' = [todo EXCEPT ![l] = <<>>]
        BY <1>0, <3>2 DEF TypeOK
      <3>3. CASE todo[l] # <<>> /\ todo' = [todo EXCEPT ![l] = Tail(todo[l])]
        <4>1. todo'[l] = Tail(todo[l]) /\ pc'[l] # "codes"
          BY <1>0, <3>3 DEF TypeOK
        <4>2. \A k \in Plan \ {l} : todo'[k] = todo[k] /\ pc'[k] = pc[k]
          BY <1>0, <3>3 DEF TypeOK
        <4> QED
          BY <1>a, <3>3, <4>1, <4>2
      <3> QED
        BY <3>1, <3>2, <3>3
    <2> QED
      BY <1>0, <2>1, RunsStand
  <1>4. ManifestsAreOfFiles'
    <2>1. \A k \in Plan \ {l} : pc'[k] = pc[k]
      BY <1>0 DEF TypeOK
    <2> QED
      BY <1>0, <2>1, ManifestsStand
  <1>5. IndexIsFold'
    BY <1>0, NoIndexYet
  <1> QED
    BY <1>1, <1>2, <1>4, <1>5 DEF LegInv

\* leg.json is of the files there are, or it is not there.
LEMMA RecordLegStep ==
  ASSUME LegInv, NEW l \in Plan, RecordLeg(l)
  PROVE  LegInv'
  <1>0. /\ TypeOK /\ RunsOnce /\ CodesAreOfRuns /\ ReportsAreOfRuns
        /\ ManifestsAreOfFiles /\ IndexIsFold
    BY DEF LegInv
  <1>1. PICK m \in {NoFile, Classify(l), [Classify(l) EXCEPT !.status = "unavailable"]} :
          manifest' = [manifest EXCEPT ![l] = m]
    BY Zenon DEF RecordLeg
  <1>2. /\ pc[l] \in {"run", "unavailable"} /\ pc' = [pc EXCEPT ![l] = "upload"]
        /\ UNCHANGED <<todo, ran, json, codes, arrived, index, verdict>>
    BY DEF RecordLeg, Recording
  <1>3. /\ manifest'[l] = m /\ pc'[l] = "upload"
        /\ \A k \in Plan \ {l} : pc'[k] = pc[k] /\ manifest'[k] = manifest[k]
    <2> HIDE DEF Classify
    <2> QED
      BY <1>0, <1>1, <1>2 DEF TypeOK
  <1>4. TypeOK'
    <2>1. manifest' = [k \in Plan |-> manifest'[k]]
      BY <1>0, <1>1 DEF TypeOK
    <2> QED
      BY <1>0, <1>2, <2>1 DEF TypeOK, Steps
  <1>5. RunsOnce' /\ CodesAreOfRuns' /\ ReportsAreOfRuns'
    <2>1. \A k \in Plan : todo'[k] = todo[k] /\ (pc'[k] = "codes" <=> pc[k] = "codes")
      BY <1>0, <1>2, <1>3
    <2> QED
      BY <1>0, <1>2, <2>1, RunsStand
  <1>6. ManifestsAreOfFiles'
    <2>1. l \notin arrived /\ arrived \subseteq Plan
      BY <1>0, <1>2 DEF ManifestsAreOfFiles, TypeOK
    <2>2. \A k \in Plan : Classify(k)' = Classify(k)
      BY <1>2 DEF Classify, Recorded, CodeOf
    <2> QED
      BY <1>0, <1>1, <1>2, <1>3, <2>1, <2>2 DEF ManifestsAreOfFiles
  <1>7. IndexIsFold'
    BY <1>0, <1>2, NoIndexYet
  <1> QED
    BY <1>4, <1>5, <1>6, <1>7 DEF LegInv

\* What is uploaded is what there is.
LEMMA UploadStep ==
  ASSUME LegInv, NEW l \in Plan, Upload(l)
  PROVE  LegInv'
  <1>0. /\ TypeOK /\ RunsOnce /\ CodesAreOfRuns /\ ReportsAreOfRuns
        /\ ManifestsAreOfFiles /\ IndexIsFold
    BY DEF LegInv
  <1>1. /\ pc[l] = "upload" /\ pc' = [pc EXCEPT ![l] = "ended"]
        /\ arrived' \in {arrived, arrived \cup {l}}
        /\ UNCHANGED <<todo, ran, json, codes, manifest, index, verdict>>
    BY DEF Upload
  <1>2. \A k \in Plan : pc'[k] = IF k = l THEN "ended" ELSE pc[k]
    BY <1>0, <1>1 DEF TypeOK
  <1>3. TypeOK'
    BY <1>0, <1>1 DEF TypeOK, Steps
  <1>4. RunsOnce' /\ CodesAreOfRuns' /\ ReportsAreOfRuns'
    <2>1. \A k \in Plan : todo'[k] = todo[k] /\ (pc'[k] = "codes" <=> pc[k] = "codes")
      BY <1>1, <1>2
    <2> QED
      BY <1>0, <1>1, <2>1, RunsStand
  <1>6. ManifestsAreOfFiles'
    <2>1. \A k \in Plan : Classify(k)' = Classify(k)
      BY <1>1 DEF Classify, Recorded, CodeOf
    <2>2. arrived \subseteq Plan
      BY <1>0 DEF TypeOK
    <2> QED
      BY <1>0, <1>1, <1>2, <2>1, <2>2 DEF ManifestsAreOfFiles
  <1>7. IndexIsFold'
    BY <1>0, <1>1, NoIndexYet
  <1> QED
    BY <1>3, <1>4, <1>6, <1>7 DEF LegInv

\* A lost runner leaves nothing, and it had uploaded nothing.
LEMMA LoseRunnerStep ==
  ASSUME LegInv, NEW l \in Plan, LoseRunner(l)
  PROVE  LegInv'
  <1>0. /\ TypeOK /\ RunsOnce /\ CodesAreOfRuns /\ ReportsAreOfRuns
        /\ ManifestsAreOfFiles /\ IndexIsFold
    BY DEF LegInv
  <1>1. /\ pc[l] # "ended" /\ pc' = [pc EXCEPT ![l] = "ended"] /\ todo' = [todo EXCEPT ![l] = <<>>]
        /\ json' = [json EXCEPT ![l] = [p \in Transports |-> {}]]
        /\ codes' = [codes EXCEPT ![l] = [p \in Transports |-> NoFile]]
        /\ manifest' = [manifest EXCEPT ![l] = NoFile]
        /\ UNCHANGED <<ran, arrived, index, verdict>>
    BY DEF LoseRunner
  <1>2. /\ pc'[l] = "ended" /\ todo'[l] = <<>> /\ codes'[l] = [p \in Transports |-> NoFile]
        /\ json'[l] = [p \in Transports |-> {}] /\ manifest'[l] = NoFile
        /\ \A k \in Plan \ {l} : /\ pc'[k] = pc[k] /\ todo'[k] = todo[k] /\ json'[k] = json[k]
                                 /\ codes'[k] = codes[k] /\ manifest'[k] = manifest[k]
    BY <1>0, <1>1 DEF TypeOK
  <1>3. TypeOK'
    <2>1. codes' \in [Plan -> [Transports -> AnyCodes]]
      <3>1. [p \in Transports |-> NoFile] \in [Transports -> AnyCodes]
        BY Sorts
      <3> QED
        BY <1>0, <1>1, <3>1 DEF TypeOK
    <2>2. json' \in [Plan -> [Transports -> SUBSET Scripts]]
      <3>1. [p \in Transports |-> {}] \in [Transports -> SUBSET Scripts]
        OBVIOUS
      <3> QED
        BY <1>0, <1>1, <3>1 DEF TypeOK
    <2>3. todo' \in [Plan -> Seq(Transports)]
      <3>1. <<>> \in Seq(Transports)
        OBVIOUS
      <3> QED
        BY <1>0, <1>1, <3>1 DEF TypeOK
    <2>4. manifest' = [k \in Plan |-> manifest'[k]]
      BY <1>0, <1>1 DEF TypeOK
    <2> QED
      BY <1>0, <1>1, <2>1, <2>2, <2>3, <2>4 DEF TypeOK, Steps
  <1>4. RunsOnce'
    <2>1. ASSUME NEW k \in Plan
          PROVE  /\ \A i, j \in DOMAIN todo'[k] : todo'[k][i] = todo'[k][j] => i = j
                 /\ \A i \in DOMAIN todo'[k] : codes'[k][todo'[k][i]] = NoFile
                 /\ pc'[k] = "codes" => /\ todo'[k] # <<>>
                                        /\ ran[k][Head(todo'[k])] \in [For(Head(todo'[k])) -> Runs]
      <3>1. CASE k = l
        BY <1>2, <3>1
      <3>2. CASE k # l
        <4>1. todo'[k] = todo[k] /\ pc'[k] = pc[k] /\ codes'[k] = codes[k]
          BY <1>2, <3>2
        <4> QED
          BY <1>0, <4>1 DEF RunsOnce
      <3> QED
        BY <3>1, <3>2
    <2> QED
      BY <1>1, <2>1 DEF RunsOnce
  <1>5. CodesAreOfRuns'
    <2> SUFFICES ASSUME NEW k \in Plan, NEW q \in Transports, codes'[k][q] # NoFile
                 PROVE  /\ ran[k][q] \in [For(q) -> Runs]
                        /\ codes'[k][q] = [s \in For(q) |-> ran[k][q][s].rc]
      BY <1>1 DEF CodesAreOfRuns
    <2>1. k # l
      BY <1>2
    <2>2. codes'[k] = codes[k]
      BY <1>2, <2>1
    <2> QED
      BY <1>0, <2>2 DEF CodesAreOfRuns
  <1>a. ReportsAreOfRuns'
    <2>1. ASSUME NEW k \in Plan
          PROVE  /\ \A q \in Transports :
                      json'[k][q] # {} => ran'[k][q] \in [For(q) -> Runs] /\ json'[k][q] = Reported(k, q)'
                 /\ \A i \in DOMAIN todo'[k] : json'[k][todo'[k][i]] # {} => pc'[k] = "codes" /\ i = 1
      <3>1. CASE k = l
        BY <1>2, <3>1
      <3>2. CASE k # l
        BY <1>0, <1>1, <1>2, <3>2 DEF ReportsAreOfRuns, Reported
      <3> QED
        BY <3>1, <3>2
    <2> QED
      BY <2>1 DEF ReportsAreOfRuns
  <1>6. ManifestsAreOfFiles'
    <2>1. l \notin arrived
      BY <1>0, <1>1 DEF ManifestsAreOfFiles
    <2>2. \A k \in Plan \ {l} : Classify(k)' = Classify(k)
      BY <1>2, ClassifyStands
    <2>3. arrived \subseteq Plan
      BY <1>0 DEF TypeOK
    <2> QED
      BY <1>0, <1>1, <1>2, <2>1, <2>2, <2>3 DEF ManifestsAreOfFiles
  <1>7. IndexIsFold'
    BY <1>0, <1>1, NoIndexYet
  <1> QED
    BY <1>3, <1>4, <1>5, <1>a, <1>6, <1>7 DEF LegInv

\* The aggregate changes no leg.
LEMMA LegsStand ==
  ASSUME LegInv, UNCHANGED leg
  PROVE  /\ TypeOK' /\ RunsOnce' /\ CodesAreOfRuns' /\ ReportsAreOfRuns' /\ ManifestsAreOfFiles'
         /\ pc' = pc
         /\ \A p \in Transports, l \in Plan : Entry(l, p)' = Entry(l, p)
         /\ \A l \in Plan : Unreadable(l)' = Unreadable(l)
  <1>0. TypeOK /\ RunsOnce /\ CodesAreOfRuns /\ ReportsAreOfRuns /\ ManifestsAreOfFiles
    BY DEF LegInv
  <1>1. pc' = pc /\ todo' = todo /\ ran' = ran /\ json' = json /\ codes' = codes
        /\ torn' = torn /\ manifest' = manifest /\ arrived' = arrived
    BY DEF leg
  <1>2. TypeOK'
    BY <1>0, <1>1 DEF TypeOK
  <1>3. RunsOnce' /\ CodesAreOfRuns' /\ ReportsAreOfRuns'
    BY <1>0, <1>1, RunsStand
  <1>4. ManifestsAreOfFiles'
    <2>1. \A k \in Plan : Classify(k)' = Classify(k)
      BY <1>1 DEF Classify, Recorded, CodeOf
    <2>2. arrived \subseteq Plan
      BY <1>0 DEF TypeOK
    <2> QED
      BY <1>0, <1>1, <2>1, <2>2 DEF ManifestsAreOfFiles
  <1>5. \A p \in Transports, l \in Plan : Entry(l, p)' = Entry(l, p)
    BY <1>1 DEF Entry, LegRoot, LoadColumn, Said
  <1>6. \A l \in Plan : Unreadable(l)' = Unreadable(l)
    BY <1>1 DEF Unreadable, LegRoot
  <1> QED
    BY <1>1, <1>2, <1>3, <1>4, <1>5, <1>6

\* The indexes are made once every leg has ended, of files that can be read.
LEMMA NormaliseStep ==
  ASSUME LegInv, Normalise
  PROVE  LegInv'
  <1>1. /\ \A l \in Plan : pc[l] = "ended" /\ ~Unreadable(l)
        /\ index = <<>> /\ index' = [p \in Transports |-> [l \in Plan |-> Entry(l, p)]]
        /\ UNCHANGED leg /\ verdict' = verdict
    BY DEF Normalise
  <1>2. verdict' = Undecided
    BY <1>1 DEF LegInv, IndexIsFold
  <1>3. pc' = pc
    BY <1>1, LegsStand
  <1>4. index' = [p \in Transports |-> [l \in Plan |-> Entry(l, p)']]
    BY <1>1, LegsStand
  <1>5. IndexIsFold'
    BY <1>1, <1>2, <1>3, <1>4 DEF IndexIsFold, Undecided, NoVerdict
  <1> QED
    BY <1>1, <1>5, LegsStand DEF LegInv

\* Without an index there is no verdict.
LEMMA NormaliseRaisesStep ==
  ASSUME LegInv, NormaliseRaises
  PROVE  LegInv'
  <1>1. /\ \A l \in Plan : pc[l] = "ended"
        /\ \E l \in Plan : Unreadable(l)
        /\ index = <<>> /\ verdict' = NoVerdict /\ UNCHANGED leg /\ index' = index
    BY DEF NormaliseRaises
  <1>2. (\A l \in Plan : pc'[l] = "ended") /\ \E l \in Plan : Unreadable(l)'
    BY <1>1, LegsStand
  <1>3. IndexIsFold'
    BY <1>1, <1>2 DEF IndexIsFold
  <1> QED
    BY <1>1, <1>3, LegsStand DEF LegInv

\* The verdict is of the indexes.
LEMMA JudgeStep ==
  ASSUME LegInv, Judge
  PROVE  LegInv'
  <1>1. /\ index # <<>> /\ index' = index /\ UNCHANGED leg
        /\ verdict' = FoldOf(index)
    BY Zenon DEF Judge, FoldOf
  <1>2. /\ \A l \in Plan : pc[l] = "ended"
        /\ index = [p \in Transports |-> [l \in Plan |-> Entry(l, p)]]
    BY <1>1 DEF LegInv, IndexIsFold
  <1>3. pc' = pc
    BY <1>1, LegsStand
  <1>4. index' = [p \in Transports |-> [l \in Plan |-> Entry(l, p)']]
    BY <1>1, <1>2, LegsStand
  <1>5. FoldOf(index') = FoldOf(index) /\ FoldOf(index) \in {0, 1}
    BY <1>1 DEF FoldOf
  <1>6. verdict' = FoldOf(index') /\ verdict' # NoVerdict
    BY <1>1, <1>5 DEF NoVerdict
  <1>7. IndexIsFold'
    BY <1>1, <1>2, <1>3, <1>4, <1>6 DEF IndexIsFold
  <1> QED
    BY <1>1, <1>7, LegsStand DEF LegInv

\* Every step keeps the invariant.
LEMMA LegInvStep == LegInv /\ [Next]_vars => LegInv'
  <1> SUFFICES ASSUME LegInv, [Next]_vars PROVE LegInv'
    OBVIOUS
  <1>1. ASSUME NEW l \in Plan, Probe(l) PROVE LegInv'
    <2>1. PICK next \in {"run", "unavailable"} : pc' = [pc EXCEPT ![l] = next]
      BY <1>1 DEF Probe
    <2>2. /\ pc[l] = "probe" /\ todo' = todo
          /\ UNCHANGED <<ran, json, codes, manifest, arrived, index, verdict>>
      BY <1>1 DEF Probe
    <2> QED
      BY <2>1, <2>2, QuietStep DEF Steps
  <1>2. ASSUME NEW l \in Plan, CutShort(l) PROVE LegInv'
    <2>1. /\ pc[l] \in {"run", "codes"} /\ pc' = [pc EXCEPT ![l] = "run"]
          /\ UNCHANGED <<ran, json, codes, manifest, arrived, index, verdict>>
      BY <1>2 DEF CutShort
    <2>2. \/ todo' = [todo EXCEPT ![l] = <<>>]
          \/ todo[l] # <<>> /\ todo' = [todo EXCEPT ![l] = Tail(todo[l])]
      BY <1>2 DEF CutShort
    <2> QED
      BY <2>1, <2>2, QuietStep DEF Steps
  <1>3. ASSUME NEW l \in Plan, RecordDies(l) PROVE LegInv'
    <2>1. /\ pc[l] \in {"run", "unavailable"} /\ pc' = [pc EXCEPT ![l] = "upload"]
          /\ UNCHANGED <<todo, ran, json, codes, manifest, arrived, index, verdict>>
      BY <1>3 DEF RecordDies, Recording
    <2> QED
      BY <2>1, QuietStep DEF Steps
  <1>4. ASSUME UNCHANGED vars PROVE LegInv'
    <2>1. UNCHANGED leg /\ index' = index /\ verdict' = verdict
      BY <1>4 DEF vars
    <2>2. pc' = pc
      BY <2>1, LegsStand
    <2>3. IndexIsFold'
      <3>1. ASSUME index # <<>>
            PROVE  /\ \A l \in Plan : pc'[l] = "ended"
                   /\ index' = [p \in Transports |-> [l \in Plan |-> Entry(l, p)']]
        BY <2>1, <2>2, <3>1, LegsStand DEF LegInv, IndexIsFold
      <3>2. FoldOf(index') = FoldOf(index)
        BY <2>1
      <3>3. ASSUME verdict = NoVerdict
            PROVE  /\ index' = <<>> /\ \A l \in Plan : pc'[l] = "ended"
                   /\ \E l \in Plan : Unreadable(l)'
        BY <2>1, <2>2, <3>3, LegsStand DEF LegInv, IndexIsFold
      <3>4. verdict \notin {Undecided, NoVerdict} => index # <<>> /\ verdict = FoldOf(index)
        BY DEF LegInv, IndexIsFold
      <3> HIDE DEF FoldOf
      <3> QED
        BY <2>1, <3>1, <3>2, <3>3, <3>4 DEF IndexIsFold
    <2> QED
      BY <2>1, <2>3, LegsStand DEF LegInv
  <1> QED
    BY <1>1, <1>2, <1>3, <1>4, CompareStep, WriteCodesStep, RecordLegStep, UploadStep,
       LoseRunnerStep, NormaliseStep, NormaliseRaisesStep, JudgeStep DEF Next, LegSteps

\* The invariant holds in every reachable state.
THEOREM LegInvariant == Spec => []LegInv
  BY LegInvInit, LegInvStep, PTL DEF Spec

-----------------------------------------------------------------------------
(* What it gives.                                                          *)

\* The codes and the errors that leg.json may have, and those read where there is none.
RecordedErrors(l) == {sp \in Recorded(l) : CodeOf(l, sp) \in OurBug}
CodesRecorded(l) == {<<sp, CodeOf(l, sp)>> : sp \in Recorded(l)}

\* What is read of leg.json is what classify found, or nothing.
LEMMA SaidFacts ==
  ASSUME LegInv, NEW l \in Plan
  PROVE  /\ Said(l).status \in {"ok", "not-run", "unavailable"}
         /\ manifest[l] # NoFile => Said(l).errors = RecordedErrors(l) /\ Said(l).codes = CodesRecorded(l)
         /\ manifest[l] = NoFile => Said(l).errors = {} /\ Said(l).codes = {}
  <1>1. CASE manifest[l] = NoFile
    BY <1>1 DEF Said
  <1>2. CASE manifest[l] # NoFile
    <2>1. Said(l) = manifest[l]
      BY <1>2 DEF Said
    <2>2. \/ Said(l) = Classify(l)
          \/ Said(l) = [Classify(l) EXCEPT !.status = "unavailable"]
      BY <1>2, <2>1 DEF LegInv, ManifestsAreOfFiles
    <2>3. PICK st \in {"ok", "not-run"}, fl \in BOOLEAN :
            Classify(l) = [status |-> st, errors |-> RecordedErrors(l), codes |-> CodesRecorded(l), flaky |-> fl]
      BY DEF Classify, RecordedErrors, CodesRecorded
    <2> HIDE DEF RecordedErrors, CodesRecorded, Classify
    <2> QED
      BY <1>2, <2>2, <2>3
  <1> QED
    BY <1>1, <1>2

\* What an index has of a leg: nothing if its artifact was not found.
LEMMA EntryFacts ==
  ASSUME LegInv, NEW l \in Plan, NEW p \in Transports
  PROVE  /\ Entry(l, p).status # "errored"
         /\ Entry(l, p).codes \subseteq CodesRecorded(l)
         /\ LegRoot(l) /\ manifest[l] # NoFile => Entry(l, p).codes = CodesRecorded(l)
         /\ Entry(l, p).status = "ok" => Entry(l, p).has # {} /\ Entry(l, p).has = json[l][p]
         /\ Entry(l, p).errors \subseteq {sp \in RecordedErrors(l) : Mentions(sp, p)}
         /\ Entry(l, p).status = "ok" /\ manifest[l] # NoFile =>
              {sp \in RecordedErrors(l) : Mentions(sp, p)} \subseteq Entry(l, p).errors
  <1>1. CASE ~LegRoot(l)
    BY <1>1 DEF Entry
  <1>2. CASE LegRoot(l)
    <2> DEFINE m == Said(l)
               column == m.status = "ok" /\ LoadColumn(l, p) # {}
    <2>1. /\ Entry(l, p).status = IF column THEN "ok" ELSE IF m.status = "ok" THEN "not-run" ELSE m.status
          /\ Entry(l, p).has = IF column THEN LoadColumn(l, p) ELSE {}
          /\ Entry(l, p).errors = IF column THEN {sp \in m.errors : Mentions(sp, p)} ELSE {}
          /\ Entry(l, p).codes = m.codes
      BY <1>2 DEF Entry
    <2>2. /\ m.status \in {"ok", "not-run", "unavailable"}
          /\ manifest[l] # NoFile => m.errors = RecordedErrors(l) /\ m.codes = CodesRecorded(l)
          /\ manifest[l] = NoFile => m.errors = {} /\ m.codes = {}
      BY SaidFacts
    <2> HIDE DEF m
    <2>3. LoadColumn(l, p) = json[l][p]
      BY DEF LoadColumn
    <2> QED
      BY <1>2, <2>1, <2>2, <2>3
  <1> QED
    BY <1>1, <1>2

\* A code that is recorded is that of the run.
LEMMA RecordedCodes ==
  ASSUME LegInv, NEW l \in Plan, NEW s \in Scripts, NEW p \in Transports
  PROVE  /\ <<s, p>> \in Recorded(l) <=> codes[l][p] # NoFile /\ s \in For(p)
         /\ <<s, p>> \in Recorded(l) => (Crashed(l, p, s) <=> CodeOf(l, <<s, p>>) \in OurBug)
  <1>1. <<s, p>> \in Recorded(l) <=> codes[l][p] # NoFile /\ s \in For(p)
    BY DEF Recorded
  <1>2. ASSUME codes[l][p] # NoFile, s \in For(p)
        PROVE  Crashed(l, p, s) <=> CodeOf(l, <<s, p>>) \in OurBug
    <2>1. ran[l][p] \in [For(p) -> Runs] /\ codes[l][p] = [x \in For(p) |-> ran[l][p][x].rc]
      BY <1>2 DEF LegInv, CodesAreOfRuns
    <2>2. ran[l][p] # <<>>
      BY <1>2, <2>1
    <2>3. CodeOf(l, <<s, p>>) = ran[l][p][s].rc
      BY <1>2, <2>1 DEF CodeOf
    <2> QED
      BY <1>2, <2>2, <2>3 DEF Crashed
  <1> QED
    BY <1>1, <1>2

\* Red is never a check that failed, a lost target, a timeout or a leg that died outside
\* a file, and green hides no crash of a leg that recorded what it did.
THEOREM RedIsOurs == Spec => []RedMeansOurBug
  <1>1. LegInv => RedMeansOurBug
    <2> SUFFICES ASSUME LegInv, verdict # Undecided
                 PROVE  /\ verdict = 1 => AnyCrash
                        /\ verdict = NoVerdict => \E l \in arrived : torn[l] # {}
                        /\ \A l \in Plan, p \in Transports, s \in Scripts :
                             Complete(l, p) /\ Crashed(l, p, s) => verdict # 0
      BY DEF RedMeansOurBug
    <2>1. CASE verdict = NoVerdict
      <3>1. PICK l \in Plan : Unreadable(l)
        BY <2>1 DEF LegInv, IndexIsFold
      <3>2. l \in arrived /\ torn[l] # {}
        BY <3>1 DEF Unreadable, LegRoot
      <3> QED
        BY <2>1, <3>2 DEF NoVerdict
    <2>2. CASE verdict # NoVerdict
      <3>1. index # <<>> /\ verdict = FoldOf(index)
        BY <2>2 DEF LegInv, IndexIsFold
      <3>2. \A p \in Transports, l \in Plan : index[p][l] = Entry(l, p)
        BY <3>1 DEF LegInv, IndexIsFold
      <3>3. \A p \in Transports, l \in Plan : index[p][l].status # "errored"
        BY <3>2, EntryFacts
      <3>4. /\ verdict = 1 <=> Crashes(index) # {}
            /\ verdict = 0 <=> Crashes(index) = {}
        <4>1. verdict = IF Crashes(index) # {} THEN 1 ELSE 0
          BY <3>1, <3>3, Zenon DEF FoldOf
        <4> QED
          BY <4>1
      <3>5. ASSUME verdict = 1 PROVE AnyCrash
        <4>1. PICK l \in Plan, sp \in Scripts \X Transports :
                \E p \in Transports, c \in OurBug : <<sp, c>> \in index[p][l].codes
          BY <3>4, <3>5 DEF Crashes
        <4>2. PICK p \in Transports, c \in OurBug : <<sp, c>> \in index[p][l].codes
          BY <4>1
        <4>3. <<sp, c>> \in Entry(l, p).codes
          BY <3>2, <4>2
        <4>4. <<sp, c>> \in CodesRecorded(l)
          BY <4>3, EntryFacts
        <4>5. sp \in Recorded(l) /\ CodeOf(l, sp) = c
          BY <4>4 DEF CodesRecorded
        <4>6. PICK s \in Scripts, q \in Transports : sp = <<s, q>>
          BY <4>1
        <4>7. Crashed(l, q, s)
          BY <4>2, <4>5, <4>6, RecordedCodes
        <4> QED
          BY <4>6, <4>7 DEF AnyCrash
      <3>6. ASSUME NEW l \in Plan, NEW p \in Transports, NEW s \in Scripts,
                   Complete(l, p), Crashed(l, p, s)
            PROVE  verdict # 0
        <4>1. l \in arrived /\ manifest[l] # NoFile /\ codes[l][p] # NoFile /\ s \in For(p)
          BY <3>6 DEF Complete, Crashed
        <4>2. <<s, p>> \in Recorded(l) /\ CodeOf(l, <<s, p>>) \in OurBug
          BY <3>6, <4>1, RecordedCodes
        <4>3. LegRoot(l)
          BY <4>1 DEF LegRoot
        <4>4. Entry(l, p).codes = CodesRecorded(l)
          BY <4>1, <4>3, EntryFacts
        <4>5. <<<<s, p>>, CodeOf(l, <<s, p>>)>> \in index[p][l].codes
          BY <3>2, <4>2, <4>4 DEF CodesRecorded
        <4>6. <<l, <<s, p>>>> \in Crashes(index)
          BY <4>2, <4>5 DEF Crashes
        <4> QED
          BY <3>4, <4>6
      <3> QED
        BY <2>2, <3>5, <3>6
    <2> QED
      BY <2>1, <2>2
  <1> QED
    BY <1>1, LegInvariant, PTL

\* A column that is compared has the reports of its own run; where leg.json came it
\* names every script that crashed, and none of another transport's: a script with a
\* transport in its name is for that transport only.
THEOREM GapsGetNamed == Spec => []GapsAreNamed
  <1>1. LegInv => GapsAreNamed
    <2> SUFFICES ASSUME LegInv, index # <<>>, NEW p \in Transports, NEW l \in Plan
                 PROVE  /\ l \in DOMAIN index[p]
                        /\ index[p][l].status = "ok" =>
                             /\ ran[l][p] # <<>> /\ index[p][l].has # {}
                             /\ index[p][l].has = {s \in For(p) : ran[l][p][s].report}
                        /\ index[p][l].status = "ok" /\ Complete(l, p) =>
                             \A s \in For(p) : Crashed(l, p, s) => <<s, p>> \in index[p][l].errors
                        /\ \A sp \in index[p][l].errors : sp[2] = p
      BY DEF GapsAreNamed
    <2>1. index[p][l] = Entry(l, p) /\ l \in DOMAIN index[p]
      BY DEF LegInv, IndexIsFold
    <2>2. ASSUME index[p][l].status = "ok"
          PROVE  /\ ran[l][p] # <<>> /\ index[p][l].has # {}
                 /\ index[p][l].has = {s \in For(p) : ran[l][p][s].report}
      <3>1. index[p][l].has # {} /\ index[p][l].has = json[l][p]
        BY <2>1, <2>2, EntryFacts
      <3>2. ran[l][p] \in [For(p) -> Runs] /\ json[l][p] = Reported(l, p)
        BY <3>1 DEF LegInv, ReportsAreOfRuns
      <3>3. PICK s \in For(p) : TRUE
        BY <3>1, <3>2 DEF Reported
      <3>4. ran[l][p] # <<>>
        BY <3>2, <3>3
      <3> QED
        BY <3>1, <3>2, <3>4 DEF Reported
    <2>3. ASSUME index[p][l].status = "ok", Complete(l, p), NEW s \in For(p), Crashed(l, p, s)
          PROVE  <<s, p>> \in index[p][l].errors
      <3>1. s \in Scripts /\ codes[l][p] # NoFile /\ manifest[l] # NoFile
        BY <2>3 DEF For, Complete
      <3>2. <<s, p>> \in RecordedErrors(l)
        BY <2>3, <3>1, RecordedCodes DEF RecordedErrors
      <3>3. Mentions(<<s, p>>, p)
        BY DEF Mentions
      <3> QED
        BY <2>1, <2>3, <3>1, <3>2, <3>3, EntryFacts
    <2>4. ASSUME NEW sp \in index[p][l].errors PROVE sp[2] = p
      <3>1. sp \in Recorded(l) /\ Mentions(sp, p)
        BY <2>1, EntryFacts DEF RecordedErrors
      <3>2. sp[1] \in Scripts /\ sp[2] \in RunsOn[sp[1]]
        BY <3>1 DEF Recorded, For
      <3>3. p \in NameHas[sp[1]] => RunsOn[sp[1]] = {p}
        BY <3>2, ConstantsAssumption DEF ConstantsAssumption
      <3> QED
        BY <3>1, <3>2, <3>3 DEF Mentions
    <2> QED
      BY <2>1, <2>2, <2>3, <2>4
  <1> QED
    BY <1>1, LegInvariant, PTL

-----------------------------------------------------------------------------
(* Numbers.                                                                *)

\* A set of natural numbers has a least element.
LEMMA LeastNumber ==
  ASSUME NEW T, T \subseteq Nat, T # {}
  PROVE  \E x \in T : \A y \in T : x <= y
  <1> DEFINE Less == OpToRel(<, Nat)
  <1>1. IsWellFoundedOn(Less, Nat)
    BY NatLessThanWellFounded
  <1>2. \A x, y \in Nat : <<y, x>> \in Less <=> y < x
    BY DEF OpToRel
  <1> HIDE DEF Less
  <1>3. PICK x \in T : \A y \in T : ~(<<y, x>> \in Less)
    BY <1>1, WFMin
  <1>4. ASSUME NEW y \in T PROVE x <= y
    <2>1. ~(y < x)
      BY <1>2, <1>3
    <2> QED
      BY <2>1
  <1> QED
    BY <1>4

\* So a set that has 0 and the successors of what it has, has every number.
LEMMA NumbersByInduction ==
  ASSUME NEW S, 0 \in S, \A n \in Nat : n \in S => n + 1 \in S
  PROVE  Nat \subseteq S
  <1> SUFFICES ASSUME Nat \ S # {} PROVE FALSE
    OBVIOUS
  <1>1. PICK m \in Nat \ S : \A n \in Nat \ S : m <= n
    BY LeastNumber
  <1>2. m # 0 /\ m - 1 \in Nat /\ m - 1 \in S
    BY <1>1
  <1>3. (m - 1) + 1 \in S
    BY <1>2
  <1> QED
    BY <1>1, <1>3

-----------------------------------------------------------------------------
(* Sequences laid end to end.                                              *)

\* pile[i] is the first i of them, one after the other.
IsPile(pile, seqs, n) ==
  pile = [i \in 1..n |-> IF i = 1 THEN seqs[i] ELSE pile[i - 1] \o seqs[i]]

\* There is such a pile, of any height.
LEMMA PilesExist ==
  ASSUME NEW seqs
  PROVE  \A n \in Nat : \E pile : IsPile(pile, seqs, n)
  <1> DEFINE S == {n \in Nat : \E pile : IsPile(pile, seqs, n)}
  <1>1. 0 \in S
    <2> DEFINE f == [i \in 1..0 |-> seqs[i]]
               g == [i \in 1..0 |-> IF i = 1 THEN seqs[i] ELSE f[i - 1] \o seqs[i]]
    <2>1. \A i \in 1..0 : FALSE
      OBVIOUS
    <2>2. f = g
      BY <2>1
    <2>3. IsPile(f, seqs, 0)
      BY <2>2 DEF IsPile
    <2> QED
      BY <2>3
  <1>2. ASSUME NEW n \in Nat, n \in S PROVE n + 1 \in S
    <2>1. PICK f : IsPile(f, seqs, n)
      BY <1>2
    <2> DEFINE top == IF n = 0 THEN seqs[1] ELSE f[n] \o seqs[n + 1]
               g == [i \in 1..(n + 1) |-> IF i = n + 1 THEN top ELSE f[i]]
               h == [i \in 1..(n + 1) |-> IF i = 1 THEN seqs[i] ELSE g[i - 1] \o seqs[i]]
    <2>2. ASSUME NEW i \in 1..(n + 1) PROVE g[i] = h[i]
      <3>1. CASE i = n + 1 /\ n = 0
        BY <3>1
      <3>2. CASE i = n + 1 /\ n # 0
        <4>1. i # 1 /\ i - 1 = n /\ n \in 1..(n + 1) /\ n # n + 1
          BY <3>2
        <4>2. g[n] = f[n] /\ g[i] = f[n] \o seqs[n + 1]
          BY <3>2, <4>1
        <4>3. h[i] = g[n] \o seqs[i]
          BY <4>1
        <4> QED
          BY <3>2, <4>2, <4>3
      <3>3. CASE i # n + 1
        <4>1. i \in 1..n /\ (i # 1 => i - 1 \in 1..(n + 1) /\ i - 1 # n + 1)
          BY <3>3
        <4>2. g[i] = f[i] /\ (i # 1 => g[i - 1] = f[i - 1])
          BY <3>3, <4>1
        <4>3. f[i] = IF i = 1 THEN seqs[i] ELSE f[i - 1] \o seqs[i]
          BY <4>1, <2>1 DEF IsPile
        <4> QED
          BY <4>2, <4>3
      <3> QED
        BY <3>1, <3>2, <3>3
    <2>3. g = h
      BY <2>2
    <2>4. IsPile(g, seqs, n + 1)
      BY <2>3 DEF IsPile
    <2> QED
      BY <2>4
  <1>3. Nat \subseteq S
    <2> HIDE DEF S
    <2> QED
      BY <1>1, <1>2, NumbersByInduction
  <1> QED
    BY <1>3

\* flat is the first n sequences, the i-th from after position place[i] on, and nothing else.
Laid(flat, place, seqs, n) ==
  /\ place \in [1..n -> Nat]
  /\ \A i \in 1..n : \A j \in 1..Len(seqs[i]) :
       place[i] + j \in 1..Len(flat) /\ flat[place[i] + j] = seqs[i][j]
  /\ \A m \in 1..Len(flat) : \E i \in 1..n : \E j \in 1..Len(seqs[i]) : m = place[i] + j

\* One more sequence on top.
LEMMA OneMoreIsLaid ==
  ASSUME NEW V, NEW n \in Nat, NEW seqs, \A i \in 1..(n + 1) : seqs[i] \in Seq(V),
         NEW flat \in Seq(V), NEW place, Laid(flat, place, seqs, n)
  PROVE  /\ flat \o seqs[n + 1] \in Seq(V)
         /\ \E q : Laid(flat \o seqs[n + 1], q, seqs, n + 1)
  <1> DEFINE last == seqs[n + 1]
             more == flat \o last
             q == [i \in 1..(n + 1) |-> IF i = n + 1 THEN Len(flat) ELSE place[i]]
  <1>1. last \in Seq(V) /\ Len(last) \in Nat /\ Len(flat) \in Nat
    <2>1. n + 1 \in 1..(n + 1)
      OBVIOUS
    <2> QED
      BY <2>1
  <1>2. /\ more \in Seq(V) /\ Len(more) = Len(flat) + Len(last)
        /\ \A m \in 1..Len(flat) : more[m] = flat[m]
        /\ \A j \in 1..Len(last) : more[Len(flat) + j] = last[j]
    <2> HIDE DEF last
    <2> QED
      BY <1>1
  <1>3. q \in [1..(n + 1) -> Nat]
    BY <1>1 DEF Laid
  <1>4. \A i \in 1..n : Len(seqs[i]) \in Nat /\ q[i] = place[i] /\ i \in 1..(n + 1) /\ place[i] \in Nat
    BY DEF Laid
  <1>5. q[n + 1] = Len(flat) /\ n + 1 \in 1..(n + 1)
    OBVIOUS
  <1> HIDE DEF q, more
  <1>6. ASSUME NEW i \in 1..(n + 1), NEW j \in 1..Len(seqs[i])
        PROVE  q[i] + j \in 1..Len(more) /\ more[q[i] + j] = seqs[i][j]
    <2> HIDE DEF last
    <2>1. CASE i = n + 1
      <3>1. seqs[i] = last /\ q[i] = Len(flat) /\ j \in 1..Len(last)
        BY <1>5, <2>1 DEF last
      <3>2. more[Len(flat) + j] = last[j]
        BY <1>2, <3>1
      <3>3. Len(flat) + j \in 1..Len(more)
        BY <1>1, <1>2, <3>1
      <3> QED
        BY <3>1, <3>2, <3>3
    <2>2. CASE i # n + 1
      <3>1. i \in 1..n
        BY <2>2
      <3>2. place[i] + j \in 1..Len(flat) /\ flat[place[i] + j] = seqs[i][j] /\ q[i] = place[i]
        BY <1>4, <3>1 DEF Laid
      <3>3. more[place[i] + j] = flat[place[i] + j]
        BY <1>2, <3>2
      <3>4. place[i] + j \in 1..Len(more)
        BY <1>1, <1>2, <3>2
      <3> QED
        BY <3>2, <3>3, <3>4
    <2> QED
      BY <2>1, <2>2
  <1>7. ASSUME NEW m \in 1..Len(more)
        PROVE  \E i \in 1..(n + 1) : \E j \in 1..Len(seqs[i]) : m = q[i] + j
    <2>1. CASE m <= Len(flat)
      <3>1. m \in 1..Len(flat)
        BY <1>1, <2>1
      <3>2. PICK i \in 1..n : \E j \in 1..Len(seqs[i]) : m = place[i] + j
        BY <3>1 DEF Laid
      <3> QED
        BY <1>4, <3>2
    <2>2. CASE ~(m <= Len(flat))
      <3>1. m - Len(flat) \in 1..Len(last) /\ m = Len(flat) + (m - Len(flat))
        <4> HIDE DEF last
        <4> QED
          BY <1>1, <1>2, <2>2
      <3> QED
        BY <1>5, <3>1
    <2> QED
      BY <2>1, <2>2
  <1>8. Laid(more, q, seqs, n + 1)
    BY <1>3, <1>6, <1>7 DEF Laid
  <1> QED
    BY <1>2, <1>8 DEF more

\* FlattenSeq: each sequence has its place, and there is nothing between them.
LEMMA FlattenLays ==
  ASSUME NEW V, NEW N \in Nat, NEW seqs \in Seq(Seq(V)), Len(seqs) = N
  PROVE  /\ FlattenSeq(seqs) \in Seq(V)
         /\ \E place : Laid(FlattenSeq(seqs), place, seqs, N)
  <1>0. \A i \in 1..N : seqs[i] \in Seq(V)
    OBVIOUS
  <1>1. CASE N = 0
    <2>1. FlattenSeq(seqs) = seqs /\ seqs = <<>>
      BY <1>1 DEF FlattenSeq
    <2> DEFINE none == [i \in 1..0 |-> 0]
    <2>2. Laid(<<>>, none, <<>>, 0)
      BY DEF Laid
    <2>3. <<>> \in Seq(V)
      OBVIOUS
    <2> QED
      BY <1>1, <2>1, <2>2, <2>3
  <1>2. CASE N # 0
    <2> DEFINE pile == CHOOSE f : IsPile(f, seqs, N)
    <2>1. IsPile(pile, seqs, N)
      BY PilesExist
    <2>2. FlattenSeq(seqs) = pile[N]
      BY <1>2 DEF FlattenSeq, IsPile
    <2> HIDE DEF pile
    <2> DEFINE Good(n) == pile[n] \in Seq(V) /\ \E place : Laid(pile[n], place, seqs, n)
               S == {n \in Nat : n \in 1..N => Good(n)}
    <2>3. 0 \in S
      OBVIOUS
    <2>4. ASSUME NEW n \in Nat, n \in S PROVE n + 1 \in S
      <3> SUFFICES ASSUME n + 1 \in 1..N PROVE Good(n + 1)
        OBVIOUS
      <3>1. CASE n = 0
        <4>1. pile[1] = seqs[1] /\ seqs[1] \in Seq(V)
          BY <1>0, <2>1, <3>1 DEF IsPile
        <4> DEFINE first == [i \in 1..1 |-> 0]
        <4>2. Laid(seqs[1], first, seqs, 1)
          BY <4>1 DEF Laid
        <4> QED
          BY <3>1, <4>1, <4>2
      <3>2. CASE n # 0
        <4>1. n \in 1..N /\ n + 1 # 1 /\ (n + 1) - 1 = n
          BY <3>2
        <4>2. Good(n)
          BY <2>4, <4>1
        <4>3. pile[n + 1] = pile[n] \o seqs[n + 1]
          BY <2>1, <4>1 DEF IsPile
        <4>4. \A i \in 1..(n + 1) : seqs[i] \in Seq(V)
          BY <1>0
        <4>5. PICK place : Laid(pile[n], place, seqs, n)
          BY <4>2
        <4>6. pile[n] \in Seq(V)
          BY <4>2
        <4>7. /\ pile[n] \o seqs[n + 1] \in Seq(V)
              /\ \E q : Laid(pile[n] \o seqs[n + 1], q, seqs, n + 1)
          BY <4>4, <4>5, <4>6, OneMoreIsLaid
        <4> QED
          BY <4>3, <4>7
      <3> QED
        BY <3>1, <3>2
    <2>5. Nat \subseteq S
      <3> HIDE DEF S
      <3> QED
        BY <2>3, <2>4, NumbersByInduction
    <2>6. Good(N)
      <3>1. N \in S /\ N \in 1..N
        BY <1>2, <2>5
      <3> QED
        BY <3>1
    <2> QED
      BY <2>2, <2>6
  <1> QED
    BY <1>1, <1>2

-----------------------------------------------------------------------------
(* Sets of numbers, in order.                                              *)

UpTo(S, i) == {j \in S : j <= i}
Nth(S, n) == CHOOSE i \in S : Cardinality(UpTo(S, i)) = n

\* InOrder lists every member once.
LEMMA InOrderLists ==
  ASSUME NEW S, S \subseteq Nat, IsFiniteSet(S)
  PROVE  InOrder(S) \in Bijection(1..Cardinality(S), S)
  <1> DEFINE r == [i \in S |-> Cardinality(UpTo(S, i))]
             N == Cardinality(S)
             f == InOrder(S)
  <1>0. f = [n \in 1..N |-> Nth(S, n)]
    BY DEF InOrder, UpTo, Nth
  <1>1. N \in Nat /\ IsFiniteSet(1..N) /\ Cardinality(1..N) = N
    <2>1. N \in Nat
      BY FS_CardinalityType
    <2> HIDE DEF N
    <2> QED
      BY <2>1, FS_Interval
  <1>2. \A i \in S : IsFiniteSet(UpTo(S, i)) /\ Cardinality(UpTo(S, i)) \in 1..N
    <2> TAKE i \in S
    <2>1. UpTo(S, i) \in SUBSET S /\ i \in UpTo(S, i)
      BY DEF UpTo
    <2>2. IsFiniteSet(UpTo(S, i)) /\ Cardinality(UpTo(S, i)) <= N
      BY <2>1, FS_Subset
    <2>3. Cardinality(UpTo(S, i)) \in Nat /\ Cardinality(UpTo(S, i)) # 0
      BY <2>1, <2>2, FS_CardinalityType, FS_EmptySet
    <2> QED
      BY <1>1, <2>2, <2>3
  <1>3. ASSUME NEW i \in S, NEW k \in S, i < k PROVE Cardinality(UpTo(S, i)) # Cardinality(UpTo(S, k))
    <2>1. UpTo(S, i) \in SUBSET UpTo(S, k)
      <3>1. i \in Nat /\ k \in Nat
        OBVIOUS
      <3>2. \A j \in S : j <= i => j <= k
        BY <1>3, <3>1
      <3> QED
        BY <3>2 DEF UpTo
    <2>2. k \in UpTo(S, k) /\ k \notin UpTo(S, i)
      BY <1>3 DEF UpTo
    <2> QED
      BY <1>2, <2>1, <2>2, FS_Subset
  <1>4. \A i \in S : r[i] = Cardinality(UpTo(S, i))
    OBVIOUS
  <1>5. r \in Injection(S, 1..N)
    <2>1. r \in [S -> 1..N]
      <3> HIDE DEF N
      <3> QED
        BY <1>2
    <2>2. \A i, k \in S : r[i] = r[k] => i = k
      <3> TAKE i, k \in S
      <3>1. i < k \/ k < i \/ i = k
        OBVIOUS
      <3> HIDE DEF r
      <3> QED
        BY <1>3, <1>4, <3>1
    <2> HIDE DEF r
    <2> QED
      BY <2>1, <2>2 DEF Injection, IsInjective
  <1>6. r \in Surjection(S, 1..N)
    <2> HIDE DEF r
    <2> QED
      BY <1>1, <1>5, FS_Injection
  <1>7. ASSUME NEW n \in 1..N PROVE f[n] \in S /\ r[f[n]] = n
    <2>1. PICK i \in S : r[i] = n
      <3> HIDE DEF r
      <3> QED
        BY <1>6 DEF Surjection
    <2>2. f[n] = Nth(S, n)
      <3> HIDE DEF f, N
      <3> QED
        BY <1>0
    <2>3. f[n] \in S /\ Cardinality(UpTo(S, f[n])) = n
      <3> HIDE DEF r, f
      <3> QED
        BY <1>4, <2>1, <2>2 DEF Nth
    <2> HIDE DEF r, f
    <2> QED
      BY <1>4, <2>3
  <1> HIDE DEF r, f
  <1>9. f \in [1..N -> S]
    BY <1>0, <1>7
  <1>10. \A m, n \in 1..N : f[m] = f[n] => m = n
    BY <1>7
  <1>11. ASSUME NEW i \in S PROVE \E n \in 1..N : f[n] = i
    <2>1. r[i] \in 1..N
      BY <1>2, <1>4
    <2>2. f[r[i]] \in S /\ r[f[r[i]]] = r[i]
      BY <1>7, <2>1
    <2>3. f[r[i]] = i
      BY <1>5, <2>2 DEF Injection, IsInjective
    <2> QED
      BY <2>1, <2>3
  <1> QED
    BY <1>9, <1>10, <1>11 DEF f, Bijection, Injection, IsInjective, Surjection

-----------------------------------------------------------------------------
(* Rows.                                                                   *)

HasKey(results, key) == \E j \in DOMAIN results : results[j].key = key

\* The columns build is given: cols is a list of them, and R what may be answered.
AreColumns(cols, R) ==
  \E n \in Nat : DOMAIN cols = 1..n /\ \A i \in 1..n : cols[i].results \in Seq(R)

\* AllKeys has the keys of every column and no other.
LEMMA AllKeysAreTheirs ==
  ASSUME NEW R, NEW cols, AreColumns(cols, R)
  PROVE  /\ \E K : AllKeys(cols) \in Seq(K)
         /\ \A key : (\E m \in DOMAIN AllKeys(cols) : AllKeys(cols)[m] = key)
                       <=> \E i \in DOMAIN cols : HasKey(cols[i].results, key)
  <1> DEFINE K == {r.key : r \in R}
             seqs == [i \in DOMAIN cols |-> [j \in DOMAIN cols[i].results |-> cols[i].results[j].key]]
             all == AllKeys(cols)
  <1>1. PICK n \in Nat : DOMAIN cols = 1..n /\ \A i \in 1..n : cols[i].results \in Seq(R)
    BY DEF AreColumns
  <1>2. ASSUME NEW i \in 1..n
        PROVE  /\ seqs[i] \in Seq(K) /\ Len(seqs[i]) = Len(cols[i].results)
               /\ DOMAIN cols[i].results = 1..Len(cols[i].results)
               /\ \A j \in 1..Len(cols[i].results) : seqs[i][j] = cols[i].results[j].key
    <2> DEFINE res == cols[i].results
               q == [j \in DOMAIN res |-> res[j].key]
    <2>1. seqs[i] = q /\ res \in Seq(R)
      BY <1>1
    <2> HIDE DEF res
    <2>2. Len(res) \in Nat /\ DOMAIN res = 1..Len(res) /\ \A j \in 1..Len(res) : res[j] \in R
      BY <2>1
    <2>3. q \in Seq(K) /\ Len(q) = Len(res)
      BY <2>2
    <2>4. \A j \in 1..Len(res) : q[j] = res[j].key
      BY <2>2
    <2> HIDE DEF q
    <2> QED
      BY <2>1, <2>2, <2>3, <2>4 DEF res
  <1>3. seqs \in Seq(Seq(K)) /\ Len(seqs) = n
    <2>1. seqs = [i \in 1..n |-> seqs[i]]
      BY <1>1
    <2> HIDE DEF seqs, K
    <2>2. seqs \in [1..n -> Seq(K)]
      BY <1>2, <2>1
    <2> QED
      BY <2>2
  <1>4. all = FlattenSeq(seqs)
    BY DEF AllKeys
  <1> HIDE DEF seqs, K, all
  <1>5. all \in Seq(K) /\ \E place : Laid(all, place, seqs, n)
    BY <1>3, <1>4, FlattenLays
  <1>6. PICK place : Laid(all, place, seqs, n)
    BY <1>5
  <1>7. DOMAIN all = 1..Len(all)
    BY <1>5
  <1>8. ASSUME NEW m \in DOMAIN all PROVE \E i \in DOMAIN cols : HasKey(cols[i].results, all[m])
    <2>1. PICK i \in 1..n : \E j \in 1..Len(seqs[i]) : m = place[i] + j
      BY <1>6, <1>7 DEF Laid
    <2>2. PICK j \in 1..Len(seqs[i]) : m = place[i] + j
      BY <2>1
    <2>3. all[m] = seqs[i][j]
      BY <1>6, <2>2 DEF Laid
    <2>4. all[m] = cols[i].results[j].key /\ j \in DOMAIN cols[i].results
      BY <1>2, <2>3
    <2> QED
      BY <1>1, <2>4 DEF HasKey
  <1>9. ASSUME NEW i \in DOMAIN cols, NEW j \in DOMAIN cols[i].results
        PROVE  \E m \in DOMAIN all : all[m] = cols[i].results[j].key
    <2>1. i \in 1..n /\ j \in 1..Len(seqs[i]) /\ seqs[i][j] = cols[i].results[j].key
      BY <1>1, <1>2
    <2>2. place[i] + j \in 1..Len(all) /\ all[place[i] + j] = seqs[i][j]
      BY <1>6, <2>1 DEF Laid
    <2> QED
      BY <1>7, <2>1, <2>2
  <1>10. \A key : (\E m \in DOMAIN all : all[m] = key)
                    <=> \E i \in DOMAIN cols : HasKey(cols[i].results, key)
    BY <1>8, <1>9 DEF HasKey
  <1> QED
    BY <1>5, <1>10 DEF all

\* Every key has a first place, and no two.
LEMMA FirstPlaces ==
  ASSUME NEW K, NEW keys \in Seq(K)
  PROVE  /\ Firsts(keys) \subseteq Nat /\ IsFiniteSet(Firsts(keys)) /\ Firsts(keys) \subseteq DOMAIN keys
         /\ \A m \in DOMAIN keys : \E i \in Firsts(keys) : keys[i] = keys[m]
         /\ \A i, j \in Firsts(keys) : keys[i] = keys[j] => i = j
  <1>1. Len(keys) \in Nat /\ DOMAIN keys = 1..Len(keys)
    OBVIOUS
  <1>2. Firsts(keys) \subseteq DOMAIN keys
    BY DEF Firsts
  <1>3. Firsts(keys) \subseteq Nat /\ IsFiniteSet(Firsts(keys))
    <2>1. IsFiniteSet(1..Len(keys))
      BY <1>1, FS_Interval
    <2> QED
      BY <1>1, <1>2, <2>1, FS_Subset
  <1>4. ASSUME NEW m \in DOMAIN keys PROVE \E i \in Firsts(keys) : keys[i] = keys[m]
    <2> DEFINE T == {i \in DOMAIN keys : keys[i] = keys[m]}
    <2>1. T \subseteq Nat /\ m \in T
      BY <1>1
    <2>2. PICK i \in T : \A k \in T : i <= k
      <3> HIDE DEF T
      <3> QED
        BY <2>1, LeastNumber
    <2>3. ASSUME NEW j \in 1..(i - 1) PROVE keys[j] # keys[i]
      <3>1. j \in DOMAIN keys /\ ~(i <= j)
        BY <1>1
      <3> QED
        BY <2>2, <3>1
    <2>4. i \in Firsts(keys) /\ keys[i] = keys[m]
      BY <2>3 DEF Firsts
    <2> QED
      BY <2>4
  <1>5. ASSUME NEW i \in Firsts(keys), NEW j \in Firsts(keys), keys[i] = keys[j] PROVE i = j
    <2>1. i \in 1..Len(keys) /\ j \in 1..Len(keys)
      BY <1>1, <1>2
    <2>2. CASE i < j
      <3>1. i \in 1..(j - 1)
        BY <2>1, <2>2
      <3> QED
        BY <1>5, <3>1 DEF Firsts
    <2>3. CASE j < i
      <3>1. j \in 1..(i - 1)
        BY <2>1, <2>3
      <3> QED
        BY <1>5, <3>1 DEF Firsts
    <2> QED
      BY <1>1, <2>1, <2>2, <2>3
  <1> QED
    BY <1>2, <1>3, <1>4, <1>5

\* build: one row per key some column has, and in each column's cell what it answered.
LEMMA BuildKeepsKeys ==
  ASSUME NEW R, NEW cols, AreColumns(cols, R)
  PROVE  LET rs == Build(cols) IN
           /\ \A m, n \in DOMAIN rs : rs[m].key = rs[n].key => m = n
           /\ \A key : (\E n \in DOMAIN rs : rs[n].key = key)
                         <=> \E i \in DOMAIN cols : HasKey(cols[i].results, key)
           /\ \A n \in DOMAIN rs, i \in DOMAIN cols : rs[n].cells[i] = Lookup(cols[i].results, rs[n].key)
           /\ IsFiniteSet(DOMAIN rs)
  <1> DEFINE all == AllKeys(cols)
             S == Firsts(all)
             f == InOrder(S)
             N == Cardinality(S)
             ks == KeysInOrder(cols)
             rs == Build(cols)
  <1>1. PICK K : all \in Seq(K)
    BY AllKeysAreTheirs
  <1>2. \A key : (\E m \in DOMAIN all : all[m] = key) <=> \E i \in DOMAIN cols : HasKey(cols[i].results, key)
    BY AllKeysAreTheirs
  <1>3. /\ S \subseteq Nat /\ IsFiniteSet(S) /\ S \subseteq DOMAIN all
        /\ \A m \in DOMAIN all : \E i \in S : all[i] = all[m]
        /\ \A i, j \in S : all[i] = all[j] => i = j
    <2> HIDE DEF all
    <2> QED
      BY <1>1, FirstPlaces
  <1>4. ks = [n \in DOMAIN f |-> all[f[n]]]
    BY DEF KeysInOrder
  <1>5. /\ DOMAIN rs = DOMAIN ks
        /\ \A n \in DOMAIN ks : rs[n].key = ks[n]
        /\ \A n \in DOMAIN ks, i \in DOMAIN cols : rs[n].cells[i] = Lookup(cols[i].results, ks[n])
    <2> HIDE DEF ks
    <2>1. rs = [n \in DOMAIN ks |-> [key |-> ks[n],
                  cells |-> [i \in DOMAIN cols |-> Lookup(cols[i].results, ks[n])]]]
      BY DEF Build, ks
    <2> HIDE DEF rs
    <2> QED
      BY <2>1
  <1> HIDE DEF all, S, ks, rs
  <1>6. f \in Bijection(1..N, S)
    BY <1>3, InOrderLists
  <1> HIDE DEF f, N
  <1>7. /\ DOMAIN f = 1..N /\ \A n \in 1..N : f[n] \in S
        /\ \A m, n \in 1..N : f[m] = f[n] => m = n
        /\ \A i \in S : \E n \in 1..N : f[n] = i
    BY <1>6 DEF Bijection, Injection, IsInjective, Surjection
  <1>8. DOMAIN ks = 1..N /\ \A n \in 1..N : ks[n] = all[f[n]]
    BY <1>4, <1>7
  <1>9. \A m, n \in DOMAIN rs : rs[m].key = rs[n].key => m = n
    <2>1. ASSUME NEW m \in 1..N, NEW n \in 1..N, ks[m] = ks[n] PROVE m = n
      <3>1. f[m] \in S /\ f[n] \in S /\ all[f[m]] = all[f[n]]
        BY <1>7, <1>8, <2>1
      <3>2. f[m] = f[n]
        BY <1>3, <3>1
      <3> QED
        BY <1>7, <3>2
    <2> QED
      BY <1>5, <1>8, <2>1
  <1>10. ASSUME NEW key
         PROVE  (\E n \in DOMAIN rs : rs[n].key = key) <=> \E m \in DOMAIN all : all[m] = key
    <2>1. ASSUME NEW n \in DOMAIN rs PROVE \E m \in DOMAIN all : all[m] = rs[n].key
      <3>1. n \in 1..N /\ rs[n].key = all[f[n]]
        BY <1>5, <1>8
      <3>2. f[n] \in DOMAIN all
        BY <1>3, <1>7, <3>1
      <3> QED
        BY <3>1, <3>2
    <2>2. ASSUME NEW m \in DOMAIN all PROVE \E n \in DOMAIN rs : rs[n].key = all[m]
      <3>1. PICK i \in S : all[i] = all[m]
        BY <1>3
      <3>2. PICK n \in 1..N : f[n] = i
        BY <1>7
      <3> QED
        BY <1>5, <1>8, <3>1, <3>2
    <2> QED
      BY <2>1, <2>2
  <1>11. \A n \in DOMAIN rs, i \in DOMAIN cols : rs[n].cells[i] = Lookup(cols[i].results, rs[n].key)
    BY <1>5
  <1>12. \A key : (\E n \in DOMAIN rs : rs[n].key = key)
                    <=> \E i \in DOMAIN cols : HasKey(cols[i].results, key)
    BY <1>2, <1>10
  <1>13. IsFiniteSet(DOMAIN rs)
    <2>1. N \in Nat
      BY <1>3, FS_CardinalityType DEF N
    <2>2. IsFiniteSet(1..N)
      BY <2>1, FS_Interval
    <2> QED
      BY <1>5, <1>8, <2>2
  <1> QED
    BY <1>9, <1>11, <1>12, <1>13 DEF rs

\* What scripts may answer, and the same under the names merge gives.
Raw == UNION {Range(results) : results \in Reports}
Answered ==
  [key : Range(ScriptNames) \X {r.key : r \in Raw}, outcome : {r.outcome : r \in Raw}]
ColumnRuns == [Range(ScriptNames) -> Reports \cup {NoReport}]

\* A run's reports are sequences of answers.
LEMMA RunsAreAnswers ==
  ASSUME NEW run \in ColumnRuns, NEW s \in Range(ScriptNames)
  PROVE  run[s] \in Seq(Raw) /\ Len(run[s]) \in Nat /\ DOMAIN run[s] = 1..Len(run[s])
  <1>1. run[s] \in Reports \cup {NoReport}
    BY DEF ColumnRuns
  <1>2. CASE run[s] = NoReport
    <2>1. run[s] = <<>>
      BY <1>2 DEF NoReport
    <2> QED
      BY <2>1
  <1>3. CASE run[s] \in Reports
    <2> DEFINE q == run[s]
    <2>1. q \in Seq(Range(q))
      BY <1>3, MatrixAssumption
    <2>2. Range(q) \subseteq Raw
      BY <1>3 DEF Raw
    <2> HIDE DEF q
    <2>3. q \in Seq(Raw)
      BY <2>1, <2>2
    <2> QED
      BY <2>3 DEF q
  <1> QED
    BY <1>1, <1>2, <1>3

\* merge: the answers of every script, each script's in its order, and no others.
LEMMA MergeKeepsAnswers ==
  ASSUME NEW run \in ColumnRuns
  PROVE  /\ Merge(run) \in Seq(Answered)
         /\ \A s \in Range(ScriptNames) :
              \E p \in Nat :
                /\ \A j \in DOMAIN run[s] :
                     /\ p + j \in DOMAIN Merge(run)
                     /\ Merge(run)[p + j].key = <<s, run[s][j].key>>
                     /\ Merge(run)[p + j].outcome = run[s][j].outcome
                /\ \A m \in DOMAIN Merge(run) : \A k :
                     Merge(run)[m].key = <<s, k>> =>
                       \E j \in DOMAIN run[s] : m = p + j
  <1> DEFINE N == Len(ScriptNames)
             seqs == [i \in DOMAIN ScriptNames |->
                        [j \in DOMAIN run[ScriptNames[i]] |->
                           [key |-> <<ScriptNames[i], run[ScriptNames[i]][j].key>>,
                            outcome |-> run[ScriptNames[i]][j].outcome]]]
             flat == Merge(run)
  <1>1. N \in Nat /\ DOMAIN ScriptNames = 1..N /\ \A i \in 1..N : ScriptNames[i] \in Range(ScriptNames)
    <2> DEFINE A == Range(ScriptNames)
    <2>1. ScriptNames \in Seq(A)
      BY MatrixAssumption
    <2> HIDE DEF A
    <2>2. N \in Nat /\ DOMAIN ScriptNames = 1..N /\ \A i \in 1..N : ScriptNames[i] \in A
      BY <2>1
    <2> QED
      BY <2>2 DEF A
  <1>2. ASSUME NEW i \in 1..N
        PROVE  LET q == run[ScriptNames[i]] IN
               /\ seqs[i] \in Seq(Answered) /\ Len(seqs[i]) = Len(q) /\ DOMAIN q = 1..Len(q)
               /\ \A j \in 1..Len(q) :
                    seqs[i][j].key = <<ScriptNames[i], q[j].key>> /\ seqs[i][j].outcome = q[j].outcome
    <2> DEFINE s == ScriptNames[i]
               q == run[s]
               e(j) == [key |-> <<s, q[j].key>>, outcome |-> q[j].outcome]
               t == [j \in DOMAIN q |-> e(j)]
    <2>1. s \in Range(ScriptNames)
      BY <1>1
    <2>2. q \in Seq(Raw) /\ Len(q) \in Nat /\ DOMAIN q = 1..Len(q)
      BY <2>1, RunsAreAnswers
    <2>3. seqs[i] = t
      BY <1>1
    <2>4. ASSUME NEW j \in 1..Len(q) PROVE e(j) \in Answered
      <3>1. q[j] \in Raw
        <4> HIDE DEF q
        <4> QED
          BY <2>2
      <3>2. \A a \in Range(ScriptNames), r \in Raw : [key |-> <<a, r.key>>, outcome |-> r.outcome] \in Answered
        BY DEF Answered
      <3> HIDE DEF q, s
      <3> QED
        BY <2>1, <3>1, <3>2
    <2>5. ASSUME NEW j \in 1..Len(q)
          PROVE  t[j] = e(j) /\ t[j].key = <<s, q[j].key>> /\ t[j].outcome = q[j].outcome
      <3> HIDE DEF q, s
      <3> QED
        BY <2>2
    <2>6. t \in [1..Len(q) -> Answered]
      <3>1. DOMAIN t = 1..Len(q) /\ t = [j \in 1..Len(q) |-> t[j]]
        <4> HIDE DEF q, s
        <4> QED
          BY <2>2
      <3> HIDE DEF t, q, s
      <3> QED
        BY <2>4, <2>5, <3>1
    <2>7. t \in Seq(Answered) /\ Len(t) = Len(q)
      <3> HIDE DEF t, q, s
      <3> QED
        BY <2>2, <2>6
    <2> HIDE DEF t
    <2> QED
      BY <2>2, <2>3, <2>5, <2>7
  <1>3. seqs \in Seq(Seq(Answered)) /\ Len(seqs) = N
    <2>1. seqs = [i \in 1..N |-> seqs[i]]
      BY <1>1
    <2> HIDE DEF seqs, N
    <2>2. seqs \in [1..N -> Seq(Answered)]
      BY <1>2, <2>1
    <2> QED
      BY <1>1, <2>2
  <1>4. flat = FlattenSeq(seqs)
    BY DEF Merge
  <1> HIDE DEF seqs, N, flat
  <1>5. flat \in Seq(Answered) /\ \E place : Laid(flat, place, seqs, N)
    BY <1>1, <1>3, <1>4, FlattenLays
  <1>6. PICK place : Laid(flat, place, seqs, N)
    BY <1>5
  <1>7. DOMAIN flat = 1..Len(flat)
    BY <1>5
  <1>8. ASSUME NEW s \in Range(ScriptNames)
        PROVE  \E p \in Nat :
                 /\ \A j \in DOMAIN run[s] :
                      /\ p + j \in DOMAIN flat
                      /\ flat[p + j].key = <<s, run[s][j].key>>
                      /\ flat[p + j].outcome = run[s][j].outcome
                 /\ \A m \in DOMAIN flat : \A k :
                      flat[m].key = <<s, k>> => \E j \in DOMAIN run[s] : m = p + j
    <2>1. PICK i \in 1..N : ScriptNames[i] = s
      BY <1>1 DEF Range
    <2>2. place[i] \in Nat
      BY <1>6 DEF Laid
    <2>3. ASSUME NEW j \in DOMAIN run[s]
          PROVE  /\ place[i] + j \in DOMAIN flat
                 /\ flat[place[i] + j].key = <<s, run[s][j].key>>
                 /\ flat[place[i] + j].outcome = run[s][j].outcome
      <3>1. j \in 1..Len(seqs[i]) /\ seqs[i][j].key = <<s, run[s][j].key>>
              /\ seqs[i][j].outcome = run[s][j].outcome
        BY <1>2, <2>1
      <3>2. place[i] + j \in 1..Len(flat) /\ flat[place[i] + j] = seqs[i][j]
        BY <1>6, <3>1 DEF Laid
      <3> QED
        BY <1>7, <3>1, <3>2
    <2>4. ASSUME NEW m \in DOMAIN flat, NEW k, flat[m].key = <<s, k>>
          PROVE  \E j \in DOMAIN run[s] : m = place[i] + j
      <3>1. PICK h \in 1..N : \E j \in 1..Len(seqs[h]) : m = place[h] + j
        BY <1>6, <1>7 DEF Laid
      <3>2. PICK j \in 1..Len(seqs[h]) : m = place[h] + j
        BY <3>1
      <3>3. flat[m] = seqs[h][j]
        BY <1>6, <3>2 DEF Laid
      <3>4. j \in DOMAIN run[ScriptNames[h]] /\ seqs[h][j].key = <<ScriptNames[h], run[ScriptNames[h]][j].key>>
        BY <1>2
      <3>5. ScriptNames[h] = s
        BY <2>4, <3>3, <3>4
      <3>6. h = i
        BY <1>1, <2>1, <3>5, MatrixAssumption
      <3> QED
        BY <2>1, <3>2, <3>4, <3>6
    <2> QED
      BY <2>2, <2>3, <2>4
  <1> QED
    BY <1>5, <1>8 DEF flat

\* So the answer kept for a check is the last its script gave.
LEMMA LookupIsTheLast ==
  ASSUME NEW run \in ColumnRuns, NEW s \in Range(ScriptNames), NEW j \in DOMAIN run[s]
  PROVE  LET key == <<s, run[s][j].key>> IN
           /\ HasKey(Merge(run), key)
           /\ \/ \E k \in DOMAIN run[s] : k > j /\ run[s][k].key = run[s][j].key
              \/ Lookup(Merge(run), key) = run[s][j].outcome
  <1> DEFINE flat == Merge(run)
             q == run[s]
             key == <<s, q[j].key>>
             hits == {i \in DOMAIN flat : flat[i].key = key}
  <1>1. PICK p \in Nat :
          /\ \A l \in DOMAIN q :
               /\ p + l \in DOMAIN flat
               /\ flat[p + l].key = <<s, q[l].key>>
               /\ flat[p + l].outcome = q[l].outcome
          /\ \A m \in DOMAIN flat : \A k : flat[m].key = <<s, k>> => \E l \in DOMAIN q : m = p + l
    BY MergeKeepsAnswers
  <1>2. Len(q) \in Nat /\ DOMAIN q = 1..Len(q)
    BY RunsAreAnswers
  <1> HIDE DEF flat, q
  <1>3. j \in DOMAIN q
    BY DEF q
  <1>4. p + j \in hits
    BY <1>1, <1>3
  <1>5. HasKey(flat, key)
    BY <1>1, <1>3 DEF HasKey
  <1>6. ASSUME ~ \E k \in DOMAIN q : k > j /\ q[k].key = q[j].key PROVE Lookup(flat, key) = q[j].outcome
    <2>1. ASSUME NEW m \in hits PROVE m <= p + j
      <3>1. PICK l \in DOMAIN q : m = p + l
        BY <1>1
      <3>2. flat[m].key = <<s, q[l].key>> /\ flat[m].key = <<s, q[j].key>>
        BY <1>1, <3>1
      <3>3. q[l].key = q[j].key
        BY <3>2
      <3>4. ~(l > j)
        BY <1>6, <3>3
      <3> QED
        BY <1>2, <1>3, <3>1, <3>4
    <2> DEFINE c == CHOOSE i \in hits : \A m \in hits : m <= i
    <2>2. \A m \in hits : m \in Nat
      <3>1. \A l \in DOMAIN q : p + l \in Nat
        BY <1>2
      <3> QED
        BY <1>1, <3>1
    <2>3. hits # {}
      BY <1>4
    <2>4. Lookup(flat, key) = flat[c].outcome
      BY <2>3 DEF Lookup
    <2> HIDE DEF hits
    <2>5. c \in hits /\ \A m \in hits : m <= c
      BY <1>4, <2>1
    <2> HIDE DEF c
    <2>6. c = p + j
      <3>1. c <= p + j /\ p + j <= c /\ c \in Nat /\ p + j \in Nat
        BY <1>4, <2>1, <2>2, <2>5
      <3> QED
        BY <3>1
    <2> QED
      BY <1>1, <1>3, <2>4, <2>6
  <1> QED
    BY <1>5, <1>6 DEF flat, q

-----------------------------------------------------------------------------
(* Sections and headings.                                                  *)

\* The sections, one by one.
LEMMA SectionsAre ==
  ASSUME NEW rs, NEW cmp
  PROVE  LET p == Sections(rs, cmp) IN
           /\ p.unique = [i \in cmp |-> {m \in DOMAIN rs : UniqueTo(rs[m], i, cmp)}]
           /\ p.shared = {m \in DOMAIN rs : SharedFailure(rs[m], cmp)}
           /\ p.disagree = {m \in DOMAIN rs : Differs(rs[m], cmp)}
                             \ (p.shared \cup UNION {p.unique[i] : i \in cmp})
           /\ p.grid = {m \in DOMAIN rs : ~AllSkipped(rs[m], cmp)}
           /\ p.skipped = {m \in DOMAIN rs : AllSkipped(rs[m], cmp)}
  BY DEF Sections, Grid

\* Which sections a row is in.
LEMMA WhereARowIs ==
  ASSUME NEW rs, NEW cmp
  PROVE  LET p == Sections(rs, cmp) IN
           /\ p.shared \subseteq DOMAIN rs /\ p.skipped \subseteq DOMAIN rs /\ p.disagree \subseteq DOMAIN rs
           /\ \A m \in DOMAIN rs :
                /\ m \in p.grid <=> ~AllSkipped(rs[m], cmp)
                /\ m \in p.skipped <=> AllSkipped(rs[m], cmp)
                /\ m \in p.shared <=> SharedFailure(rs[m], cmp)
                /\ \A k \in cmp : m \in p.unique[k] <=> UniqueTo(rs[m], k, cmp)
                /\ m \in p.disagree <=> /\ Differs(rs[m], cmp) /\ ~SharedFailure(rs[m], cmp)
                                        /\ \A k \in cmp : ~UniqueTo(rs[m], k, cmp)
  <1> DEFINE p == Sections(rs, cmp)
  <1>1. /\ p.unique = [k \in cmp |-> {l \in DOMAIN rs : UniqueTo(rs[l], k, cmp)}]
        /\ p.shared = {l \in DOMAIN rs : SharedFailure(rs[l], cmp)}
        /\ p.disagree = {l \in DOMAIN rs : Differs(rs[l], cmp)}
                          \ (p.shared \cup UNION {p.unique[k] : k \in cmp})
        /\ p.grid = {l \in DOMAIN rs : ~AllSkipped(rs[l], cmp)}
        /\ p.skipped = {l \in DOMAIN rs : AllSkipped(rs[l], cmp)}
    BY SectionsAre
  <1> HIDE DEF p
  <1>2. ASSUME NEW m \in DOMAIN rs
        PROVE  /\ m \in p.grid <=> ~AllSkipped(rs[m], cmp)
               /\ m \in p.skipped <=> AllSkipped(rs[m], cmp)
               /\ m \in p.shared <=> SharedFailure(rs[m], cmp)
               /\ \A k \in cmp : m \in p.unique[k] <=> UniqueTo(rs[m], k, cmp)
    BY <1>1
  <1>3. ASSUME NEW m \in DOMAIN rs
        PROVE  m \in p.disagree <=> /\ Differs(rs[m], cmp) /\ ~SharedFailure(rs[m], cmp)
                                     /\ \A k \in cmp : ~UniqueTo(rs[m], k, cmp)
    <2>1. m \in UNION {p.unique[k] : k \in cmp} <=> \E k \in cmp : m \in p.unique[k]
      OBVIOUS
    <2>2. m \in p.disagree <=> /\ Differs(rs[m], cmp) /\ m \notin p.shared
                               /\ m \notin UNION {p.unique[k] : k \in cmp}
      BY <1>1
    <2> QED
      BY <1>2, <2>1, <2>2
  <1>4. p.shared \subseteq DOMAIN rs /\ p.skipped \subseteq DOMAIN rs /\ p.disagree \subseteq DOMAIN rs
    BY <1>1
  <1> QED
    BY <1>2, <1>3, <1>4 DEF p

\* outcomes.compare: every key on which two runs differ is under exactly one heading.
LEMMA HeadingsPartition ==
  ASSUME NEW a, NEW b
  PROVE  LET c == CompareRuns(a, b) IN
           /\ UNION {c[h] : h \in DOMAIN c}
                = {k \in DOMAIN a \cup DOMAIN b :
                     ~(k \in DOMAIN a /\ k \in DOMAIN b /\ a[k] = b[k])}
           /\ \A g, h \in DOMAIN c : g # h => c[g] \cap c[h] = {}
  <1> DEFINE c == CompareRuns(a, b)
             both == DOMAIN a \cap DOMAIN b
  <1>1. DOMAIN c = {"regressed", "fixed", "other", "appeared", "vanished"}
    BY DEF CompareRuns
  <1>2. /\ c["regressed"] = {k \in both : <<a[k], b[k]>> \in Regressions}
        /\ c["fixed"] = {k \in both : a[k] # "PASS" /\ b[k] = "PASS"}
        /\ c["other"] = {k \in both : a[k] # b[k] /\ <<a[k], b[k]>> \notin Regressions /\ b[k] # "PASS"}
        /\ c["appeared"] = DOMAIN b \ DOMAIN a
        /\ c["vanished"] = DOMAIN a \ DOMAIN b
    BY DEF CompareRuns
  <1>3. \A x, y : <<x, y>> \in Regressions => x = "PASS" /\ y \in {"FAIL", "SKIP"}
    BY DEF Regressions
  <1> HIDE DEF c
  <1>4. UNION {c[h] : h \in DOMAIN c}
          = c["regressed"] \cup c["fixed"] \cup c["other"] \cup c["appeared"] \cup c["vanished"]
    BY <1>1
  <1>5. UNION {c[h] : h \in DOMAIN c}
          = {k \in DOMAIN a \cup DOMAIN b : ~(k \in DOMAIN a /\ k \in DOMAIN b /\ a[k] = b[k])}
    BY <1>2, <1>3, <1>4
  <1>6. \A g, h \in DOMAIN c : g # h => c[g] \cap c[h] = {}
    BY <1>1, <1>2, <1>3
  <1> QED
    BY <1>5, <1>6 DEF c

\* Two answers are two.
LEMMA TwoElements ==
  ASSUME NEW x, NEW y, x # y PROVE Cardinality({x, y}) = 2 /\ IsFiniteSet({x, y})
  <1>1. Cardinality({x}) = 1 /\ IsFiniteSet({x})
    BY FS_Singleton
  <1>2. {x} \cup {y} = {x, y} /\ y \notin {x}
    OBVIOUS
  <1>3. IsFiniteSet({x} \cup {y}) /\ Cardinality({x} \cup {y}) = Cardinality({x}) + 1
    BY <1>1, <1>2, FS_AddElement
  <1> QED
    BY <1>1, <1>2, <1>3

\* render_markdown: with two columns or more, a row that failed somewhere is in the grid and
\* in exactly one list.
LEMMA ListedOnce ==
  ASSUME NEW rs, NEW cmp, IsFiniteSet(cmp), Cardinality(cmp) >= 2, NEW m \in DOMAIN rs,
         \E i \in cmp : rs[m].cells[i] = "FAIL"
  PROVE  LET p == Sections(rs, cmp)
             alone == {i \in cmp : m \in p.unique[i]}
         IN  /\ m \in p.grid
             /\ Cardinality(alone) + (IF m \in p.shared THEN 1 ELSE 0)
                  + (IF m \in p.disagree THEN 1 ELSE 0) = 1
  <1> DEFINE p == Sections(rs, cmp)
             row == rs[m]
             alone == {i \in cmp : m \in p.unique[i]}
  <1>1. PICK i \in cmp : row.cells[i] = "FAIL"
    OBVIOUS
  <1>2. PICK j \in cmp : j # i
    <2> SUFFICES ASSUME \A j \in cmp : j = i PROVE FALSE
      OBVIOUS
    <2>1. cmp = {i}
      OBVIOUS
    <2> QED
      BY <2>1, FS_Singleton
  <1>3. /\ alone = {k \in cmp : UniqueTo(row, k, cmp)}
        /\ m \in p.shared <=> SharedFailure(row, cmp)
        /\ m \in p.disagree <=> Differs(row, cmp) /\ m \notin p.shared /\ alone = {}
        /\ m \in p.grid <=> ~AllSkipped(row, cmp)
    <2>1. /\ m \in p.grid <=> ~AllSkipped(row, cmp)
          /\ m \in p.shared <=> SharedFailure(row, cmp)
          /\ \A k \in cmp : m \in p.unique[k] <=> UniqueTo(row, k, cmp)
          /\ m \in p.disagree <=> /\ Differs(row, cmp) /\ ~SharedFailure(row, cmp)
                                  /\ \A k \in cmp : ~UniqueTo(row, k, cmp)
      BY WhereARowIs
    <2> HIDE DEF p, row
    <2> QED
      BY <2>1
  <1>4. ~AllSkipped(row, cmp)
    BY <1>1 DEF AllSkipped, Answers
  <1> HIDE DEF p, row, alone
  <1>5. CASE alone # {}
    <2>1. PICK k \in cmp : UniqueTo(row, k, cmp) /\ k \in alone
      BY <1>3, <1>5
    <2>2. row.cells[k] = "FAIL" /\ \A l \in cmp \ {k} : row.cells[l] = "PASS"
      BY <2>1 DEF UniqueTo
    <2>3. \A l \in alone : l = k
      BY <1>3, <2>2 DEF UniqueTo
    <2>4. alone = {k}
      BY <2>1, <2>3
    <2>5. Cardinality(alone) = 1
      BY <2>4, FS_Singleton
    <2>6. m \notin p.shared
      BY <1>1, <1>2, <1>3, <2>2 DEF SharedFailure
    <2>7. m \notin p.disagree
      BY <1>3, <1>5
    <2> QED
      BY <1>3, <1>4, <2>5, <2>6, <2>7 DEF p, row, alone
  <1>6. CASE alone = {} /\ m \in p.shared
    <2>1. Cardinality(alone) = 0
      BY <1>6, FS_EmptySet
    <2> QED
      BY <1>3, <1>4, <1>6, <2>1 DEF p, row, alone
  <1>7. CASE alone = {} /\ m \notin p.shared
    <2>1. PICK k \in cmp : row.cells[k] # "FAIL"
      BY <1>3, <1>7 DEF SharedFailure
    <2>2. IsFiniteSet(Answers(row, cmp))
      <3> DEFINE f == [l \in cmp |-> row.cells[l]]
      <3>1. f \in Surjection(cmp, Answers(row, cmp))
        BY DEF Surjection, Answers
      <3> QED
        BY <3>1, FS_Surjection
    <2>3. "FAIL" \in Answers(row, cmp) /\ row.cells[k] \in Answers(row, cmp)
      BY <1>1, <2>1 DEF Answers
    <2>4. Cardinality({"FAIL", row.cells[k]}) = 2 /\ IsFiniteSet({"FAIL", row.cells[k]})
      BY <2>1, TwoElements
    <2>5. 2 <= Cardinality(Answers(row, cmp)) /\ Cardinality(Answers(row, cmp)) \in Nat
      <3>1. {"FAIL", row.cells[k]} \subseteq Answers(row, cmp)
        BY <2>3
      <3> QED
        BY <2>2, <2>4, <3>1, FS_Subset, FS_CardinalityType
    <2>6. m \in p.disagree
      BY <1>3, <1>7, <2>5 DEF Differs
    <2>7. Cardinality(alone) = 0
      BY <1>7, FS_EmptySet
    <2> QED
      BY <1>3, <1>4, <1>7, <2>6, <2>7 DEF p, row, alone
  <1> QED
    BY <1>5, <1>6, <1>7

-----------------------------------------------------------------------------
(* Columns renumbered.                                                     *)

\* anew is the row with the columns f lists, in that order.
Renumbered(row, anew, f, N) == \A q \in 1..N : anew.cells[q] = row.cells[f[q]]

\* A row keeps its sections when the columns compared are numbered anew.
LEMMA RenumberingKeepsSections ==
  ASSUME NEW C, IsFiniteSet(C), NEW N \in Nat, N = Cardinality(C), NEW f \in Bijection(1..N, C),
         NEW row, NEW anew, Renumbered(row, anew, f, N)
  PROVE  /\ AllSkipped(row, C) <=> AllSkipped(anew, 1..N)
         /\ Differs(row, C) <=> Differs(anew, 1..N)
         /\ SharedFailure(row, C) <=> SharedFailure(anew, 1..N)
         /\ (\E i \in C : UniqueTo(row, i, C)) <=> (\E q \in 1..N : UniqueTo(anew, q, 1..N))
  <1>1. /\ \A q \in 1..N : f[q] \in C
        /\ \A p, q \in 1..N : f[p] = f[q] => p = q
        /\ \A i \in C : \E q \in 1..N : f[q] = i
        /\ \A q \in 1..N : anew.cells[q] = row.cells[f[q]]
    BY DEF Renumbered, Bijection, Injection, IsInjective, Surjection
  <1>2. Answers(row, C) = Answers(anew, 1..N)
    <2>1. ASSUME NEW i \in C PROVE row.cells[i] \in Answers(anew, 1..N)
      <3>1. PICK q \in 1..N : f[q] = i
        BY <1>1
      <3> QED
        BY <1>1, <3>1 DEF Answers
    <2>2. ASSUME NEW q \in 1..N PROVE anew.cells[q] \in Answers(row, C)
      BY <1>1 DEF Answers
    <2> QED
      BY <2>1, <2>2 DEF Answers
  <1>3. C # {} <=> 1..N # {}
    BY <1>1
  <1>4. Cardinality(1..N) = Cardinality(C)
    BY FS_Interval
  <1>5. AllSkipped(row, C) <=> AllSkipped(anew, 1..N)
    BY <1>2, <1>3 DEF AllSkipped
  <1>6. Differs(row, C) <=> Differs(anew, 1..N)
    BY <1>2 DEF Differs
  <1>7. SharedFailure(row, C) <=> SharedFailure(anew, 1..N)
    <2>1. (\A i \in C : row.cells[i] = "FAIL") <=> (\A q \in 1..N : anew.cells[q] = "FAIL")
      BY <1>1
    <2> QED
      BY <1>4, <2>1 DEF SharedFailure
  <1>8. ASSUME NEW q \in 1..N PROVE UniqueTo(row, f[q], C) <=> UniqueTo(anew, q, 1..N)
    <2>1. f[q] \in C /\ anew.cells[q] = row.cells[f[q]]
      BY <1>1
    <2>2. C \ {f[q]} # {} <=> (1..N) \ {q} # {}
      <3>1. ASSUME NEW i \in C \ {f[q]} PROVE (1..N) \ {q} # {}
        BY <1>1
      <3>2. ASSUME NEW p \in (1..N) \ {q} PROVE C \ {f[q]} # {}
        BY <1>1
      <3> QED
        BY <3>1, <3>2
    <2>3. (\A i \in C \ {f[q]} : row.cells[i] = "PASS") <=> (\A p \in (1..N) \ {q} : anew.cells[p] = "PASS")
      <3>1. ASSUME \A i \in C \ {f[q]} : row.cells[i] = "PASS", NEW p \in (1..N) \ {q}
            PROVE  anew.cells[p] = "PASS"
        BY <1>1, <3>1
      <3>2. ASSUME \A p \in (1..N) \ {q} : anew.cells[p] = "PASS", NEW i \in C \ {f[q]}
            PROVE  row.cells[i] = "PASS"
        <4>1. PICK p \in 1..N : f[p] = i
          BY <1>1
        <4> QED
          BY <1>1, <3>2, <4>1
      <3> QED
        BY <3>1, <3>2
    <2> QED
      BY <2>1, <2>2, <2>3 DEF UniqueTo
  <1>9. (\E i \in C : UniqueTo(row, i, C)) <=> (\E q \in 1..N : UniqueTo(anew, q, 1..N))
    <2>1. ASSUME NEW i \in C, UniqueTo(row, i, C) PROVE \E q \in 1..N : UniqueTo(anew, q, 1..N)
      <3>1. PICK q \in 1..N : f[q] = i
        BY <1>1
      <3> QED
        BY <1>8, <2>1, <3>1
    <2>2. ASSUME NEW q \in 1..N, UniqueTo(anew, q, 1..N) PROVE \E i \in C : UniqueTo(row, i, C)
      BY <1>1, <1>8, <2>2
    <2> QED
      BY <2>1, <2>2
  <1> QED
    BY <1>5, <1>6, <1>7, <1>9

-----------------------------------------------------------------------------
(* The invariant.                                                          *)

\* Each table is what the step that made it makes of the table before it.
MatrixInv ==
  /\ phase \in {"reports", "merged", "built", "rendered"}
  /\ runs \in [1..Width -> ColumnRuns]
  /\ phase # "reports" =>
       DOMAIN columns = 1..Width /\ \A i \in 1..Width : columns[i].results = Merge(runs[i])
  /\ phase \in {"built", "rendered"} => rows = Build(columns)
  /\ phase = "rendered" => page = Sections(rows, Compared(columns)) /\ printed = Printed(page)

\* The invariant holds at first and every step keeps it.
LEMMA MatrixInvHolds == MatrixSpec => []MatrixInv
  <1>1. MatrixInit => MatrixInv
    BY DEF MatrixInit, MatrixInv, ColumnRuns
  <1>2. MatrixInv /\ [MatrixNext]_matrixVars => MatrixInv'
    <2> SUFFICES ASSUME MatrixInv, [MatrixNext]_matrixVars PROVE MatrixInv'
      OBVIOUS
    <2> USE DEF MatrixInv
    <2>1. CASE MergeColumns
      <3>1. PICK declared \in [1..Width -> {"", "errored"}] :
              columns' = [i \in 1..Width |->
                [results |-> Merge(runs[i]), status |-> Status(declared[i], Merge(runs[i]))]]
        BY <2>1 DEF MergeColumns
      <3>2. phase' = "merged" /\ runs' = runs
        BY <2>1 DEF MergeColumns
      <3>3. DOMAIN columns' = 1..Width /\ \A i \in 1..Width : columns'[i].results = Merge(runs[i])
        BY <3>1
      <3>4. \A i \in 1..Width : Merge(runs[i])' = Merge(runs[i])
        BY <3>2 DEF Merge
      <3> QED
        BY <3>2, <3>3, <3>4
    <2>2. CASE BuildRows
      <3>1. /\ phase = "merged" /\ phase' = "built" /\ runs' = runs /\ columns' = columns
            /\ rows' = Build(columns)
        BY <2>2 DEF BuildRows
      <3>2. Build(columns)' = Build(columns) /\ \A i \in 1..Width : Merge(runs[i])' = Merge(runs[i])
        BY <3>1
      <3> QED
        BY <3>1, <3>2
    <2>3. CASE Render
      <3>1. /\ phase = "built" /\ phase' = "rendered" /\ runs' = runs /\ columns' = columns
            /\ rows' = rows /\ page' = Sections(rows, Compared(columns)) /\ printed' = Printed(page')
        BY <2>3 DEF Render
      <3>2. /\ Build(columns)' = Build(columns) /\ \A i \in 1..Width : Merge(runs[i])' = Merge(runs[i])
            /\ Sections(rows, Compared(columns))' = Sections(rows, Compared(columns))
        BY <3>1
      <3> QED
        BY <3>1, <3>2
    <2>4. CASE UNCHANGED matrixVars
      <3>1. /\ phase' = phase /\ runs' = runs /\ columns' = columns
            /\ rows' = rows /\ page' = page /\ printed' = printed
        BY <2>4 DEF matrixVars
      <3>2. /\ Build(columns)' = Build(columns) /\ \A i \in 1..Width : Merge(runs[i])' = Merge(runs[i])
            /\ Sections(rows, Compared(columns))' = Sections(rows, Compared(columns))
            /\ Printed(page)' = Printed(page)
        BY <3>1
      <3> QED
        BY <3>1, <3>2
    <2> QED
      BY <2>1, <2>2, <2>3, <2>4 DEF MatrixNext
  <1> QED
    BY <1>1, <1>2, PTL DEF MatrixSpec

\* The columns are those build may be given, and the compared ones are some of them.
LEMMA ColumnsAreColumns ==
  ASSUME MatrixInv, phase # "reports"
  PROVE  /\ AreColumns(columns, Answered) /\ DOMAIN columns = 1..Width
         /\ Compared(columns) \subseteq 1..Width /\ Compared(columns) \subseteq Nat
         /\ IsFiniteSet(Compared(columns))
  <1>1. DOMAIN columns = 1..Width /\ \A i \in 1..Width : columns[i].results = Merge(runs[i])
    BY DEF MatrixInv
  <1>2. Width \in Nat
    BY MatrixAssumption
  <1>3. \A i \in 1..Width : Merge(runs[i]) \in Seq(Answered)
    BY MergeKeepsAnswers DEF MatrixInv
  <1>4. AreColumns(columns, Answered)
    BY <1>1, <1>2, <1>3 DEF AreColumns
  <1>5. Compared(columns) \subseteq 1..Width
    BY <1>1 DEF Compared
  <1>6. IsFiniteSet(1..Width)
    BY <1>2, FS_Interval
  <1>7. IsFiniteSet(Compared(columns))
    BY <1>5, <1>6, FS_Subset
  <1> QED
    BY <1>1, <1>2, <1>4, <1>5, <1>7

-----------------------------------------------------------------------------
(* The properties.                                                         *)

\* A section that is cut says so.
LEMMA CutsAreSaid ==
  ASSUME NEW S, IsFiniteSet(S), NEW n \in S
  PROVE  Shows(Table(S), S, n)
  <1> DEFINE T == FirstRows(S)
  <1>1. T \subseteq S
    BY DEF FirstRows
  <1>2. IsFiniteSet(T) /\ Cardinality(T) \in Nat /\ Cardinality(S) \in Nat
    BY <1>1, FS_Subset, FS_CardinalityType
  <1>3. n \in T \/ Cardinality(S) - Cardinality(T) > 0
    <2>1. ASSUME n \notin T PROVE Cardinality(T) < Cardinality(S)
      <3>1. T # S
        BY <2>1
      <3> HIDE DEF T
      <3> QED
        BY <1>1, <1>2, <3>1, FS_Subset
    <2> HIDE DEF T
    <2> QED
      BY <1>2, <2>1
  <1>4. ASSUME Cardinality(S) <= MaxRows PROVE T = S
    <2>1. ASSUME NEW m \in S PROVE Cardinality({k \in S : k <= m}) <= MaxRows
      <3> DEFINE upto == {k \in S : k <= m}
      <3>1. upto \subseteq S
        OBVIOUS
      <3> HIDE DEF upto
      <3>2. Cardinality(upto) <= Cardinality(S) /\ Cardinality(upto) \in Nat
        BY <3>1, FS_Subset, FS_CardinalityType
      <3>3. MaxRows \in Nat
        BY MatrixAssumption DEF MatrixAssumption
      <3>4. Cardinality(upto) <= MaxRows
        BY <1>2, <1>4, <3>2, <3>3
      <3> QED
        BY <3>4 DEF upto
    <2> QED
      BY <2>1 DEF FirstRows
  <1>5. Table(S).rows = T /\ Table(S).more = Cardinality(S) - Cardinality(T)
    BY DEF Table
  <1> HIDE DEF T
  <1> QED
    BY <1>3, <1>4, <1>5 DEF Shows

\* render_markdown lists a failure once.
LEMMA FailuresListed == ASSUME MatrixInv PROVE FailuresAreListedOnce
  <1> SUFFICES ASSUME phase = "rendered", Cardinality(Compared(columns)) >= 2,
                      NEW n \in DOMAIN rows, \E i \in Compared(columns) : rows[n].cells[i] = "FAIL"
               PROVE  LET alone == {i \in Compared(columns) : n \in page.unique[i]} IN
                        /\ n \in page.grid
                        /\ Cardinality(alone) + (IF n \in page.shared THEN 1 ELSE 0)
                             + (IF n \in page.disagree THEN 1 ELSE 0) = 1
                        /\ \A i \in alone : Shows(printed.unique[i], page.unique[i], n)
                        /\ n \in page.shared => Shows(printed.shared, page.shared, n)
                        /\ n \in page.disagree => Shows(printed.disagree, page.disagree, n)
    BY DEF FailuresAreListedOnce
  <1>1. IsFiniteSet(Compared(columns)) /\ AreColumns(columns, Answered)
    BY ColumnsAreColumns
  <1>2. page = Sections(rows, Compared(columns)) /\ printed = Printed(page) /\ rows = Build(columns)
    BY DEF MatrixInv
  <1> DEFINE C == Compared(columns)
  <1>3. C = Compared(columns)
    OBVIOUS
  <1> HIDE DEF C
  <1>4. IsFiniteSet(C) /\ Cardinality(C) >= 2 /\ \E i \in C : rows[n].cells[i] = "FAIL"
    BY <1>1, <1>3
  <1>5. LET p == Sections(rows, C)
            alone == {i \in C : n \in p.unique[i]}
        IN  /\ n \in p.grid
            /\ Cardinality(alone) + (IF n \in p.shared THEN 1 ELSE 0)
                 + (IF n \in p.disagree THEN 1 ELSE 0) = 1
    BY <1>4, ListedOnce
  <1>6. IsFiniteSet(DOMAIN rows)
    BY <1>1, <1>2, BuildKeepsKeys
  <1>7. /\ page.shared \subseteq DOMAIN rows /\ page.disagree \subseteq DOMAIN rows
        /\ DOMAIN page.unique = C /\ \A i \in C : page.unique[i] \subseteq DOMAIN rows
    <2>1. page = Sections(rows, C)
      BY <1>2, <1>3
    <2>2. page.unique = [k \in C |-> {l \in DOMAIN rows : UniqueTo(rows[l], k, C)}]
      BY <2>1, SectionsAre
    <2>3. page.shared \subseteq DOMAIN rows /\ page.disagree \subseteq DOMAIN rows
      BY <2>1, WhereARowIs
    <2> QED
      BY <2>2, <2>3
  <1>8. /\ \A i \in C : printed.unique[i] = Table(page.unique[i])
        /\ printed.shared = Table(page.shared) /\ printed.disagree = Table(page.disagree)
    BY <1>2, <1>7 DEF Printed
  <1>9. ASSUME NEW i \in C, n \in page.unique[i] PROVE Shows(printed.unique[i], page.unique[i], n)
    <2>1. IsFiniteSet(page.unique[i])
      BY <1>6, <1>7, FS_Subset
    <2> QED
      BY <1>8, <1>9, <2>1, CutsAreSaid
  <1>10. ASSUME n \in page.shared PROVE Shows(printed.shared, page.shared, n)
    <2>1. IsFiniteSet(page.shared)
      BY <1>6, <1>7, FS_Subset
    <2> QED
      BY <1>8, <1>10, <2>1, CutsAreSaid
  <1>11. ASSUME n \in page.disagree PROVE Shows(printed.disagree, page.disagree, n)
    <2>1. IsFiniteSet(page.disagree)
      BY <1>6, <1>7, FS_Subset
    <2> QED
      BY <1>8, <1>11, <2>1, CutsAreSaid
  <1> QED
    BY <1>2, <1>3, <1>5, <1>9, <1>10, <1>11

\* merge and build keep every answer that was not given again.
LEMMA AnswersKept == ASSUME MatrixInv PROVE RowsKeepAnswers
  <1> SUFFICES ASSUME phase = "built", NEW i \in DOMAIN runs, NEW s \in Range(ScriptNames),
                      NEW j \in DOMAIN runs[i][s]
               PROVE  LET key == <<s, runs[i][s][j].key>>
                          again == \E k \in DOMAIN runs[i][s] : k > j /\ runs[i][s][k].key = key[2]
                      IN  /\ Cardinality({n \in DOMAIN rows : rows[n].key = key}) = 1
                          /\ again \/ \E n \in DOMAIN rows :
                               rows[n].key = key /\ rows[n].cells[i] = runs[i][s][j].outcome
    BY DEF RowsKeepAnswers
  <1> DEFINE key == <<s, runs[i][s][j].key>>
             again == \E k \in DOMAIN runs[i][s] : k > j /\ runs[i][s][k].key = runs[i][s][j].key
  <1>1. i \in 1..Width /\ runs[i] \in ColumnRuns
    BY DEF MatrixInv
  <1>2. i \in DOMAIN columns /\ columns[i].results = Merge(runs[i]) /\ rows = Build(columns)
    BY <1>1 DEF MatrixInv
  <1>3. AreColumns(columns, Answered)
    BY ColumnsAreColumns
  <1>4. HasKey(columns[i].results, key) /\ (again \/ Lookup(columns[i].results, key) = runs[i][s][j].outcome)
    BY <1>1, <1>2, LookupIsTheLast
  <1>5. /\ \A m, n \in DOMAIN rows : rows[m].key = rows[n].key => m = n
        /\ \A c : (\E n \in DOMAIN rows : rows[n].key = c)
                    <=> \E k \in DOMAIN columns : HasKey(columns[k].results, c)
        /\ \A n \in DOMAIN rows, k \in DOMAIN columns :
             rows[n].cells[k] = Lookup(columns[k].results, rows[n].key)
        /\ IsFiniteSet(DOMAIN rows)
    <2> HIDE DEF key, again
    <2>1. rows = Build(columns)
      BY <1>2
    <2> QED
      BY <2>1, <1>3, BuildKeepsKeys
  <1>6. key[2] = runs[i][s][j].key
    OBVIOUS
  <1> HIDE DEF key, again
  <1>7. PICK n \in DOMAIN rows : rows[n].key = key
    BY <1>2, <1>4, <1>5
  <1>8. {m \in DOMAIN rows : rows[m].key = key} = {n}
    BY <1>5, <1>7
  <1>9. Cardinality({m \in DOMAIN rows : rows[m].key = key}) = 1
    BY <1>8, FS_Singleton
  <1>10. again \/ rows[n].cells[i] = runs[i][s][j].outcome
    BY <1>2, <1>4, <1>5, <1>7
  <1> QED
    BY <1>6, <1>7, <1>9, <1>10 DEF key, again

\* outcomes.compare files a difference once.
LEMMA ChangesListed == ASSUME MatrixInv PROVE ChangesAreListedOnce
  BY HeadingsPartition DEF ChangesAreListedOnce

\* A row that remains when the columns that did not run are left out stays where it is.
LEMMA DeadDecideNothing == ASSUME MatrixInv PROVE DeadColumnsDecideNothing
  <1> DEFINE C == Compared(columns)
             N == Cardinality(C)
             f == InOrder(C)
             rest == Build(Living)
             alive == Sections(rest, DOMAIN Living)
             live == DOMAIN Living
  <1> SUFFICES ASSUME phase = "rendered"
               PROVE  /\ {rows[n].key : n \in page.shared} \cap {rest[n].key : n \in DOMAIN rest}
                           = {rest[n].key : n \in alive.shared}
                      /\ {rows[n].key : n \in page.disagree} \cap {rest[n].key : n \in DOMAIN rest}
                           = {rest[n].key : n \in alive.disagree}
                      /\ {rows[n].key : n \in page.skipped} \cap {rest[n].key : n \in DOMAIN rest}
                           = {rest[n].key : n \in alive.skipped}
    BY DEF DeadColumnsDecideNothing
  <1>1. /\ AreColumns(columns, Answered) /\ DOMAIN columns = 1..Width
        /\ C \subseteq 1..Width /\ C \subseteq Nat /\ IsFiniteSet(C)
    BY ColumnsAreColumns
  <1>2. rows = Build(columns) /\ page = Sections(rows, C)
    BY DEF MatrixInv
  <1>3. N \in Nat
    BY <1>1, FS_CardinalityType
  <1>4. f \in Bijection(1..N, C)
    <2> HIDE DEF C
    <2> QED
      BY <1>1, InOrderLists
  <1>5. DOMAIN Living = 1..N /\ \A q \in 1..N : Living[q] = columns[f[q]]
    BY DEF Living
  <1> HIDE DEF C, N, f
  <1>6. \A q \in 1..N : f[q] \in C /\ f[q] \in DOMAIN columns
    BY <1>1, <1>4 DEF Bijection, Injection
  <1>7. \A i \in DOMAIN columns : columns[i].results \in Seq(Answered)
    BY <1>1 DEF AreColumns
  <1>8. AreColumns(Living, Answered)
    BY <1>3, <1>5, <1>6, <1>7 DEF AreColumns
  <1>9. /\ \A m, n \in DOMAIN rows : rows[m].key = rows[n].key => m = n
        /\ \A key : (\E n \in DOMAIN rows : rows[n].key = key)
                      <=> \E i \in DOMAIN columns : HasKey(columns[i].results, key)
        /\ \A n \in DOMAIN rows, i \in DOMAIN columns : rows[n].cells[i] = Lookup(columns[i].results, rows[n].key)
        /\ IsFiniteSet(DOMAIN rows)
    <2>1. AreColumns(columns, Answered)
      BY <1>1
    <2> QED
      BY <1>2, <2>1, BuildKeepsKeys
  <1>10. /\ \A key : (\E n \in DOMAIN rest : rest[n].key = key)
                       <=> \E q \in DOMAIN Living : HasKey(Living[q].results, key)
         /\ \A n \in DOMAIN rest, q \in DOMAIN Living : rest[n].cells[q] = Lookup(Living[q].results, rest[n].key)
    BY <1>8, BuildKeepsKeys
  <1> HIDE DEF rest
  <1>11. ASSUME NEW m \in DOMAIN rest PROVE \E n \in DOMAIN rows : rows[n].key = rest[m].key
    <2>1. PICK q \in DOMAIN Living : HasKey(Living[q].results, rest[m].key)
      BY <1>10
    <2>2. f[q] \in DOMAIN columns /\ HasKey(columns[f[q]].results, rest[m].key)
      BY <1>5, <1>6, <2>1
    <2> QED
      BY <1>9, <2>2
  <1>12. ASSUME NEW n \in DOMAIN rows, NEW m \in DOMAIN rest, rows[n].key = rest[m].key
         PROVE  /\ n \in page.shared <=> m \in alive.shared
                /\ n \in page.disagree <=> m \in alive.disagree
                /\ n \in page.skipped <=> m \in alive.skipped
    <2>1. \A q \in 1..N : rest[m].cells[q] = rows[n].cells[f[q]]
      <3> TAKE q \in 1..N
      <3>1. rest[m].cells[q] = Lookup(columns[f[q]].results, rest[m].key)
        BY <1>5, <1>10
      <3>2. rows[n].cells[f[q]] = Lookup(columns[f[q]].results, rows[n].key)
        BY <1>6, <1>9
      <3> QED
        BY <1>12, <3>1, <3>2
    <2>2. /\ AllSkipped(rows[n], C) <=> AllSkipped(rest[m], 1..N)
          /\ Differs(rows[n], C) <=> Differs(rest[m], 1..N)
          /\ SharedFailure(rows[n], C) <=> SharedFailure(rest[m], 1..N)
          /\ (\E i \in C : UniqueTo(rows[n], i, C)) <=> (\E q \in 1..N : UniqueTo(rest[m], q, 1..N))
      <3> DEFINE row == rows[n]
                 anew == rest[m]
      <3>1. N = Cardinality(C) /\ IsFiniteSet(C) /\ Renumbered(row, anew, f, N)
        BY <1>1, <2>1 DEF N, Renumbered
      <3> HIDE DEF row, anew
      <3>2. /\ AllSkipped(row, C) <=> AllSkipped(anew, 1..N)
            /\ Differs(row, C) <=> Differs(anew, 1..N)
            /\ SharedFailure(row, C) <=> SharedFailure(anew, 1..N)
            /\ (\E i \in C : UniqueTo(row, i, C)) <=> (\E q \in 1..N : UniqueTo(anew, q, 1..N))
        BY <1>3, <1>4, <3>1, RenumberingKeepsSections
      <3> QED
        BY <3>2 DEF row, anew
    <2>3. /\ n \in page.skipped <=> AllSkipped(rows[n], C)
          /\ n \in page.shared <=> SharedFailure(rows[n], C)
          /\ n \in page.disagree <=> /\ Differs(rows[n], C) /\ ~SharedFailure(rows[n], C)
                                     /\ \A k \in C : ~UniqueTo(rows[n], k, C)
      BY <1>2, WhereARowIs
    <2>4. /\ m \in alive.skipped <=> AllSkipped(rest[m], 1..N)
          /\ m \in alive.shared <=> SharedFailure(rest[m], 1..N)
          /\ m \in alive.disagree <=> /\ Differs(rest[m], 1..N) /\ ~SharedFailure(rest[m], 1..N)
                                      /\ \A q \in 1..N : ~UniqueTo(rest[m], q, 1..N)
      BY <1>5, WhereARowIs
    <2> HIDE DEF alive
    <2> QED
      BY <2>2, <2>3, <2>4
  <1>13. /\ page.shared \subseteq DOMAIN rows /\ page.skipped \subseteq DOMAIN rows
         /\ page.disagree \subseteq DOMAIN rows
    BY <1>2, WhereARowIs
  <1>14. /\ alive.shared \subseteq DOMAIN rest /\ alive.skipped \subseteq DOMAIN rest
         /\ alive.disagree \subseteq DOMAIN rest
    BY WhereARowIs
  <1> HIDE DEF alive
  <1>15. ASSUME NEW a, NEW b, a \subseteq DOMAIN rows, b \subseteq DOMAIN rest,
                \A n \in DOMAIN rows, m \in DOMAIN rest : rows[n].key = rest[m].key => (n \in a <=> m \in b)
         PROVE  {rows[n].key : n \in a} \cap {rest[n].key : n \in DOMAIN rest} = {rest[n].key : n \in b}
    <2>1. ASSUME NEW n \in a, NEW m \in DOMAIN rest, rows[n].key = rest[m].key
          PROVE  rows[n].key \in {rest[l].key : l \in b}
      BY <1>15, <2>1
    <2>2. ASSUME NEW m \in b
          PROVE  rest[m].key \in {rows[n].key : n \in a} /\ rest[m].key \in {rest[n].key : n \in DOMAIN rest}
      <3>1. m \in DOMAIN rest
        BY <1>15
      <3>2. PICK n \in DOMAIN rows : rows[n].key = rest[m].key
        BY <1>11, <3>1
      <3>3. n \in a
        BY <1>15, <3>1, <3>2
      <3> QED
        BY <3>1, <3>2, <3>3
    <2> QED
      BY <2>1, <2>2
  <1> QED
    BY <1>12, <1>13, <1>14, <1>15

\* What the scripts reported reaches the tables: every answer its row, every failure one
\* section, which prints it or says how many rows it leaves out, every change one heading,
\* and columns that did not run move nothing.
THEOREM TheTablesLoseNothing == MatrixSpec => []TablesLoseNothing
  <1>1. MatrixInv => TablesLoseNothing
    BY FailuresListed, AnswersKept, ChangesListed, DeadDecideNothing DEF TablesLoseNothing
  <1> QED
    BY <1>1, MatrixInvHolds, PTL
=============================================================================
