------------------------------- MODULE Matrix --------------------------------
(***************************************************************************)
(* The comparison: aggregate.merge folds a run's script reports into a     *)
(* column, aggregate.build lines columns up into rows, render_markdown and *)
(* the page sort the rows into sections, and outcomes.compare says what    *)
(* changed between two runs.  A result is a check's key and its outcome.   *)
(***************************************************************************)
EXTENDS Integers, Sequences, FiniteSets, SequencesExt

CONSTANTS
  ScriptNames,  \* the scripts of a column, in the order they ran
  Reports,      \* the results a script may leave: sequences of [key, outcome]
  Width,        \* how many implementations are compared
  MaxRows       \* max_rows: how many rows of a section render_markdown prints

Gap == "-"

\* suite.SCRIPTS: a script is listed once.
ASSUME MatrixAssumption ==
  /\ Width \in Nat /\ MaxRows \in Nat
  /\ ScriptNames \in Seq(Range(ScriptNames))
  /\ \A i, j \in DOMAIN ScriptNames : ScriptNames[i] = ScriptNames[j] => i = j
  /\ \A results \in Reports : results \in Seq(Range(results))

VARIABLES
  phase,    \* "reports", then "merged", "built" and "rendered"
  runs,     \* per column, script -> its results, or NoReport
  columns,  \* per column, what merge made of them and its status
  rows,     \* what build made of the columns
  page,     \* the sections the rows were sorted into
  printed   \* what render_markdown prints of each

matrixVars == <<phase, runs, columns, rows, page, printed>>

NoReport == <<>>

-----------------------------------------------------------------------------
(* aggregate.py.                                                           *)

\* Mutant of Merge: a key does not say which script it is from.
MergeUnprefixed(run) ==
  FlattenSeq([i \in DOMAIN ScriptNames |->
    [j \in DOMAIN run[ScriptNames[i]] |->
       [key |-> <<"", run[ScriptNames[i]][j].key>>,
        outcome |-> run[ScriptNames[i]][j].outcome]]])

\* merge: results in script order, keys prefixed with their script.
Merge(run) ==
  FlattenSeq([i \in DOMAIN ScriptNames |->
    [j \in DOMAIN run[ScriptNames[i]] |->
       [key |-> <<ScriptNames[i], run[ScriptNames[i]][j].key>>,
        outcome |-> run[ScriptNames[i]][j].outcome]]])

\* status: what the column declares, else "ok" if it carries results.
Status(declared, results) ==
  IF declared # "" THEN declared ELSE IF results # <<>> THEN "ok" ELSE "not-run"

\* A dict built over the results: a key met again replaces the earlier answer.
Lookup(results, key) ==
  LET hits == {i \in DOMAIN results : results[i].key = key} IN
    IF hits = {} THEN Gap ELSE results[CHOOSE i \in hits : \A j \in hits : j <= i].outcome

\* The members of a finite set of numbers, in order.
InOrder(S) == [n \in 1..Cardinality(S) |-> CHOOSE i \in S : Cardinality({j \in S : j <= i}) = n]

\* The union of the keys, in the order of the first column that has each.
AllKeys(cols) ==
  FlattenSeq([i \in DOMAIN cols |-> [j \in DOMAIN cols[i].results |-> cols[i].results[j].key]])
Firsts(keys) == {i \in DOMAIN keys : \A j \in 1..(i - 1) : keys[j] # keys[i]}
KeysInOrder(cols) ==
  LET keys == AllKeys(cols)
      firsts == InOrder(Firsts(keys))
  IN [n \in DOMAIN firsts |-> keys[firsts[n]]]

Compared(cols) == {i \in DOMAIN cols : cols[i].status = "ok"}

Build(cols) ==
  LET keys == KeysInOrder(cols) IN
    [n \in DOMAIN keys |->
       [key |-> keys[n], cells |-> [i \in DOMAIN cols |-> Lookup(cols[i].results, keys[n])]]]

\* Row and Matrix.  Only columns that are "ok" are compared; a gap in one counts.
Answers(row, cmp) == {row.cells[i] : i \in cmp}
Differs(row, cmp) == Cardinality(Answers(row, cmp)) > 1
AllSkipped(row, cmp) == cmp # {} /\ Answers(row, cmp) = {"SKIP"}
UniqueTo(row, i, cmp) ==
  cmp \ {i} # {} /\ row.cells[i] = "FAIL" /\ \A j \in cmp \ {i} : row.cells[j] = "PASS"
SharedFailure(row, cmp) == Cardinality(cmp) >= 2 /\ \A i \in cmp : row.cells[i] = "FAIL"

\* The page hides the rows skipped everywhere from its grid and lists them under it.
Grid(rs, cmp) == {n \in DOMAIN rs : ~AllSkipped(rs[n], cmp)}

\* render_markdown: unique failures per column, shared ones, the other
\* disagreements, skips, then the full grid.
Sections(rs, cmp) ==
  LET some(P(_)) == {n \in DOMAIN rs : P(rs[n])}
      unique == [i \in cmp |-> some(LAMBDA r : UniqueTo(r, i, cmp))]
      shared == some(LAMBDA r : SharedFailure(r, cmp))
      skipped == some(LAMBDA r : AllSkipped(r, cmp))
  IN [ unique |-> unique, shared |-> shared, skipped |-> skipped,
       disagree |-> some(LAMBDA r : Differs(r, cmp)) \ (shared \cup UNION {unique[i] : i \in cmp}),
       grid |-> Grid(rs, cmp) ]

\* section: the first rows, and how many more there are.
FirstRows(S) == {n \in S : Cardinality({m \in S : m <= n}) <= MaxRows}
Table(S) == [rows |-> FirstRows(S), more |-> Cardinality(S) - Cardinality(FirstRows(S))]

\* The rows skipped everywhere are cut as well, and nothing says so.
Printed(p) ==
  [ unique |-> [i \in DOMAIN p.unique |-> Table(p.unique[i])],
    shared |-> Table(p.shared), disagree |-> Table(p.disagree),
    skipped |-> [rows |-> FirstRows(p.skipped), more |-> 0] ]

-----------------------------------------------------------------------------
(* tools/outcomes.py.                                                      *)

\* outcomes: key -> outcome, for one column; nothing for one that did not run.
OutcomesOf(col) ==
  IF col.status # "ok" THEN <<>>
  ELSE [k \in {col.results[j].key : j \in DOMAIN col.results} |-> Lookup(col.results, k)]

Regressions == {<<"PASS", "FAIL">>, <<"PASS", "SKIP">>}

\* compare, for a column that is in both runs: a is the earlier.
CompareRuns(a, b) ==
  LET both == DOMAIN a \cap DOMAIN b IN
  [ regressed |-> {k \in both : <<a[k], b[k]>> \in Regressions},
    fixed |-> {k \in both : a[k] # "PASS" /\ b[k] = "PASS"},
    other |-> {k \in both : a[k] # b[k] /\ <<a[k], b[k]>> \notin Regressions /\ b[k] # "PASS"},
    appeared |-> DOMAIN b \ DOMAIN a,
    vanished |-> DOMAIN a \ DOMAIN b ]

-----------------------------------------------------------------------------
(* A comparison, step by step.                                             *)

NoPage == [unique |-> <<>>, shared |-> {}, skipped |-> {}, disagree |-> {}, grid |-> {}]

MatrixInit ==
  /\ phase = "reports"
  /\ runs \in [1..Width -> [Range(ScriptNames) -> Reports \cup {NoReport}]]
  /\ columns = <<>> /\ rows = <<>> /\ page = NoPage /\ printed = Printed(NoPage)

\* compare.py or normalise_reports.py: a leg may have declared a status of its own.
MergeColumns ==
  /\ phase = "reports"
  /\ phase' = "merged"
  /\ \E declared \in [1..Width -> {"", "errored"}] :
       columns' = [i \in 1..Width |->
         [results |-> Merge(runs[i]), status |-> Status(declared[i], Merge(runs[i]))]]
  /\ UNCHANGED <<runs, rows, page, printed>>

BuildRows ==
  /\ phase = "merged"
  /\ phase' = "built"
  /\ rows' = Build(columns)
  /\ UNCHANGED <<runs, columns, page, printed>>

Render ==
  /\ phase = "built"
  /\ phase' = "rendered"
  /\ page' = Sections(rows, Compared(columns))
  /\ printed' = Printed(page')
  /\ UNCHANGED <<runs, columns, rows>>

MatrixNext == MergeColumns \/ BuildRows \/ Render

MatrixSpec == MatrixInit /\ [][MatrixNext]_matrixVars

-----------------------------------------------------------------------------
(* Properties.                                                             *)

\* What a section prints has row n, or says that rows were left out of it; and a
\* section that is not longer than MaxRows is printed whole.
Shows(table, section, n) ==
  /\ n \in table.rows \/ table.more > 0
  /\ Cardinality(section) <= MaxRows => table.rows = section

\* With two columns to compare, a failure of any of them is in the grid and in
\* exactly one of the sections above it, unique to a column, shared, or disagreed
\* on; that section prints it or says how many it has left out.
FailuresAreListedOnce ==
  (phase = "rendered" /\ Cardinality(Compared(columns)) >= 2) =>
    \A n \in DOMAIN rows :
      (\E i \in Compared(columns) : rows[n].cells[i] = "FAIL") =>
        LET alone == {i \in Compared(columns) : n \in page.unique[i]} IN
          /\ n \in page.grid
          /\ Cardinality(alone) + (IF n \in page.shared THEN 1 ELSE 0)
               + (IF n \in page.disagree THEN 1 ELSE 0) = 1
          /\ \A i \in alone : Shows(printed.unique[i], page.unique[i], n)
          /\ n \in page.shared => Shows(printed.shared, page.shared, n)
          /\ n \in page.disagree => Shows(printed.disagree, page.disagree, n)

Living == [n \in 1..Cardinality(Compared(columns)) |-> columns[InOrder(Compared(columns))[n]]]

\* A column that did not run decides nothing: without it every row that remains is
\* in the same sections.  (Which of a long section's rows are printed may differ: the
\* column may have brought the rows into another order.)
DeadColumnsDecideNothing ==
  phase = "rendered" =>
    LET rest == Build(Living)
        alive == Sections(rest, DOMAIN Living)
        same(a, b) == {rows[n].key : n \in a} \cap {rest[n].key : n \in DOMAIN rest}
                        = {rest[n].key : n \in b} IN
      /\ same(page.shared, alive.shared)
      /\ same(page.disagree, alive.disagree)
      /\ same(page.skipped, alive.skipped)

\* Rows are one per check and script: equal wording in two scripts is not one row,
\* and a failure is not shown as anything else unless the same script answered the
\* same check again.
RowsKeepAnswers ==
  phase = "built" =>
    \A i \in DOMAIN runs, s \in Range(ScriptNames) : \A j \in DOMAIN runs[i][s] :
      LET key == <<s, runs[i][s][j].key>>
          again == \E k \in DOMAIN runs[i][s] : k > j /\ runs[i][s][k].key = key[2] IN
        /\ Cardinality({n \in DOMAIN rows : rows[n].key = key}) = 1
        /\ again \/ \E n \in DOMAIN rows :
             rows[n].key = key /\ rows[n].cells[i] = runs[i][s][j].outcome

\* outcomes.compare files every difference between two runs under one heading, and
\* says nothing changed only of runs that agree.
ChangesAreListedOnce ==
  phase = "built" =>
    \A i, j \in DOMAIN columns :
      LET a == OutcomesOf(columns[i])
          b == OutcomesOf(columns[j])
          c == CompareRuns(a, b)
      IN
        /\ UNION {c[h] : h \in DOMAIN c}
             = {k \in DOMAIN a \cup DOMAIN b :
                  ~(k \in DOMAIN a /\ k \in DOMAIN b /\ a[k] = b[k])}
        /\ \A g, h \in DOMAIN c : g # h => c[g] \cap c[h] = {}

\* Nothing reported is lost, doubled or changed on its way into the tables, and a
\* column that did not run moves no row.
TablesLoseNothing ==
  /\ FailuresAreListedOnce /\ RowsKeepAnswers /\ ChangesAreListedOnce /\ DeadColumnsDecideNothing
=============================================================================
