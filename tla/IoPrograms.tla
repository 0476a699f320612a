----------------------------- MODULE IoPrograms ------------------------------
(***************************************************************************)
(* The checks of 02_io.py, 06_terminate.py and 07_clear.py.                *)
(***************************************************************************)
EXTENDS CheckSteps

\* A reply is a sequence of pieces, END on the last.
Replies ==
  [ idn |-> <<"i">>, big |-> <<"b1", "b2", "b3">>, lines |-> <<"l1", "l2">>, stale |-> <<"s">> ]

-----------------------------------------------------------------------------
(* The instructions.                                                       *)

Query(cmd, r) == [op |-> "query", cmd |-> cmd, r |-> r]
Write(cmd) == [op |-> "write", cmd |-> cmd]
Read(c, r) == [op |-> "read", c |-> c, max |-> 1, until |-> {}, r |-> r]
\* A loop of reads: until so many pieces came, nothing came, or one of these statuses.
ReadAll(c, max, until, r) == [op |-> "read", c |-> c, max |-> max, until |-> until, r |-> r]
Got(r, v) == [op |-> "got", r |-> r, v |-> v]
SameAs(r, q) == [op |-> "sameas", r |-> r, q |-> q]
Set(attr, v) == [op |-> "set", attr |-> attr, v |-> v]
Clear(r) == [op |-> "clear", r |-> r]
Terminate(r) == [op |-> "terminate", r |-> r]
StartReader == [op |-> "start"]
Join(r) == [op |-> "join", r |-> r]
Record(e) == [op |-> "record", e |-> e]    \* stats.error
Keep(r, memo) == [op |-> "keep", r |-> r, memo |-> memo]    \* STATE[memo] = ...

Ok == {"success"}
Is(r, v) == << Got(r, v), Require("got", {"yes"}) >>
QueryIdn == << Query("idn", "x"), Require("x", Ok) >> \o Is("x", Replies.idn)
HasBig == SkipIf("big", {"no"})
\* reference(): the large response, read once and remembered.
Reference == << When("ref", {"unset"}, Query("big", "ref")), Require("ref", Ok) >>

-----------------------------------------------------------------------------
(* 02_io.py.  Two iterations a loop.                                       *)

CheckSmallQueryStorm == QueryIdn \o QueryIdn
CheckLargeQueryStorm ==
  << HasBig >> \o Reference
    \o << Query("big", "x"), Require("x", Ok), SameAs("x", "ref"), Require("got", {"yes"}),
          Query("big", "x"), Require("x", Ok), SameAs("x", "ref"), Require("got", {"yes"}) >>
\* _read_in_chunks is memoised: two checks are about one read.
ReadInChunks(c, memo) ==
  << HasBig >> \o Reference
    \o << When(memo, {"unset"}, Write("big")), When(memo, {"unset"}, ReadAll(c, 3, {}, "y")),
          When(memo, {"unset"}, Keep("y", memo)) >>
ChunkIntact(c, memo) == ReadInChunks(c, memo) \o << SameAs(memo, "ref"), Require("got", {"yes"}) >>
ChunkFinalStatus(c, memo) == ReadInChunks(c, memo) \o << Require(memo, Ok) >>
CheckTermcharReads ==
  << Set("termchar", TRUE), Finally(Set("termchar", FALSE)),
     Write("idn"), Read(4, "x"), Require("x", {"success", "termchar"}) >> \o Is("x", Replies.idn)
    \o << Write("idn"), Read(4, "y"), Require("y", {"success", "termchar"}) >>
    \o Is("y", Replies.idn)
\* _multiline_read is memoised too.  The mock server is given a response with lines;
\* without it the large response must have some.
OnceOver(instr) == When("lines", {"unset"}, instr)
WithServer(instr) == OnceOver(When("server", {"yes"}, instr))
Without(instr) == OnceOver(When("server", {"lines", "no"}, instr))
MultilineRead ==
  << Without(HasBig), Without(When("ref", {"unset"}, Query("big", "ref"))),
     Without(Require("ref", Ok)), Without(SkipIf("server", {"no"})),
     OnceOver(Set("termchar", TRUE)), OnceOver(Finally(Set("termchar", FALSE))),
     WithServer(Write("lines")), WithServer(ReadAll(4, 2, Ok, "y")),
     Without(Write("big")), Without(ReadAll(4, 3, Ok, "y")), OnceOver(Keep("y", "lines")) >>
CheckMultilineReassembles ==
  MultilineRead
    \o << When("server", {"yes"}, Got("lines", Replies.lines)),
          When("server", {"lines"}, SameAs("lines", "ref")), Require("got", {"yes"}) >>
CheckMultilineSplit == MultilineRead \o << Require("reads", {"many"}) >>
CheckSplitWrite ==
  << Set("sendend", FALSE), Finally(Set("sendend", TRUE)), Write("half"), Set("sendend", TRUE),
     Write("rest"), Read(4, "x") >> \o Is("x", Replies.idn)
CheckHealthyAtEnd == QueryIdn

-----------------------------------------------------------------------------
(* 06_terminate.py.                                                        *)

RequireTerminate ==
  << When("impl", {"unset"}, Terminate("impl")), SkipIf("impl", {"nonimplemented"}) >>
\* A failure along the way is recorded under its own name and ends the cycles.
TerminateCycle ==
  << Write("cls"), StartReader, Terminate("t"), When("t", {"error"}, Record("reports success")),
     Join("j"),
     When("j", {"alive"}, Record("unblocks the read")), SkipIf("j", {"alive"}),
     When("j", {"raised"}, Record("read completes")), SkipIf("j", {"raised"}),
     SkipIf("j", {"fulltimeout"}),
     Query("idn", "x"), When("x", {"timeout"}, Record("usable again")), SkipIf("x", {"timeout"}),
     Got("x", Replies.idn), When("got", {"no"}, Record("usable again")), SkipIf("got", {"no"}) >>
\* Mutant of CheckTerminateCycles: the timeout is put back after the cycles, not in a finally.
CheckTerminateCyclesHopeful ==
  RequireTerminate \o << Set("long", TRUE) >> \o TerminateCycle \o TerminateCycle
    \o << Set("long", FALSE) >>
CheckTerminateCycles ==
  RequireTerminate \o << Set("long", TRUE), Finally(Set("long", FALSE)) >>
    \o TerminateCycle \o TerminateCycle
CheckTerminateIdle == RequireTerminate \o << Terminate("x"), Require("x", Ok) >>
CheckHealthyAfterIdleTerminate == RequireTerminate \o QueryIdn

-----------------------------------------------------------------------------
(* 07_clear.py.                                                            *)

ClearAndRequery == << Clear("c"), Require("c", Ok) >> \o QueryIdn
CheckClearCycles == ClearAndRequery \o ClearAndRequery
CheckClearDiscardsResponse ==
  << Query("stale", "p"), SkipIf("p", {"timeout"}), Got("p", Replies.idn), SkipIf("got", {"yes"}),
     Write("stale") >> \o ClearAndRequery \o << Write("stale") >> \o ClearAndRequery
CheckClearMidMessage ==
  << HasBig >> \o Reference
    \o << Write("big"), Read(2, "part") >> \o Is("part", <<"b1", "b2">>) \o ClearAndRequery
CheckLargeReadsIntact ==
  << HasBig >> \o Reference
    \o << Query("big", "x"), Require("x", Ok), SameAs("x", "ref"), Require("got", {"yes"}) >>

Io02 ==
  << Check("small storm", EitherTransport, CheckSmallQueryStorm),
     Check("large storm", EitherTransport, CheckLargeQueryStorm),
     Check("intact 1", EitherTransport, ChunkIntact(1, "c1")),
     Check("final 1", EitherTransport, ChunkFinalStatus(1, "c1")),
     Check("intact 2", EitherTransport, ChunkIntact(2, "c2")),
     Check("final 2", EitherTransport, ChunkFinalStatus(2, "c2")),
     Check("intact 3", EitherTransport, ChunkIntact(3, "c3")),
     Check("final 3", EitherTransport, ChunkFinalStatus(3, "c3")),
     Check("intact 4", EitherTransport, ChunkIntact(4, "c4")),
     Check("final 4", EitherTransport, ChunkFinalStatus(4, "c4")),
     Check("termchar", EitherTransport, CheckTermcharReads),
     Check("multiline", EitherTransport, CheckMultilineReassembles),
     Check("split", EitherTransport, CheckMultilineSplit),
     Check("split write", EitherTransport, CheckSplitWrite),
     Check("healthy", EitherTransport, CheckHealthyAtEnd) >>
Terminate06 ==
  << Check("cycles", EitherTransport, CheckTerminateCycles),
     Check("idle", EitherTransport, CheckTerminateIdle),
     Check("healthy", EitherTransport, CheckHealthyAfterIdleTerminate) >>
Clear07 ==
  << Check("clear cycles", EitherTransport, CheckClearCycles),
     Check("discards", EitherTransport, CheckClearDiscardsResponse),
     Check("mid message", EitherTransport, CheckClearMidMessage),
     Check("large intact", EitherTransport, CheckLargeReadsIntact) >>

IoScripts == {"02_io", "06_terminate", "07_clear"}
IoSuites ==
  [s \in IoScripts, p \in EitherTransport |->
     Collect(CASE s = "02_io" -> Io02 [] s = "06_terminate" -> Terminate06
               [] s = "07_clear" -> Clear07, p)]
=============================================================================
