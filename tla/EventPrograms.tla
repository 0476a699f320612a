---------------------------- MODULE EventPrograms ----------------------------
(***************************************************************************)
(* The checks of 03_srq.py, 12_session_lifecycle.py and 13_events.py.      *)
(***************************************************************************)
EXTENDS CheckSteps

-----------------------------------------------------------------------------
(* The instructions.                                                       *)

OpenInst == [op |-> "open"]
CloseInst == [op |-> "close"]
Enable(m, r) == [op |-> "enable", m |-> m, r |-> r]
Disable(m) == [op |-> "disable", m |-> m]
Install(h, r) == [op |-> "install", h |-> h, r |-> r]
Uninstall == [op |-> "uninstall"]
Discard == [op |-> "discard"]
Sleep(d) == [op |-> "sleep", d |-> d]
Wait(d, r) == [op |-> "wait", d |-> d, r |-> r]     \* waits(): the response is kept
Collected(d, r) == [op |-> "collect", d |-> d, r |-> r]   \* the response is dropped at once
Await(d, r) == [op |-> "await", d |-> d, r |-> r]   \* done.wait: until the handler ran
Drain(r) == [op |-> "drain", r |-> r]
Release == [op |-> "release"]
RaiseSrq == [op |-> "raise"]
Quiet == [op |-> "quiet"]
Mark == [op |-> "mark"]
Ask(what, r) == [op |-> "ask", what |-> what, r |-> r]
Put(r, v) == [op |-> "put", r |-> r, v |-> v]
SetLength(v, r) == [op |-> "setlength", v |-> v, r |-> r]

Ok == {"success"}
\* pyvisa's enable_event raises on anything but success.
MustEnable(m) == << Enable(m, "e"), Require("e", {"success", "already"}) >>
OnVxi11(instr) == When("protocol", {"vxi11"}, instr)
OnHislip(instr) == When("protocol", {"hislip"}, instr)

-----------------------------------------------------------------------------
(* 03_srq.py.  One session for the whole script; two iterations a loop.    *)

CheckEnableQueued == MustEnable("queue") \o << Put("queued_ok", "yes") >>
CheckQueuedDelivery ==
  << SkipIf("queued_ok", {"unset"}),
     Finally(OnVxi11(Discard)), Finally(OnVxi11(Disable("queue"))),
     RaiseSrq, Collected(20, "x"), RaiseSrq, Collected(20, "y"),
     Require("x", {"event"}), Require("y", {"event"}) >>
\* handler_run, on the first of the four checks that read it.
CheckEnableHandler ==
  << Install("own", Anything), Finally(Uninstall), Enable("handler", "enabled"),
     Require("enabled", Ok), Finally(Disable("handler")),
     Mark, RaiseSrq, Await(50, "ran"),
     When("ran", {"yes"}, Mark), When("ran", {"yes"}, RaiseSrq),
     When("ran", {"yes"}, Await(50, "ran")) >>
HandlerLoad == SkipIf("enabled", {"unset", "inv_event"})
CheckHandlerRuns == << HandlerLoad, Require("ran", {"yes"}) >>
CheckReadStbInHandler == << HandlerLoad, Require("stb", {"unset", "byte", "wide"}) >>
CheckHandlerStatusBytes == << HandlerLoad, Require("stb", {"byte"}) >>
CheckReenableQueue == MustEnable("queue") \o << Put("race_ok", "yes") >>
\* Three pollers while service requests fire: two hundred, 0.05 s apart, for which two
\* stand that take as long.
CheckStatusQueriesIntact ==
  << RaiseSrq, Sleep(50), Ask("poll", "x"), RaiseSrq, Sleep(50), Ask("poll", "y"),
     Require("x", {"byte"}), Require("y", {"byte"}) >>
CheckRaceProducedSrqs ==
  << SkipIf("race_ok", {"unset"}), Finally(Disable("queue")), Drain("x"), Require("x", {"event"}) >>
CheckSessionHealthy == << Ask("idn", "x"), Require("x", {"idn"}) >>
\* SETUP's finally leaves the status model as it was found.
TeardownSrq == << Finally(Quiet) >>

-----------------------------------------------------------------------------
(* 13_events.py.  Every check opens its own session.                       *)

CheckEnableHandlerWithoutHandler ==
  << OpenInst, Enable("handler", "x"), When("x", Ok, Disable("handler")),
     Require("x", {"ninstalled"}) >>
CheckMutuallyExclusiveMechanisms ==
  << OpenInst, Enable("both", "x"), When("x", Ok, Disable("handler")), Require("x", {"inv_mech"}) >>
CheckInstallAnyHandler ==
  << OpenInst, Install("any", "x"), SkipIf("x", {"none"}), Require("x", {"inv_ref", "raised"}) >>
CheckWaitImmediate ==
  << OpenInst, Finally(Release) >> \o MustEnable("queue")
    \o << Finally(Disable("queue")), Discard, Wait(0, "x"),
          Require("x", {"timeout"}), Require("elapsed", {"none"}) >>
\* The settle clears the transport's own delivery latency.
CheckDequeueAfterDisable ==
  << OpenInst, Finally(Release) >> \o MustEnable("queue")
    \o << Finally(Quiet), Finally(Disable("queue")), Discard,
          RaiseSrq, Wait(50, "x"), SkipIf("x", {"timeout"}),
          RaiseSrq, OnVxi11(Sleep(25)), OnHislip(Sleep(4)), Disable("queue"),
          Wait(5, "y"), Require("y", {"event"}) >>
CheckDiscardEvents ==
  << OpenInst, Finally(Release) >> \o MustEnable("queue")
    \o << Finally(Quiet), Finally(Disable("queue")),
          RaiseSrq, Sleep(4), Discard, Wait(3, "x"), Require("x", {"timeout"}) >>
CheckUninstallStopsDelivery ==
  << OpenInst, Install("own", Anything) >> \o MustEnable("handler")
    \o << Finally(Quiet), Finally(Uninstall), Finally(Disable("handler")),
          Mark, RaiseSrq, Sleep(5), Ask("calls", "x"), Require("x", {"some"}),
          Disable("handler"), Uninstall,
          Mark, RaiseSrq, Sleep(7), Ask("calls", "y"), Require("y", {"none"}) >>
CheckEnableTwice ==
  << OpenInst, Enable("queue", "x"), Enable("queue", "y"), Disable("queue"),
     Require("x", Ok), Require("y", {"success", "already"}) >>

-----------------------------------------------------------------------------
(* 12_session_lifecycle.py.                                                *)

CheckSpecVersion == << OpenInst, Ask("spec", "x"), Require("x", {"version"}) >>
CheckQueueLengthWriteable ==
  << OpenInst, SetLength("42", "x"), Require("x", Ok), Ask("length", "y"), Require("y", {"42"}) >>
CheckQueueLengthReadonly ==
  << OpenInst, SetLength("12", "x"), SkipIf("x", {"nonsupported"}) >> \o MustEnable("queue")
    \o << Finally(Disable("queue")), SetLength("99", "y"), Ask("length", "z"),
          Require("y", {"readonly"}), Require("z", {"12"}) >>
CheckCloseNull == << Ask("closenull", "x"), Require("x", {"warn_null"}) >>
CheckStringAttributeLength ==
  << OpenInst, Ask("name", "x"), Require("x", {"name", "noport", "dead"}) >>
\* Accepting a termination character of 0x1FF is no fault, storing it is.
CheckUnsupportedAttributeState ==
  << OpenInst, Ask("termchar", "x"), Require("x", {"refused", "masked"}) >>
\* The name is read, the session closed, and the name opened.
CheckResourceNameRoundtrip ==
  << OpenInst, Ask("name", "x"), Require("x", {"name", "noport", "dead", "long"}),
     SkipIf("x", {"noport"}), Ask("reopen", "y"), Require("y", {"idn"}) >>

Srq03 ==
  << Check("enable queued", EitherTransport, CheckEnableQueued),
     Check("queued delivery", EitherTransport, CheckQueuedDelivery),
     Check("enable handler", EitherTransport, CheckEnableHandler),
     Check("handler runs", EitherTransport, CheckHandlerRuns),
     Check("stb in handler", EitherTransport, CheckReadStbInHandler),
     Check("status bytes", EitherTransport, CheckHandlerStatusBytes),
     Check("re-enable", EitherTransport, CheckReenableQueue),
     Check("queries intact", EitherTransport, CheckStatusQueriesIntact),
     Check("race produced", EitherTransport, CheckRaceProducedSrqs),
     Check("healthy", EitherTransport, CheckSessionHealthy),
     Check("teardown", EitherTransport, TeardownSrq) >>
Lifecycle12 ==
  << Check("spec version", EitherTransport, CheckSpecVersion),
     Check("length writeable", EitherTransport, CheckQueueLengthWriteable),
     Check("length readonly", EitherTransport, CheckQueueLengthReadonly),
     Check("close null", EitherTransport, CheckCloseNull),
     Check("string length", EitherTransport, CheckStringAttributeLength),
     Check("attribute state", EitherTransport, CheckUnsupportedAttributeState),
     Check("name reopens", EitherTransport, CheckResourceNameRoundtrip) >>
Events13 ==
  << Check("no handler", EitherTransport, CheckEnableHandlerWithoutHandler),
     Check("exclusive mechanisms", EitherTransport, CheckMutuallyExclusiveMechanisms),
     Check("any handler", EitherTransport, CheckInstallAnyHandler),
     Check("immediate", EitherTransport, CheckWaitImmediate),
     Check("dequeue after disable", EitherTransport, CheckDequeueAfterDisable),
     Check("discard", EitherTransport, CheckDiscardEvents),
     Check("uninstall", EitherTransport, CheckUninstallStopsDelivery),
     Check("enable twice", EitherTransport, CheckEnableTwice) >>

EventScripts == {"03_srq", "12_session_lifecycle", "13_events"}
EventSuites ==
  [s \in EventScripts, p \in EitherTransport |->
     Collect(CASE s = "03_srq" -> Srq03 [] s = "12_session_lifecycle" -> Lifecycle12
               [] s = "13_events" -> Events13, p)]
=============================================================================
