----------------------------- MODULE EventChecks -----------------------------
(***************************************************************************)
(* 03_srq.py, 12_session_lifecycle.py and 13_events.py: what the checks on *)
(* service requests, event queues, handlers and session attributes do,     *)
(* against a library that conforms or has one flaw.                        *)
(*                                                                         *)
(* Time counts in tenths of a second, because these checks sleep: over     *)
(* VXI-11 the interrupt goes unacknowledged, so every service request of a *)
(* session after its first is delivered a second after the one before.     *)
(***************************************************************************)
EXTENDS CheckProgram, EventPrograms

CONSTANT Suites   \* script, transport -> its checks: EventSuites

-----------------------------------------------------------------------------
(* The library's event mechanism and the instrument behind it.             *)

VARIABLES
  now,        \* tenths of a second
  due,        \* when the service requests on their way arrive
  lastSent,   \* when the last one arrives, or Never
  enabled,    \* mechanisms that are enabled
  handlers,   \* "none", "installed", "removed"
  events,     \* events in the queue
  calls, marked,  \* how often the handler ran, and when last looked
  contexts,   \* event contexts waits() holds
  isOpen, length, used,   \* the session, its queue length, whether viEnableEvent was called
  armed,      \* the instrument's service request mask is set
  raced,      \* history: service requests that arrived since the queue was re-enabled
  orphans     \* history: event contexts whose session closed first

library == <<now, due, lastSent, enabled, handlers, events, calls, marked, contexts, isOpen,
             length, used, armed, raced, orphans>>
vars == <<control, library>>

Never == -100

\* The check that is there for a flaw.
Catchers ==
  [ unchecked |-> "no handler", bothmechs |-> "exclusive mechanisms", anyhandler |-> "any handler",
    blocks |-> "immediate", disabledempty |-> "dequeue after disable", keeps |-> "discard",
    zombie |-> "uninstall", strict |-> "enable twice", noqueue |-> "enable queued",
    lossy |-> "queued delivery", nohandler |-> "enable handler", deadhandler |-> "handler runs",
    stbraises |-> "stb in handler", stbwide |-> "status bytes", crossed |-> "queries intact",
    wedged |-> "healthy", nospec |-> "spec version", fixed |-> "length writeable",
    late |-> "length readonly", silent |-> "length readonly", nullerror |-> "close null",
    long |-> "string length", verbatim |-> "attribute state", dead |-> "name reopens" ]
\* "deaf" hears no service request once its handler is gone; no check is there for that.
EventFlaws == DOMAIN Catchers \cup {"none", "deaf"}

Suite == Suites[script, transport]
\* STATE outlives a check, its own variables do not.
Kept == {"protocol", "queued_ok", "enabled", "ran", "stb", "race_ok"}
Locals == {"x", "y", "z", "e", "elapsed", Anything}
Blank == [r \in Kept \cup Locals |-> IF r \in Locals THEN "unset" ELSE regs[r]]

Init ==
  /\ script \in EventScripts /\ transport \in EitherTransport /\ flaw \in EventFlaws
  /\ Start([r \in Kept \cup Locals |-> IF r = "protocol" THEN transport ELSE "unset"])
  /\ now = 0 /\ due = <<>> /\ lastSent = Never
  /\ enabled = {} /\ handlers = "none" /\ events = 0 /\ calls = 0 /\ marked = 0
  /\ contexts = 0 /\ isOpen = (script = "03_srq") /\ length = "50" /\ used = FALSE /\ armed = FALSE
  /\ raced = 0 /\ orphans = 0

I == Instr(Suite)
Pace == IF transport = "vxi11" THEN 10 ELSE 0

\* What has been delivered by time t: to the queue, to the handler, or to nobody.
Arrived(t) == Cardinality({i \in DOMAIN due : due[i] <= t})
Called ==
  \/ handlers = "installed" /\ "handler" \in enabled
  \/ handlers = "removed" /\ flaw = "zombie"
EventsAt(t) == events + IF "queue" \in enabled THEN Arrived(t) ELSE 0
CallsAt(t) == calls + IF Called /\ flaw # "deadhandler" THEN Arrived(t) ELSE 0
\* The handler's read_stb, from inside it.
Stb(t) ==
  IF CallsAt(t) = calls THEN regs["stb"]
  ELSE CASE flaw = "stbraises" -> "raised" [] flaw = "stbwide" -> "wide" [] OTHER -> "byte"
Elapse(t) ==
  /\ now' = t /\ due' = SelectSeq(due, LAMBDA d : d > t)
  /\ calls' = CallsAt(t)
  /\ raced' = IF regs["race_ok"] = "yes" THEN raced + Arrived(t) ELSE raced
Later(t, u) == IF t > u THEN t ELSE u
NextArrival(t, d) ==
  IF due # <<>> /\ Head(due) <= t + d THEN Later(Head(due), t) ELSE t + d
Settled == EventsAt(now)

\* time.sleep, done.wait and viWaitOnEvent: the only calls that take time.
TimedCall ==
  /\ At(Suite, {"sleep", "wait", "collect", "await", "drain"})
  /\ LET d == CASE I.op = "drain" -> 0 [] OTHER -> I.d
         ready == Settled > 0 /\ (flaw = "disabledempty" => "queue" \in enabled)
         t == CASE I.op = "sleep" -> now + d
                [] I.op = "await" -> IF CallsAt(now) > marked THEN now ELSE NextArrival(now, d)
                [] OTHER -> IF ready THEN now
                            ELSE IF "queue" \in enabled THEN NextArrival(now, d) ELSE now + d
         taken == I.op \in {"wait", "collect", "drain"} /\ (ready \/ EventsAt(t) > Settled)
     IN /\ Elapse(t)
        /\ events' = IF taken THEN IF I.op = "drain" THEN 0 ELSE EventsAt(t) - 1 ELSE EventsAt(t)
        /\ contexts' = IF taken /\ I.op = "wait" THEN contexts + 1 ELSE contexts
        /\ regs' = [r \in DOMAIN regs |->
             CASE r = "stb" -> Stb(t)
               [] r = "elapsed" -> IF d = 0 /\ flaw # "blocks" THEN "none" ELSE "full"
               [] I.op = "await" /\ r = I.r -> IF CallsAt(t) > marked THEN "yes" ELSE "no"
               [] I.op \in {"wait", "collect", "drain"} /\ r = I.r ->
                    IF taken THEN "event" ELSE "timeout"
               [] OTHER -> regs[r]]
  /\ Advance(Suite)
  /\ UNCHANGED <<mishap, lastSent, enabled, handlers, marked, isOpen, length, used, armed,
                 orphans>>

\* *CLS, *ESE 1, *SRE 32, *OPC: the instrument asks for service.
Raise ==
  /\ At(Suite, {"raise"})
  /\ armed' = TRUE
  /\ IF (flaw = "lossy" /\ lastSent # Never) \/ (flaw = "deaf" /\ handlers = "removed")
     THEN UNCHANGED <<due, lastSent>>
     ELSE LET at == Later(now, lastSent + Pace) IN
            due' = Append(due, at) /\ lastSent' = at
  /\ Advance(Suite)
  /\ UNCHANGED <<regs, mishap, now, enabled, handlers, events, calls, marked, contexts, isOpen,
                 length, used, raced, orphans>>

EnableStatus(m) ==
  CASE m = "both"  -> IF flaw = "bothmechs" THEN "success" ELSE "inv_mech"
    [] m = "queue" /\ flaw = "noqueue" -> "inv_event"
    [] m = "queue" /\ "queue" \in enabled -> IF flaw = "strict" THEN "error" ELSE "already"
    [] m = "handler" /\ handlers # "installed" /\ flaw # "unchecked" -> "ninstalled"
    [] m = "handler" /\ handlers = "installed" /\ flaw = "nohandler" -> "inv_event"
    [] OTHER -> "success"

\* viEnableEvent, viDisableEvent, viDiscardEvents, viInstallHandler, viUninstallHandler;
\* what is due has arrived by then.
EventCall ==
  /\ At(Suite, {"enable", "disable", "discard", "install", "uninstall", "quiet", "mark"})
  /\ Elapse(now)
  /\ LET st == EnableStatus(I.m) IN
     CASE I.op = "enable" ->
            /\ enabled' = IF st # "success" THEN enabled
                          ELSE enabled \cup {IF I.m = "queue" THEN "queue" ELSE "handler"}
            /\ regs' = [regs EXCEPT ![I.r] = st, !["stb"] = Stb(now)] /\ used' = TRUE
       [] I.op = "disable" ->
            /\ enabled' = enabled \ {I.m}
            /\ regs' = [regs EXCEPT !["stb"] = Stb(now)] /\ UNCHANGED used
       [] I.op = "install" ->
            /\ regs' = [regs EXCEPT ![I.r] =
                 IF I.h = "own" \/ flaw = "anyhandler" THEN "success" ELSE "inv_ref",
                                      !["stb"] = Stb(now)]
            /\ UNCHANGED <<enabled, used>>
       [] OTHER -> regs' = [regs EXCEPT !["stb"] = Stb(now)] /\ UNCHANGED <<enabled, used>>
  /\ events' = IF I.op = "discard" /\ flaw # "keeps" THEN 0 ELSE Settled
  /\ handlers' = CASE I.op = "install" /\ I.h = "own" -> "installed"
                   [] I.op = "uninstall" -> "removed"
                   [] OTHER -> handlers
  /\ marked' = IF I.op = "mark" THEN CallsAt(now) ELSE marked
  /\ armed' = IF I.op = "quiet" THEN FALSE ELSE armed
  /\ Advance(Suite)
  /\ UNCHANGED <<mishap, lastSent, contexts, isOpen, length, orphans>>

\* Attributes and everything else that only answers.
Says(what) ==
  CASE what = "calls"     -> IF calls > marked THEN "some" ELSE "none"
    [] what = "poll"      -> IF flaw = "crossed" /\ "queue" \in enabled THEN "wide" ELSE "byte"
    [] what = "idn"       -> IF flaw = "wedged" /\ handlers = "removed" THEN "timeout" ELSE "idn"
    [] what = "length"    -> length
    [] what = "spec"      -> IF flaw = "nospec" THEN "nonsupported" ELSE "version"
    [] what = "closenull" -> IF flaw = "nullerror" THEN "error" ELSE "warn_null"
    [] what = "name"      -> IF flaw \in {"long", "dead"} THEN flaw ELSE "name"
    [] what = "reopen"    -> IF flaw = "dead" THEN "error" ELSE "idn"
    [] what = "termchar"  -> IF flaw = "verbatim" THEN "stored" ELSE "masked"
Answer ==
  /\ At(Suite, {"ask", "put", "setlength"})
  /\ LET writes == I.op = "setlength" /\ flaw # "fixed" /\ (~used \/ flaw \in {"late", "silent"}) IN
     /\ length' = IF writes THEN I.v ELSE length
     /\ regs' = [regs EXCEPT ![I.r] =
          CASE I.op = "ask" -> Says(I.what) [] I.op = "put" -> I.v
            [] I.op = "setlength" -> IF flaw = "fixed" THEN "nonsupported"
                                     ELSE IF used /\ flaw # "late" THEN "readonly" ELSE "success"]
  /\ Advance(Suite)
  /\ UNCHANGED <<mishap, now, due, lastSent, enabled, handlers, events, calls, marked, contexts,
                 isOpen, used, armed, raced, orphans>>

\* What a session has of its own: 12_session_lifecycle and 13_events open one a check.
Session ==
  [due |-> due, lastSent |-> lastSent, enabled |-> enabled, handlers |-> handlers,
   events |-> events, calls |-> calls, marked |-> marked, contexts |-> contexts,
   isOpen |-> isOpen, length |-> length, used |-> used]
Closed ==
  [due |-> <<>>, lastSent |-> Never, enabled |-> {}, handlers |-> "none", events |-> 0,
   calls |-> 0, marked |-> 0, contexts |-> 0, isOpen |-> FALSE, length |-> "50", used |-> FALSE]
Becomes(s) ==
  /\ due' = s.due /\ lastSent' = s.lastSent /\ enabled' = s.enabled /\ handlers' = s.handlers
  /\ events' = s.events /\ calls' = s.calls /\ marked' = s.marked /\ contexts' = s.contexts
  /\ isOpen' = s.isOpen /\ length' = s.length /\ used' = s.used
SharedSession == script = "03_srq"
Change(s) == Becomes(IF SharedSession THEN Session ELSE s)

\* with open_inst(): a fresh session; closing it takes its events and handlers with it.
OpenOrClose ==
  /\ At(Suite, {"open", "close", "release"})
  /\ orphans' = IF I.op = "close" THEN orphans + contexts ELSE orphans
  /\ Becomes(CASE I.op = "open" -> [Closed EXCEPT !.isOpen = TRUE] [] I.op = "close" -> Closed
               [] I.op = "release" -> [Session EXCEPT !.contexts = 0])
  /\ IF I.op # "open" THEN Advance(Suite)
     ELSE /\ cleanup' = <<CloseInst>> \o cleanup /\ ip' = ip + 1
          /\ UNCHANGED <<program, n, verdicts, turn, aside>>
  /\ UNCHANGED <<regs, mishap, now, armed, raced>>

EndCheck ==
  \/ Return(Suite, Blank) /\ UNCHANGED library
  \/ StrayEnds(Suite, Kept) /\ Change(aside.own) /\ UNCHANGED <<now, armed, raced, orphans>>

\* What the library may do once to a check: raise, or take longer than its watchdog.  The
\* wait for an event in check_queued_delivery lets nothing out.
RaisingCalls ==
  {"open", "enable", "disable", "discard", "install", "uninstall", "wait", "drain", "raise",
   "quiet", "ask", "setlength", "release", "close"}
HangingCalls == RaisingCalls \cup {"collect"}
Mishap ==
  \/ Raises(Suite, RaisingCalls, {}) /\ UNCHANGED library
  \* No watchdog waits for the teardown.
  \/ /\ Running(Suite) /\ Suite[n].name # "teardown"
     /\ Abandon(Suite, HangingCalls, Blank, Session) /\ Change(Closed)
     /\ UNCHANGED <<now, armed, raced, orphans>>
SwitchThread ==
  /\ Switch(Suite, HangingCalls \cup {"sleep", "await", "mark", "put"}, Kept, Session)
  /\ Change(aside.own) /\ UNCHANGED <<now, armed, raced, orphans>>

Control == (PassOver(Suite) \/ Push(Suite) \/ Decide(Suite)) /\ UNCHANGED library
Next ==
  \/ Control \/ TimedCall \/ Raise \/ EventCall \/ Answer \/ OpenOrClose
  \/ EndCheck \/ Mishap \/ SwitchThread

Spec == Init /\ [][Next]_vars

-----------------------------------------------------------------------------
(* Properties.                                                             *)

VerdictOf(name) == verdicts[CHOOSE i \in DOMAIN Suite : Suite[i].name = name]

\* A library that keeps VPP-4.3's rules passes every check, over VXI-11 too, where its
\* service requests come a second apart: every settle outlasts the latency it is for.
NoFalseAlarm == flaw = "none" /\ mishap = "none" => AllPass

\* Every flaw fails the check written for it, over either transport.
FlawsAreCaught ==
  (Finished(Suite) /\ flaw \in DOMAIN Catchers) =>
    \A i \in DOMAIN Suite : Suite[i].name = Catchers[flaw] => verdicts[i] = "FAIL"

\* A check that returns, fails, skips or raises leaves nothing to the next: 13_events no
\* open session, no service request mask, and never an event context whose session is gone
\* (closing one crashes a vendor's library); 03_srq, after its teardown, neither handler
\* nor mask.  A check the watchdog abandoned has left no more once its thread has ended,
\* except to 03_srq's teardown, which may come before that.  Only a clean-up call that
\* itself raised leaves something.
EventsLeftClean ==
  mishap # "uncleaned" =>
    /\ orphans = 0
    /\ (script = "13_events" /\ BetweenChecks /\ ~StrayLives) => ~armed /\ ~isOpen
    /\ (script = "03_srq" /\ Finished(Suite) /\ mishap # "abandoned") =>
         ~armed /\ handlers # "installed"

\* "the race actually produced service requests" passes only if it did.
RaceProducedRequests ==
  (script = "03_srq" /\ Len(verdicts) >= 9) => (VerdictOf("race produced") = "PASS" => raced > 0)
=============================================================================
