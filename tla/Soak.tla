-------------------------------- MODULE Soak ---------------------------------
(***************************************************************************)
(* 08_soak.py: operations picked at random against one session until       *)
(* --duration is up, on a transport that delays, loses or ends things.     *)
(*                                                                         *)
(* Replies are queued messages; a read takes from the first of them, so    *)
(* one reply nobody collected is what every later query gets.  The actors  *)
(* are the soak's thread, the SRQ handler and the watchdog.                *)
(***************************************************************************)
EXTENDS Integers, Sequences, FiniteSets

CONSTANTS
  RefLen,      \* length of the reference reply, in reads of one byte
  Growth,      \* by how much the reply to --big-query may grow and shrink
  ReadSlack,   \* reads a partial read makes past RefLen before it gives up
  Ticks,       \* bound: operations before the deadline
  MaxMishaps   \* bound: answers that are late or lost

VARIABLES
  setup,     \* whether there is a large query, --srq-thread, --trigger
  step, op,  \* where check_soak is, and the operation it is in
  inFlight,  \* STATE["in_flight"]: the operation _in_flight would name
  ticks,     \* operations started
  queue,     \* replies the instrument holds: what they answer and what is left of them
  size,      \* length the reply to --big-query has now
  got, reads,\* collected by the partial read, and reads made
  level,     \* lock levels held
  requested, \* a service request waits for the handler
  link,      \* "up", "lost"
  mishaps,
  unclean,   \* history: a clear meant to resynchronise the session failed itself
  filed,     \* what stats.error recorded
  results,   \* the verdicts of the two checks
  named      \* what the hang report said, or "nothing"

stream == <<queue, size, got, reads, unclean>>
soakVars ==
  <<setup, step, op, inFlight, ticks, stream, level, requested, link, mishaps, filed, results,
    named>>

\* check_soak takes a reference reply that is not empty; it shrinks to no less than one read.
ASSUME SoakAssumption ==
  /\ RefLen \in Nat /\ Growth \in Nat /\ ReadSlack \in Nat /\ Ticks \in Nat /\ MaxMishaps \in Nat
  /\ Growth < RefLen

Nothing == "nothing"
\* The options, and whether the instrument has a large query.
Setups == [big : BOOLEAN, handler : BOOLEAN, trigger : BOOLEAN]
SoakInit ==
  /\ setup \in Setups
  /\ step = "top" /\ op = Nothing /\ inFlight = Nothing /\ ticks = 0
  /\ queue = <<>> /\ size = RefLen /\ got = 0 /\ reads = 0
  /\ level = 0 /\ requested = FALSE /\ link = "up" /\ mishaps = 0 /\ unclean = FALSE
  /\ filed = {} /\ results = <<>> /\ named = Nothing

\* The mix: what the options and the instrument allow.
AlwaysOps == {"query", "read_stb", "ren", "lock", "clear", "flush", "attr"}
Mix ==
  AlwaysOps
    \cup (IF setup.big THEN {"big_query", "partial_read"} ELSE {})
    \cup (IF setup.handler THEN {"srq"} ELSE {})
    \cup (IF setup.trigger THEN {"trigger"} ELSE {})

Reply(what) == [what |-> what, rest |-> IF what = "idn" THEN 1 ELSE size]

\* while time.time() < deadline: pick one, publish it, do it.
Pick ==
  /\ step = "top" /\ ticks < Ticks
  /\ op' \in Mix
  /\ inFlight' = op' /\ ticks' = ticks + 1 /\ step' = "op"
  /\ got' = 0 /\ reads' = 0
  /\ size' \in {RefLen, RefLen - Growth, RefLen + Growth}
  /\ UNCHANGED <<setup, queue, unclean, level, requested, link, mishaps, filed, results, named>>

Error(e) == filed' = filed \cup {e}
Done == step' = "top" /\ op' = Nothing
Keep == UNCHANGED <<setup, inFlight, ticks, results, named>>
Calm == UNCHANGED <<level, requested, link, mishaps>>
Mishap == mishaps < MaxMishaps /\ mishaps' = mishaps + 1 /\ UNCHANGED <<level, requested, link>>

\* The comparison with the reference: another query's reply, or one of another length.
Wrong(reply, what) == reply.what # what \/ (what = "big" /\ reply.rest # RefLen)

\* session.query: the write, then a read to the end of whatever comes first.
Query(what) ==
  /\ link = "up"
  /\ LET all == Append(queue, Reply(what)) IN
     \/ /\ queue' = Tail(all) /\ Done /\ Calm
        /\ IF Wrong(Head(all), what) THEN Error(what) ELSE UNCHANGED filed
        /\ UNCHANGED <<size, got, reads, unclean>>
     \* The answer comes too late: the read raises, the reply stays.
     \/ /\ Mishap /\ queue' = all /\ step' = "raised"
        /\ UNCHANGED <<op, filed, size, got, reads, unclean>>

SmallQuery == step = "op" /\ op = "query" /\ Query("idn") /\ Keep
BigQuery == step = "op" /\ op = "big_query" /\ Query("big") /\ Keep

\* The write of a partial read.
PartialWrite ==
  /\ step = "op" /\ op = "partial_read" /\ reads = 0 /\ link = "up"
  /\ queue' = Append(queue, Reply("big"))
  /\ step' = "reading"
  /\ Keep /\ Calm /\ UNCHANGED <<op, filed, size, got, reads, unclean>>

\* One viRead of some size.  END is what stops it, not the reference length.
PartialRead ==
  /\ step = "reading" /\ reads < RefLen + ReadSlack
  /\ \/ /\ queue # <<>> /\ Calm
        /\ \E k \in 1..Head(queue).rest :
             /\ reads' = reads + 1 /\ got' = got + k
             /\ queue' = IF k = Head(queue).rest THEN Tail(queue)
                         ELSE <<[Head(queue) EXCEPT !.rest = @ - k]>> \o Tail(queue)
             /\ step' = IF k = Head(queue).rest THEN "ended" ELSE "reading"
     \/ /\ Mishap /\ step' = "unended" /\ UNCHANGED <<queue, got, reads>>
  /\ Keep /\ UNCHANGED <<op, filed, size, unclean>>
PartialGivesUp ==
  /\ step = "reading" /\ reads = RefLen + ReadSlack
  /\ step' = "unended"
  /\ Keep /\ Calm /\ UNCHANGED <<op, filed, stream>>
\* Mutant of PartialJudged: a read that gave up leaves the rest of its reply.
PartialJudgedKeepsRest ==
  /\ step \in {"ended", "unended"}
  /\ IF got # RefLen THEN Error("chunked") ELSE UNCHANGED filed
  /\ Done /\ Keep /\ Calm /\ UNCHANGED stream
\* Resynchronise before the next operation inherits the remains (the status of that
\* clear is not looked at); then the verdict.
PartialJudged ==
  /\ step \in {"ended", "unended"}
  /\ \/ step = "ended" /\ Calm /\ UNCHANGED <<queue, unclean>>
     \/ step = "unended" /\ Calm /\ queue' = <<>> /\ UNCHANGED unclean
     \/ step = "unended" /\ Mishap /\ unclean' = TRUE /\ UNCHANGED queue
  /\ IF got # RefLen THEN Error("chunked") ELSE UNCHANGED filed
  /\ Done /\ Keep /\ UNCHANGED <<size, got, reads>>

\* viClear, with its status.
Clear ==
  /\ step = "op" /\ op = "clear" /\ link = "up"
  /\ \/ queue' = <<>> /\ Calm /\ UNCHANGED filed
     \/ Mishap /\ UNCHANGED queue /\ Error("clear")
  /\ Done /\ Keep /\ UNCHANGED <<size, got, reads, unclean>>

\* viLock, and viUnlock if it said VI_SUCCESS; its status is not looked at.
Lock ==
  /\ step = "op" /\ op = "lock" /\ link = "up"
  /\ \/ level = 0 /\ UNCHANGED <<level, requested, link, mishaps, filed>>
     \/ /\ level = 0 /\ mishaps < MaxMishaps  \* the unlock is lost
        /\ level' = 1 /\ mishaps' = mishaps + 1 /\ UNCHANGED <<requested, link, filed>>
     \/ level > 0 /\ Error("lock") /\ Calm      \* VI_SUCCESS_NESTED_EXCLUSIVE
     \/ level > 0 /\ Calm /\ UNCHANGED filed   \* VI_ERROR_TMO
  /\ Done /\ Keep /\ UNCHANGED stream

\* read_stb, REN, viFlush, viGetAttribute, viAssertTrigger: the asynchronous channel.
Aside ==
  /\ step = "op" /\ op \in {"read_stb", "ren", "flush", "attr", "trigger"} /\ link = "up"
  /\ \/ Done /\ Calm /\ UNCHANGED filed
     \/ op = "read_stb" /\ Mishap /\ step' = "raised" /\ UNCHANGED <<op, filed>>
     \/ op = "ren" /\ Mishap /\ Error("ren") /\ Done
  /\ Keep /\ UNCHANGED stream

Srq ==
  /\ step = "op" /\ op = "srq" /\ link = "up"
  /\ requested' = TRUE /\ Done
  /\ Keep /\ UNCHANGED <<stream, level, link, mishaps, filed>>
HandlerRuns ==
  /\ requested /\ requested' = FALSE
  /\ IF link = "lost" THEN Error("handler") ELSE UNCHANGED filed
  /\ UNCHANGED <<setup, step, op, inFlight, ticks, stream, level, link, mishaps, results, named>>

\* The connection ends, under an operation or between two.
LinkLost ==
  /\ link = "up" /\ step \in {"op", "top"} /\ mishaps < MaxMishaps
  /\ link' = "lost" /\ mishaps' = mishaps + 1
  /\ UNCHANGED <<setup, step, op, inFlight, ticks, stream, level, requested, filed, results, named>>
\* On a lost connection the calls made through visa.status and visa.call return a status
\* and the mix goes on; an operation that raises ends it rather than repeat itself.
OpLost ==
  /\ step = "op" /\ link = "lost"
  /\ \/ op \in {"trigger", "flush", "attr"} /\ Done /\ UNCHANGED filed
     \/ op \in {"ren", "clear", "lock"} /\ Done /\ Error(op)
     \/ /\ op \notin {"trigger", "flush", "attr", "ren", "clear", "lock"}
        /\ step' = "teardown" /\ Error("lost") /\ UNCHANGED op
  /\ Keep /\ Calm /\ UNCHANGED stream

\* except Exception: the error is filed, and lib.clear gets back to a sane state.
Recover ==
  /\ step = "raised"
  /\ filed' = filed \cup {op}
  /\ \/ link = "up" /\ queue' = <<>> /\ Done /\ Calm
     \/ Mishap /\ UNCHANGED queue /\ step' = "teardown" /\ UNCHANGED op
  /\ Keep /\ UNCHANGED <<size, got, reads, unclean>>

Deadline ==
  /\ step = "top" /\ ticks = Ticks
  /\ step' = "teardown"
  /\ Keep /\ Calm /\ UNCHANGED <<op, stream, filed>>
\* finally: the handler comes down; check_soak returns whatever was filed.
Teardown ==
  /\ step = "teardown"
  /\ step' = "healthy" /\ results' = Append(results, "PASS")
  /\ requested' = FALSE
  /\ UNCHANGED <<setup, op, inFlight, ticks, stream, level, link, mishaps, filed, named>>

\* An operation that never returns: _soak_watchdog fires and _in_flight says where.
Hang ==
  /\ step \in {"op", "reading"} /\ step' = "hung"
  /\ Keep /\ Calm /\ UNCHANGED <<op, stream, filed>>
SoakWatchdog ==
  /\ step = "hung"
  /\ results' = Append(results, "FAIL") /\ named' = inFlight /\ step' = "healthy"
  /\ UNCHANGED <<setup, op, inFlight, ticks, stream, level, requested, link, mishaps, filed>>

\* check_healthy_after_soak: *IDN?, and if that fails a clear and another.
Healthy ==
  /\ step = "healthy" /\ step' = "done"
  /\ results' = Append(results,
       IF link = "up" /\ queue = <<>> THEN "PASS" ELSE "FAIL")
  /\ queue' = <<>>
  /\ UNCHANGED <<setup, op, inFlight, ticks, size, got, reads, unclean, level, requested, link,
                 mishaps, filed, named>>

SoakNext ==
  \/ Pick \/ SmallQuery \/ BigQuery \/ PartialWrite \/ PartialRead
  \/ PartialGivesUp \/ PartialJudged
  \/ Clear \/ Lock \/ Aside \/ Srq \/ HandlerRuns \/ LinkLost \/ OpLost \/ Recover
  \/ Deadline \/ Teardown \/ Hang \/ SoakWatchdog \/ Healthy

SoakSpec == SoakInit /\ [][SoakNext]_soakVars

-----------------------------------------------------------------------------
(* Properties.                                                             *)

\* Every operation, what may be filed, and a reply in the instrument's hands.
AllOps == AlwaysOps \cup {"big_query", "partial_read", "srq", "trigger"}
Complaints == AllOps \cup {"idn", "big", "chunked", "lost", "handler"}
Replies == [what : {"idn", "big"}, rest : Nat \ {0}]
Places ==
  {"top", "op", "reading", "ended", "unended", "raised", "teardown", "hung", "healthy", "done"}

SoakTypeOK ==
  /\ setup \in Setups
  /\ step \in Places
  /\ op \in AllOps \cup {Nothing} /\ inFlight \in AllOps \cup {Nothing}
  /\ named \in AllOps \cup {Nothing}
  /\ ticks \in 0..Ticks /\ mishaps \in 0..MaxMishaps
  /\ queue \in Seq(Replies) /\ size \in Nat \ {0} /\ got \in Nat
  /\ reads \in 0..(RefLen + ReadSlack)
  /\ level \in {0, 1} /\ requested \in BOOLEAN /\ link \in {"up", "lost"}
  /\ unclean \in BOOLEAN
  /\ filed \in SUBSET Complaints
  /\ results \in Seq({"PASS", "FAIL"})

\* Between two operations the session is in step: no reply is left for the next
\* query to mistake for its own, whatever size the reply has grown to, whichever
\* read gave up and whichever answer came late.  So no *IDN? is answered with it, and
\* one fault is not reported again by every operation after it.
InStep == ~unclean => (step = "top" => queue = <<>>) /\ "idn" \notin filed

\* A hang is reported against the operation that hung.
HangNamesItsOperation == named # Nothing => named = op

\* The soak's operations do not inherit each other's replies, and a hang is reported
\* against the one that hung.
SoakStaysInStep == SoakTypeOK /\ InStep /\ HangNamesItsOperation
=============================================================================
