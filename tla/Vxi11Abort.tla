----------------------------- MODULE Vxi11Abort -----------------------------
(***************************************************************************)
(* device_abort against the call it is to terminate, server/src/vxi11/     *)
(* server.rs: one Link, the tasks that run calls on it inside an OpWindow, *)
(* and the tasks of the abort channel.  in_flight and aborted are separate *)
(* atomics and abort_notify a Notify, so every load, store, swap and       *)
(* wakeup is a step of its own.                                            *)
(***************************************************************************)
EXTENDS Integers

CONSTANTS
  Callers,    \* core connections that run calls on the link
  Aborters,   \* abort channel connections
  MaxCalls,   \* bound: calls each connection makes
  MaxAborts   \* bound: device_aborts each abort connection delivers

ASSUME CountsAssumption == MaxCalls \in Nat /\ MaxAborts \in Nat

VARIABLES
  in_flight, aborted,  \* Link's atomics
  permit,     \* abort_notify holds a permit
  kind,       \* connection -> the kind of call it runs
  pc,         \* connection -> where in the call it is
  result,     \* connection -> what the call it ran last answers
  calls,      \* connection -> calls made
  abortPc,    \* abort connection -> where in abort_dispatch it is
  aborts,     \* abort connection -> device_aborts handled
  target,     \* history: connections whose call was in its window when an
              \* abort that saw in_flight was delivered
  stored, terminated  \* history: aborts stored, calls answered with Abort

link == <<in_flight, aborted, permit>>
calling == <<kind, pc, result, calls>>
aborting == <<abortPc, aborts>>
history == <<target, stored, terminated>>
abortVars == <<link, calling, aborting, history>>

\* device_lock waits for the registry; device_write and device_read move data in
\* chunks or slices; device_readstb, device_docmd and the generic operations do
\* one thing on the bus.
Kinds == {"lock", "write", "read", "simple"}

\* "select" in device_lock's loop; "check" at the top of the transfer loop;
\* "bus" in a bus operation; "final" past it, before the last look at aborted;
\* "drop" and "dropped" are the two stores of OpWindow's drop.
Pcs == {"idle", "select", "check", "bus", "final", "drop", "dropped"}

AbortTypeOK ==
  /\ in_flight \in BOOLEAN /\ aborted \in BOOLEAN /\ permit \in BOOLEAN
  /\ kind \in [Callers -> Kinds]
  /\ pc \in [Callers -> Pcs]
  /\ result \in [Callers -> {"none", "done", "abort"}]
  /\ calls \in [Callers -> 0..MaxCalls]
  /\ abortPc \in [Aborters -> {"idle", "store", "notify"}]
  /\ aborts \in [Aborters -> 0..MaxAborts]
  /\ target \subseteq Callers
  /\ stored \in Nat /\ terminated \in Nat
  /\ \A c \in Callers :
       /\ pc[c] = "select" => kind[c] = "lock"
       /\ pc[c] = "check" => kind[c] \in {"write", "read"}

AbortInit ==
  /\ in_flight = FALSE /\ aborted = FALSE /\ permit = FALSE
  /\ kind = [c \in Callers |-> "simple"]
  /\ pc = [c \in Callers |-> "idle"]
  /\ result = [c \in Callers |-> "none"]
  /\ calls = [c \in Callers |-> 0]
  /\ abortPc = [a \in Aborters |-> "idle"]
  /\ aborts = [a \in Aborters |-> 0]
  /\ target = {} /\ stored = 0 /\ terminated = 0

CallGoto(c, state) == pc' = [pc EXCEPT ![c] = state]
Answer(c, r) == result' = [result EXCEPT ![c] = r] /\ CallGoto(c, "drop")
InWindow(c) == pc[c] # "idle"

\* The call of c answers Abort.
AnswerAbort(c) ==
  /\ Answer(c, "abort")
  /\ terminated' = terminated + 1
  /\ UNCHANGED <<kind, calls, target, stored>>

-----------------------------------------------------------------------------
(* A call, past its lock gate.                                             *)

\* Mutant of TakeAbort: a load where there is a swap.
TakeAbortLoads == UNCHANGED aborted

\* OpWindow::take_abort, a swap.
TakeAbort == aborted' = FALSE

\* OpWindow::open does not look at aborted.
Open(c, k) ==
  /\ pc[c] = "idle" /\ calls[c] < MaxCalls
  /\ calls' = [calls EXCEPT ![c] = @ + 1]
  /\ kind' = [kind EXCEPT ![c] = k]
  /\ CallGoto(c, CASE k = "lock" -> "select" [] k = "simple" -> "bus" [] OTHER -> "check")
  /\ result' = [result EXCEPT ![c] = "none"]
  /\ in_flight' = TRUE
  /\ target' = target \ {c}
  /\ UNCHANGED <<aborted, permit, aborting, stored, terminated>>

\* device_lock: the request is granted or times out.
LockEnds(c) ==
  /\ pc[c] = "select"
  /\ Answer(c, "done")
  /\ UNCHANGED <<link, kind, calls, aborting, history>>

\* Mutant of Notified: the permit is taken and aborted not looked at.
NotifiedIgnores(c) ==
  /\ pc[c] = "select" /\ permit
  /\ permit' = FALSE
  /\ UNCHANGED <<in_flight, aborted, calling, aborting, history>>

\* device_lock: abort_notify wakes the wait.  A stale permit finds nothing.
Notified(c) ==
  /\ pc[c] = "select" /\ permit
  /\ permit' = FALSE
  /\ TakeAbort
  /\ IF aborted THEN AnswerAbort(c) ELSE UNCHANGED <<calling, history>>
  /\ UNCHANGED <<in_flight, aborting>>

\* The top of the transfer loop: an abort, the deadline, or another chunk.
Check(c) ==
  /\ pc[c] = "check"
  /\ TakeAbort
  /\ \/ aborted /\ AnswerAbort(c)
     \/ /\ ~aborted
        /\ \/ CallGoto(c, "bus") /\ UNCHANGED result
           \/ Answer(c, "done")
        /\ UNCHANGED <<kind, calls, history>>
  /\ UNCHANGED <<in_flight, permit, aborting>>

\* A chunk or a slice that is not the last: back to the top of the loop.
MoreToTransfer(c) ==
  /\ pc[c] = "bus" /\ kind[c] \in {"write", "read"}
  /\ CallGoto(c, "check")
  /\ UNCHANGED <<link, kind, result, calls, aborting, history>>

\* The bus operation ends the call: a read answers with what it has, so does a
\* write that failed or a command refused for its parameters, and the rest look
\* at aborted once more.
TransferEnds(c) ==
  /\ pc[c] = "bus"
  /\ \/ Answer(c, "done")
     \/ kind[c] \in {"write", "simple"} /\ CallGoto(c, "final") /\ UNCHANGED result
  /\ UNCHANGED <<link, kind, calls, aborting, history>>

Final(c) ==
  /\ pc[c] = "final"
  /\ TakeAbort
  /\ IF aborted THEN AnswerAbort(c)
                ELSE Answer(c, "done") /\ UNCHANGED <<kind, calls, history>>
  /\ UNCHANGED <<in_flight, permit, aborting>>

\* OpWindow::drop discards an abort that was not consumed, then closes.
Discard(c) ==
  /\ pc[c] = "drop"
  /\ aborted' = FALSE
  /\ CallGoto(c, "dropped")
  /\ UNCHANGED <<in_flight, permit, kind, result, calls, aborting, history>>

Close(c) ==
  /\ pc[c] = "dropped"
  /\ in_flight' = FALSE
  /\ CallGoto(c, "idle")
  /\ UNCHANGED <<aborted, permit, kind, result, calls, aborting, history>>

-----------------------------------------------------------------------------
(* abort_dispatch.                                                         *)

\* in_flight is loaded: without a call in progress the abort is a no-op.
Load(a) ==
  /\ abortPc[a] = "idle" /\ aborts[a] < MaxAborts
  /\ aborts' = [aborts EXCEPT ![a] = @ + 1]
  /\ IF in_flight
       THEN /\ abortPc' = [abortPc EXCEPT ![a] = "store"]
            /\ target' = target \cup {c \in Callers : InWindow(c)}
       ELSE UNCHANGED <<abortPc, target>>
  /\ UNCHANGED <<link, calling, stored, terminated>>

Store(a) ==
  /\ abortPc[a] = "store"
  /\ aborted' = TRUE
  /\ stored' = stored + 1
  /\ abortPc' = [abortPc EXCEPT ![a] = "notify"]
  /\ UNCHANGED <<in_flight, permit, calling, aborts, target, terminated>>

\* notify_one: a waiter is woken or one permit is kept.
NotifyOne(a) ==
  /\ abortPc[a] = "notify"
  /\ permit' = TRUE
  /\ abortPc' = [abortPc EXCEPT ![a] = "idle"]
  /\ UNCHANGED <<in_flight, aborted, calling, aborts, history>>

-----------------------------------------------------------------------------
Wakeup(c) == Notified(c)
Transfer(c) == Check(c) \/ MoreToTransfer(c) \/ TransferEnds(c) \/ Final(c)
DropWindow(c) == Discard(c) \/ Close(c)
Dispatch(a) == Store(a) \/ NotifyOne(a)

AbortNext ==
  \/ \E c \in Callers :
       \/ \E k \in Kinds : Open(c, k)
       \/ LockEnds(c) \/ Wakeup(c) \/ Transfer(c) \/ DropWindow(c)
  \/ \E a \in Aborters : Load(a) \/ Dispatch(a)

AbortSpec == AbortInit /\ [][AbortNext]_abortVars

\* Tasks that can run do; a lock wait may last (lock_timeout is the client's).
AbortFairness ==
  /\ \A c \in Callers :
       WF_abortVars(Wakeup(c)) /\ WF_abortVars(Transfer(c)) /\ WF_abortVars(DropWindow(c))
  /\ \A a \in Aborters : WF_abortVars(Dispatch(a))
FairAbortSpec == AbortSpec /\ AbortFairness

-----------------------------------------------------------------------------
(* Properties.                                                             *)

\* One device_abort terminates at most one call, even when several connections
\* run calls on one link.
AbortIsConsumedOnce == AbortTypeOK /\ terminated <= stored

\* Link::in_flight: an abort that lands between calls is "a no-op, not a poison
\* pill for the next".  A call answers Abort only if an abort was delivered while
\* that call was in its window.
AbortHitsItsTarget == \A c \in Callers : result[c] = "abort" => c \in target

\* RULE B.6.76 and B.6.29: a call that is alone on its link once device_abort has
\* seen it does not outlive the abort: neither a lock wait nor a transfer that
\* goes on and on, whatever permits and flags earlier calls and aborts left.
AbortedCallsReturn ==
  \A c \in Callers, a \in Aborters :
    /\ abortPc[a] = "store" /\ InWindow(c)
    /\ [](\A k \in Callers \ {c} : ~InWindow(k))
    ~> ~InWindow(c)
=============================================================================
