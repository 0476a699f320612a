---------------------------- MODULE Vxi11Mutexes ----------------------------
(***************************************************************************)
(* The std mutexes of server/src/vxi11/server.rs: the link table's, shared *)
(* by every task, and the list of owned links of each connection, shared   *)
(* by its task and its SRQ forwarder.  A task that waits for one blocks    *)
(* its thread.  Who may take what while holding what is all there is here; *)
(* a critical section ends when everything it takes has been taken.  The   *)
(* mutex of a link's srq_handle, innermost wherever it is taken, is left   *)
(* out, and so are the async mutexes, which block no thread.               *)
(***************************************************************************)
EXTENDS Integers, Sequences

CONSTANTS
  Conns,       \* core connections, each served by a task
  Interrupts,  \* the connections that have an interrupt channel
  None

\* The tasks: a core connection, its SRQ forwarder, the abort channel.
Tasks == (Conns \X {"core", "forwarder"}) \cup {<<"abort", "channel">>}
AbortChannel == <<"abort", "channel">>

LinksMutex == <<"links", "table">>
OwnedMutex(c) == <<c, "owned">>
Mutexes == {LinksMutex} \cup {OwnedMutex(c) : c \in Conns}

\* The critical sections of a task, each the mutexes it takes, in order.
\* create_link, and its unwinding, take owned inside the table; serve_connection's
\* end and the forwarder take the table inside owned; destroy_link takes one
\* after the other; link_for takes the table.
Sections(t) ==
  CASE t = AbortChannel -> {<<LinksMutex>>}
    [] t[2] = "core" -> {<<LinksMutex, OwnedMutex(t[1])>>, <<OwnedMutex(t[1]), LinksMutex>>,
                         <<LinksMutex>>, <<OwnedMutex(t[1])>>}
    [] t[2] = "forwarder" -> {<<OwnedMutex(t[1]), LinksMutex>>}

VARIABLES
  owner,  \* mutex -> the task that holds it, or None
  todo    \* task -> the mutexes it has yet to take in its critical section

vars == <<owner, todo>>

Init ==
  /\ owner = [m \in Mutexes |-> None]
  /\ todo = [t \in Tasks |-> <<>>]

Holding(t) == {m \in Mutexes : owner[m] = t}
Inside(t) == todo[t] # <<>> \/ Holding(t) # {}

\* A task comes to a critical section.
Enter(t) ==
  /\ ~Inside(t)
  /\ t[2] = "forwarder" => t[1] \in Interrupts
  /\ \E s \in Sections(t) : todo' = [todo EXCEPT ![t] = s]
  /\ UNCHANGED owner

\* lock().unwrap() returns.
Acquire(t) ==
  /\ todo[t] # <<>> /\ owner[Head(todo[t])] = None
  /\ owner' = [owner EXCEPT ![Head(todo[t])] = t]
  /\ todo' = [todo EXCEPT ![t] = Tail(@)]

\* The guards are dropped together.
Leave(t) ==
  /\ Inside(t) /\ todo[t] = <<>>
  /\ owner' = [m \in Mutexes |-> IF owner[m] = t THEN None ELSE owner[m]]
  /\ UNCHANGED todo

Next == \E t \in Tasks : Enter(t) \/ Acquire(t) \/ Leave(t)

Spec == Init /\ [][Next]_vars

\* Threads run, and a mutex that is released again and again is had at last.
FairSpec == Spec /\ \A t \in Tasks : WF_vars(Leave(t)) /\ SF_vars(Acquire(t))

-----------------------------------------------------------------------------
\* run_abort_channel: "it must answer while a core call is blocked on the bus,
\* which is the whole reason it exists".  The abort channel gets the table it
\* needs.
AbortChannelAnswers == todo[AbortChannel] # <<>> ~> todo[AbortChannel] = <<>>
=============================================================================
