------------------------------ MODULE MCWakeups ------------------------------
(***************************************************************************)
(* Tasks that wait to be told, two specifications in one run: a behaviour  *)
(* is one of LockRegistry, whose waiters are notified, or of               *)
(* Vxi11Interrupts, whose clients are called back, with the fairness each  *)
(* of them states.  The variables of the other stand still.                *)
(***************************************************************************)
EXTENDS LockRegistry, TLC
CONSTANTS a, b, a1, b1, d1, d2, l1, i1, Interface

VARIABLES
  part,   \* which of them this behaviour is
  asking, raises, link, enabled, enabling, current, created, forwarder, initial, unread,
  shutdown, targets, polled, sender, queue, told, unseen   \* Vxi11Interrupts

interrupts ==
  <<asking, raises, link, enabled, enabling, current, created, forwarder, initial, unread,
    shutdown, targets, polled, sender, queue, told, unseen>>

\* Two sessions contending for one instrument, each through one task, with two
\* shared names and two levels of nesting.
MCHolders == {a, b}
MCTasks == {a1, b1}
MCHolderOf == (a1 :> a) @@ (b1 :> b)

\* Two devices and two service requests; a link on one of the devices and an
\* interface link, which watches the line; one interrupt channel.
Devices == {d1, d2}
Links == {l1, i1}
DeviceOf == (l1 :> d1) @@ (i1 :> Interface)
Channels == {1}
Intr == INSTANCE Vxi11Interrupts WITH MaxRaises <- 2, call <- enabling

MCInit == part \in {"locks", "interrupts"} /\ Init /\ Intr!Init
MCNext ==
  \/ part = "locks" /\ Next /\ UNCHANGED <<part, interrupts>>
  \/ part = "interrupts" /\ Intr!Next /\ UNCHANGED <<part, vars>>

\* The fairness that each module states and explains, of the part at hand.
MCSpec ==
  /\ MCInit /\ [][MCNext]_<<part, vars, interrupts>>
  /\ \A t \in Tasks :
       WF_vars(part = "locks" /\ Proceed(t)) /\ WF_vars(part = "locks" /\ Expire(t))
  /\ WF_interrupts(part = "interrupts" /\ \E l \in Links : Intr!LookAtLine(l))
  /\ \A k \in Channels :
       /\ WF_interrupts(part = "interrupts" /\ Intr!Forwarder(k))
       /\ SF_interrupts(part = "interrupts" /\ Intr!Stop(k))
       /\ \A l \in Links : SF_interrupts(part = "interrupts" /\ Intr!Send(k, l))

-----------------------------------------------------------------------------
(* The properties of the other part.                                       *)

\* An enabled link hears of a request that stands, the subscription gap apart.
RequestsAreAnnounced == part = "interrupts" => Intr!RequestsAreAnnounced
\* A destroyed channel's forwarder stops.
ForwardersStop == part = "interrupts" => Intr!ForwardersStop
=============================================================================
