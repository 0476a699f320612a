-------------------------- MODULE Vxi11Interrupts --------------------------
(***************************************************************************)
(* The VXI-11 interrupt channel, server/src/vxi11/server.rs: how a service *)
(* request on the bus becomes device_intr_srq calls to one client.  The    *)
(* connection's task creates and destroys channels and enables links; each *)
(* channel has a forwarder, which watches the SRQ broadcast and polls, and *)
(* a sender, which owns the socket.  A destroyed channel's forwarder       *)
(* outlives it until it next comes to the top of its loop.                 *)
(*                                                                         *)
(* A handle is its link; several equal handles in a queue count as one.    *)
(* The connection has created its links already (Vxi11Links); the mutexes  *)
(* the forwarder takes are in Vxi11Mutexes.  The order in which a pass     *)
(* comes to its targets is left open.                                      *)
(***************************************************************************)
EXTENDS Integers

CONSTANTS
  Devices,    \* instruments on the bus
  Links,      \* links the connection has created
  DeviceOf,   \* the instrument of a link, Interface for an interface link
  Interface,
  Channels,   \* interrupt channels the connection creates, one after the other
  MaxRaises   \* bound: service requests

VARIABLES
  asking,    \* devices whose MSS is set; the line is up while there are any
  raises,    \* service requests so far
  link,      \* link -> "live" or "destroyed"
  enabled,   \* links with an srq_handle
  call,      \* the link device_enable_srq is about to look at the line for
  current,   \* conn.intr: the channel there is, 0 if none
  created,   \* channels created so far
  forwarder, \* channel -> where its forwarder is: "none", "started", "sampled" (the line
             \* was read, the broadcast not yet subscribed to), "loop", "pass", "stopped"
  initial,   \* channel -> starts_asserted, then initial_pass
  unread,    \* channel -> broadcasts its forwarder has yet to receive
  shutdown,  \* channel -> the shutdown permit
  targets,   \* channel -> links the pass has yet to deal with
  polled,    \* channel -> device -> what the pass knows of it
  sender,    \* channel -> "none", "up" or "down"
  queue,     \* channel -> links whose handles wait to be sent
  told,      \* history: links notified since they were enabled and since
             \* their device last asked
  unseen     \* history: devices that asked between a forwarder's look at the
             \* line, then down, and its subscription

bus == <<asking, raises>>
conn == <<link, enabled, call, current, created>>
forwarding == <<forwarder, initial, unread, shutdown, targets, polled>>
sending == <<sender, queue>>
vars == <<bus, conn, forwarding, sending, told, unseen>>

Unknown == "unknown"
NotPolled == [d \in Devices |-> Unknown]

Init ==
  /\ asking = {} /\ raises = 0
  /\ link = [l \in Links |-> "live"] /\ enabled = {} /\ call = {}
  /\ current = 0 /\ created = 0
  /\ forwarder = [k \in Channels |-> "none"]
  /\ initial = [k \in Channels |-> FALSE] /\ unread = [k \in Channels |-> 0]
  /\ shutdown = [k \in Channels |-> FALSE] /\ targets = [k \in Channels |-> {}]
  /\ polled = [k \in Channels |-> NotPolled]
  /\ sender = [k \in Channels |-> "none"] /\ queue = [k \in Channels |-> {}]
  /\ told = {} /\ unseen = {}

LineUp == asking # {}

-----------------------------------------------------------------------------
(* The bus, as VirtualInstrument has it.                                   *)

\* update_srq: the edge is broadcast to whoever has subscribed.
Raise(d) ==
  /\ raises < MaxRaises /\ d \notin asking
  /\ asking' = asking \cup {d}
  /\ raises' = raises + 1
  /\ unread' = [k \in Channels |->
                 IF forwarder[k] \in {"loop", "pass"} THEN unread[k] + 1 ELSE unread[k]]
  /\ told' = {l \in told : DeviceOf[l] \notin {d, Interface}}
  /\ unseen' = IF current # 0 /\ forwarder[current] = "sampled" /\ ~initial[current]
                 THEN unseen \cup {d} ELSE unseen
  /\ UNCHANGED <<conn, forwarder, initial, shutdown, targets, polled, sending>>

\* The client, or anybody, takes away the cause of the request.
Serve(d) ==
  /\ d \in asking
  /\ asking' = asking \ {d}
  /\ unseen' = unseen \ {d}
  /\ UNCHANGED <<raises, conn, forwarding, sending, told>>

-----------------------------------------------------------------------------
(* The connection's task, one call at a time.                              *)

\* destroy_link; a forwarder that has the link among its targets keeps it.
DestroyLink(l) ==
  /\ call = {} /\ link[l] = "live"
  /\ link' = [link EXCEPT ![l] = "destroyed"]
  /\ UNCHANGED <<bus, enabled, call, current, created, forwarding, sending, told, unseen>>

\* Mutant of EnableSrq: the line is not looked at.
EnableSrqBlindly(l) ==
  /\ call = {} /\ link[l] = "live"
  /\ enabled' = enabled \cup {l}
  /\ told' = IF l \in enabled THEN told ELSE told \ {l}
  /\ UNCHANGED <<bus, link, call, current, created, forwarding, sending, unseen>>

\* device_enable_srq: the handle is registered; if that is news and there is a
\* channel, the line is looked at next.
EnableSrq(l) ==
  /\ call = {} /\ link[l] = "live"
  /\ enabled' = enabled \cup {l}
  /\ call' = IF l \notin enabled /\ current # 0 THEN {l} ELSE {}
  /\ told' = IF l \in enabled THEN told ELSE told \ {l}
  /\ UNCHANGED <<bus, link, current, created, forwarding, sending, unseen>>

\* RULE B.4.14: the line is up already.
LookAtLine(l) ==
  /\ l \in call
  /\ call' = {}
  /\ queue' = IF LineUp /\ sender[current] = "up"
                THEN [queue EXCEPT ![current] = @ \cup {l}] ELSE queue
  /\ UNCHANGED <<bus, link, enabled, current, created, forwarding, sender, told, unseen>>

DisableSrq(l) ==
  /\ call = {} /\ link[l] = "live"
  /\ enabled' = enabled \ {l}
  /\ UNCHANGED <<bus, link, call, current, created, forwarding, sending, told, unseen>>

\* create_intr_chan: RULE B.6.89, one channel at a time.
CreateIntrChan ==
  /\ call = {} /\ current = 0 /\ created + 1 \in Channels
  /\ current' = created + 1
  /\ created' = created + 1
  /\ forwarder' = [forwarder EXCEPT ![created + 1] = "started"]
  /\ sender' = [sender EXCEPT ![created + 1] = "up"]
  /\ UNCHANGED <<bus, link, enabled, call, initial, unread, shutdown, targets, polled,
                 queue, told, unseen>>

\* Mutant of DestroyIntrChan: the forwarder is not told.
DestroyIntrChanQuietly ==
  /\ call = {} /\ current # 0
  /\ current' = 0
  /\ sender' = [sender EXCEPT ![current] = "down"]
  /\ queue' = [queue EXCEPT ![current] = {}]
  /\ UNCHANGED <<bus, link, enabled, call, created, forwarding, told, unseen>>

\* IntrChannel::drop, in destroy_intr_chan or at the connection's end: a permit
\* for the forwarder, and the sender is aborted.
DestroyIntrChan ==
  /\ call = {} /\ current # 0
  /\ current' = 0
  /\ shutdown' = [shutdown EXCEPT ![current] = TRUE]
  /\ sender' = [sender EXCEPT ![current] = "down"]
  /\ queue' = [queue EXCEPT ![current] = {}]
  /\ UNCHANGED <<bus, link, enabled, call, created, forwarder, initial, unread, targets,
                 polled, told, unseen>>

-----------------------------------------------------------------------------
(* The forwarder.                                                          *)

\* starts_asserted.
Sample(k) ==
  /\ forwarder[k] = "started"
  /\ forwarder' = [forwarder EXCEPT ![k] = "sampled"]
  /\ initial' = [initial EXCEPT ![k] = LineUp]
  /\ UNCHANGED <<bus, conn, unread, shutdown, targets, polled, sending, told, unseen>>

Subscribe(k) ==
  /\ forwarder[k] = "sampled"
  /\ forwarder' = [forwarder EXCEPT ![k] = "loop"]
  /\ UNCHANGED <<bus, conn, initial, unread, shutdown, targets, polled, sending, told, unseen>>

\* The connection's enabled links that are in the table.
Targets == {l \in enabled : link[l] = "live"}

\* The initial pass, or one broadcast received: collect the targets.
BeginPass(k) ==
  /\ forwarder[k] = "loop"
  /\ IF initial[k]
       THEN initial' = [initial EXCEPT ![k] = FALSE] /\ UNCHANGED unread
       ELSE unread[k] > 0 /\ unread' = [unread EXCEPT ![k] = @ - 1] /\ UNCHANGED initial
  /\ targets' = [targets EXCEPT ![k] = Targets]
  /\ forwarder' = [forwarder EXCEPT ![k] = "pass"]
  /\ UNCHANGED <<bus, conn, shutdown, polled, sending, told, unseen>>

\* The shutdown permit is looked at here and nowhere else.
Stop(k) ==
  /\ forwarder[k] = "loop" /\ ~initial[k] /\ shutdown[k]
  /\ shutdown' = [shutdown EXCEPT ![k] = FALSE]
  /\ unread' = [unread EXCEPT ![k] = 0]
  /\ forwarder' = [forwarder EXCEPT ![k] = "stopped"]
  /\ UNCHANGED <<bus, conn, initial, targets, polled, sending, told, unseen>>

\* One serial poll per instrument and pass; it does not end the request.
Poll(k, l) ==
  /\ forwarder[k] = "pass" /\ l \in targets[k]
  /\ DeviceOf[l] # Interface /\ polled[k][DeviceOf[l]] = Unknown
  /\ polled' = [polled EXCEPT ![k][DeviceOf[l]] =
                     IF DeviceOf[l] \in asking THEN "yes" ELSE "no"]
  /\ UNCHANGED <<bus, conn, forwarder, initial, unread, shutdown, targets, sending, told, unseen>>

Requesting(k, l) == DeviceOf[l] = Interface \/ polled[k][DeviceOf[l]] = "yes"

\* The link's turn: its handle, if it still has one, goes to the sender.
Announce(k, l) ==
  /\ forwarder[k] = "pass" /\ l \in targets[k]
  /\ DeviceOf[l] # Interface => polled[k][DeviceOf[l]] # Unknown
  /\ targets' = [targets EXCEPT ![k] = @ \ {l}]
  /\ queue' = IF Requesting(k, l) /\ l \in enabled /\ sender[k] = "up"
                THEN [queue EXCEPT ![k] = @ \cup {l}] ELSE queue
  /\ UNCHANGED <<bus, conn, forwarder, initial, unread, shutdown, polled, sender, told, unseen>>

EndPass(k) ==
  /\ forwarder[k] = "pass" /\ targets[k] = {}
  /\ forwarder' = [forwarder EXCEPT ![k] = "loop"]
  /\ polled' = [polled EXCEPT ![k] = NotPolled]
  /\ UNCHANGED <<bus, conn, initial, unread, shutdown, targets, sending, told, unseen>>

-----------------------------------------------------------------------------
(* The sender.                                                             *)

\* device_intr_srq, answered or not: the wait for the reply is bounded.
Send(k, l) ==
  /\ sender[k] = "up" /\ l \in queue[k]
  /\ queue' = [queue EXCEPT ![k] = @ \ {l}]
  /\ told' = told \cup {l}
  /\ UNCHANGED <<bus, conn, forwarding, sender, unseen>>

\* write_record fails: the task returns, and the channel is there and mute.
SenderFails(k) ==
  /\ sender[k] = "up" /\ queue[k] # {}
  /\ sender' = [sender EXCEPT ![k] = "down"]
  /\ queue' = [queue EXCEPT ![k] = {}]
  /\ UNCHANGED <<bus, conn, forwarding, told, unseen>>

-----------------------------------------------------------------------------
Connection ==
  \/ \E l \in Links : DestroyLink(l) \/ EnableSrq(l) \/ DisableSrq(l)
  \/ CreateIntrChan \/ DestroyIntrChan

Forwarder(k) ==
  \/ Sample(k) \/ Subscribe(k) \/ BeginPass(k) \/ EndPass(k)
  \/ \E l \in Links : Poll(k, l) \/ Announce(k, l)

Next ==
  \/ \E d \in Devices : Raise(d) \/ Serve(d)
  \/ Connection
  \/ \E l \in Links : LookAtLine(l)
  \/ \E k \in Channels : Forwarder(k) \/ Stop(k) \/ SenderFails(k) \/ \E l \in Links : Send(k, l)

Spec == Init /\ [][Next]_vars

\* Tasks that can run do; select! does not always pass over the same branch.
Fairness ==
  /\ WF_vars(\E l \in Links : LookAtLine(l))
  /\ \A k \in Channels :
       /\ WF_vars(Forwarder(k)) /\ SF_vars(Stop(k))
       /\ \A l \in Links : SF_vars(Send(k, l))
FairSpec == Spec /\ Fairness

-----------------------------------------------------------------------------
(* Properties.                                                             *)

\* l is a link its client waits on: it is enabled, its device asks (for an
\* interface link: some device), the channel works.
Expected(l) ==
  /\ link[l] = "live" /\ l \in enabled
  /\ IF DeviceOf[l] = Interface THEN LineUp ELSE DeviceOf[l] \in asking
  /\ current # 0 /\ sender[current] = "up"

\* create_intr_chan's forwarder and RULE B.4.14 together: a request is announced
\* however it is ordered with device_enable_srq and the creation of the channel,
\* unless a device asked in the gap between the forwarder's look at the line, which
\* was down, and its subscription.
RequestsAreAnnounced ==
  \A l \in Links : <>[](Expected(l) /\ unseen = {}) => []<>(l \in told)

\* IntrChannel: the forwarder "is asked, never aborted", and it does stop, in the
\* middle of whatever pass the channel was destroyed.
ForwardersStop ==
  \A k \in Channels : (created >= k /\ current # k) ~> forwarder[k] = "stopped"
=============================================================================
