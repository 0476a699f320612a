-------------------------- MODULE HislipChannels --------------------------
(***************************************************************************)
(* One HiSLIP session's two channels, server/src/hislip/server.rs: the     *)
(* sync loop assembles Data messages into commands, runs them and replies; *)
(* the async loop clears the device and answers status queries, at the     *)
(* same time, sharing only clear_epoch, mav, last_message_id and the bus.  *)
(* Each load and each store of those three is a step.                      *)
(*                                                                         *)
(* The client follows the device clear of section 6.12: it sends nothing   *)
(* on the sync channel from AsyncDeviceClear to DeviceClearAcknowledge but *)
(* DeviceClearComplete, and throws away the replies of that time.  A byte  *)
(* is abstracted to its generation, the number of device clears its sender *)
(* had completed.  Sessions run synchronized, as the daemon's do.  Another *)
(* session takes and frees the instrument's lock as it likes; this one     *)
(* asks for none (its locks are HislipSessions').                          *)
(***************************************************************************)
EXTENDS Integers, Sequences, SequencesExt

CONSTANTS
  MaxMessages,  \* bound: Data, DataEND and Trigger messages the client sends
  MaxClears,    \* bound: device clears
  MaxQueries    \* bound: status queries

ASSUME BoundsAssumption == MaxMessages \in Nat /\ MaxClears \in Nat /\ MaxQueries \in Nat

VARIABLES
  toSync, toAsync,      \* what the client has sent and the server not yet read
  fromSync, fromAsync,  \* what the server has written and the client not read
  gen,       \* client: device clears completed
  phase,     \* client: "io", or a device clear "asked" for or "completing"
  sent,      \* client: messages sent; the MessageID of the last one
  consumed,  \* client: it read a reply and has not yet said so (RMT-delivered)
  queries,   \* client: status queries sent
  drained,   \* client, chosen once: it clears only when the server has read all it
             \* sent on the sync channel, and looked at clear_epoch since
  buffer,    \* sync loop: the command being assembled
  epoch,     \* sync loop: its snapshot of clear_epoch
  syncPc,    \* sync loop: "read"ing; with a message to "note", or its id "noted" and
             \* the rest to do; "wait"ing for access and the bus, on the bus ("exec"),
             \* or with a "reply" to be written
  cmd,       \* sync loop: the command being executed, empty for a Trigger
  msg,       \* sync loop: the message being noted
  asyncPc,   \* async loop: "read"; at the "gate" of a clear, waiting for access; in
             \* the "clear", waiting for the bus; a "status" query polled, mav not yet
             \* loaded; or "mav" loaded and up, last_message_id not yet loaded
  query,     \* async loop: the MessageID the status query quotes
  locked,    \* another session holds the instrument's lock
  clear_epoch, mav, last_message_id   \* SessionEntry

client == <<gen, phase, sent, consumed, queries, drained>>
syncLoop == <<buffer, epoch, syncPc, cmd, msg>>
asyncLoop == <<asyncPc, query>>
shared == <<clear_epoch, mav, last_message_id>>
wires == <<toSync, toAsync, fromSync, fromAsync>>
vars == <<wires, client, syncLoop, asyncLoop, shared, locked>>

Gens == 0..MaxClears
SyncMessages ==
  [kind : {"Data", "DataEnd", "Trigger", "ClearComplete"},
   gen : Gens, id : 0..MaxMessages, rmt : BOOLEAN]
NoMessage == [kind |-> "Data", gen |-> 0, id |-> 0, rmt |-> FALSE]
AsyncMessages == [kind : {"Clear", "Status"}, id : 0..MaxMessages]
SyncReplies == [kind : {"Reply", "ClearAck"}, gen : Gens]
AsyncReplies == [kind : {"ClearAck", "Status"}, mav : BOOLEAN]

TypeOK ==
  /\ toSync \in Seq(SyncMessages) /\ toAsync \in Seq(AsyncMessages)
  /\ fromSync \in Seq(SyncReplies) /\ fromAsync \in Seq(AsyncReplies)
  /\ gen \in Gens /\ phase \in {"io", "asked", "completing"}
  /\ sent \in 0..MaxMessages /\ consumed \in BOOLEAN /\ queries \in 0..MaxQueries
  /\ drained \in BOOLEAN
  /\ buffer \in Seq(Gens) /\ cmd \in Seq(Gens)
  /\ epoch \in Gens /\ clear_epoch \in Gens
  /\ syncPc \in {"read", "note", "noted", "wait", "exec", "reply"} /\ msg \in SyncMessages
  /\ asyncPc \in {"read", "gate", "clear", "status", "mav"} /\ query \in 0..MaxMessages
  /\ locked \in BOOLEAN
  /\ mav \in BOOLEAN /\ last_message_id \in 0..MaxMessages

Init ==
  /\ toSync = <<>> /\ toAsync = <<>> /\ fromSync = <<>> /\ fromAsync = <<>>
  /\ gen = 0 /\ phase = "io" /\ sent = 0 /\ consumed = FALSE /\ queries = 0
  /\ drained \in BOOLEAN
  /\ buffer = <<>> /\ epoch = 0 /\ syncPc = "read" /\ cmd = <<>> /\ msg = NoMessage
  /\ asyncPc = "read" /\ query = 0 /\ locked = FALSE
  /\ clear_epoch = 0 /\ mav = FALSE /\ last_message_id = 0

-----------------------------------------------------------------------------
(* The client.                                                             *)

SendMessage(kind) ==
  /\ phase = "io" /\ sent < MaxMessages
  /\ sent' = sent + 1
  /\ toSync' = Append(toSync, [kind |-> kind, gen |-> gen, id |-> sent + 1, rmt |-> consumed])
  /\ consumed' = FALSE
  /\ UNCHANGED <<toAsync, fromSync, fromAsync, gen, phase, queries, drained, syncLoop,
                 asyncLoop, shared, locked>>

SendClear ==
  /\ phase = "io" /\ gen < MaxClears
  /\ drained => toSync = <<>>
  /\ phase' = "asked"
  /\ toAsync' = Append(toAsync, [kind |-> "Clear", id |-> sent])
  /\ UNCHANGED <<toSync, fromSync, fromAsync, gen, sent, consumed, queries, drained, syncLoop,
                 asyncLoop, shared, locked>>

\* A status query quotes the MessageID of the last message sent.
SendStatusQuery ==
  /\ queries < MaxQueries
  /\ queries' = queries + 1
  /\ toAsync' = Append(toAsync, [kind |-> "Status", id |-> sent])
  /\ UNCHANGED <<toSync, fromSync, fromAsync, gen, phase, sent, consumed, drained, syncLoop,
                 asyncLoop, shared, locked>>

\* AsyncDeviceClearAcknowledge is answered with DeviceClearComplete.
ReadAsync ==
  /\ fromAsync # <<>>
  /\ fromAsync' = Tail(fromAsync)
  /\ IF Head(fromAsync).kind = "ClearAck"
       THEN /\ phase' = "completing"
            /\ toSync' = Append(toSync,
                 [kind |-> "ClearComplete", gen |-> gen, id |-> sent, rmt |-> FALSE])
       ELSE UNCHANGED <<phase, toSync>>
  /\ UNCHANGED <<toAsync, fromSync, gen, sent, consumed, queries, drained, syncLoop,
                 asyncLoop, shared, locked>>

\* A reply is consumed, or thrown away during a clear; DeviceClearAcknowledge
\* ends the clear.
ReadSync ==
  /\ fromSync # <<>>
  /\ fromSync' = Tail(fromSync)
  /\ IF Head(fromSync).kind = "ClearAck"
       THEN phase' = "io" /\ gen' = gen + 1 /\ consumed' = FALSE
       ELSE consumed' = (phase = "io") /\ UNCHANGED <<phase, gen>>
  /\ UNCHANGED <<toSync, toAsync, fromAsync, sent, queries, drained, syncLoop, asyncLoop,
                 shared, locked>>

-----------------------------------------------------------------------------
(* The sync loop.                                                          *)

\* Mutant of Unclear: the loop does not look at clear_epoch.
UnclearNever == buffer

\* The buffer the next message finds: void if a device clear came since.
Unclear == IF clear_epoch # epoch THEN <<>> ELSE buffer

\* Data, DataEND, Trigger: read off the socket, and the buffer voided if a clear came.
ReadMessage ==
  /\ syncPc = "read" /\ toSync # <<>> /\ Head(toSync).kind # "ClearComplete"
  /\ toSync' = Tail(toSync)
  /\ msg' = Head(toSync)
  /\ epoch' = clear_epoch
  /\ buffer' = Unclear
  /\ syncPc' = "note"
  /\ UNCHANGED <<toAsync, fromSync, fromAsync, client, cmd, asyncLoop, shared, locked>>

\* note_client_message, its first store: the id a status query has to quote.
NoteClientMessage ==
  /\ syncPc = "note"
  /\ last_message_id' = msg.id
  /\ syncPc' = "noted"
  /\ UNCHANGED <<wires, client, buffer, epoch, cmd, msg, asyncLoop, clear_epoch, mav, locked>>

\* Mutant of NoteDelivered: RMT-delivered is not looked at.
NoteDeliveredNever == UNCHANGED mav

\* note_client_message, its second store: MAV goes down if the client says it has
\* consumed the reply.
NoteDelivered == mav' = (mav /\ ~msg.rmt)

\* The rest of it, and the message assembled; a command is executed once complete.  A
\* Trigger leaves a half-assembled command alone.
HandleMessage ==
  /\ syncPc = "noted"
  /\ NoteDelivered
  /\ CASE msg.kind = "Data" ->
            buffer' = Append(buffer, msg.gen) /\ syncPc' = "read" /\ UNCHANGED cmd
       [] msg.kind = "DataEnd" ->
            buffer' = <<>> /\ cmd' = Append(buffer, msg.gen) /\ syncPc' = "wait"
       [] msg.kind = "Trigger" ->
            syncPc' = "wait" /\ UNCHANGED <<buffer, cmd>>
  /\ msg' = NoMessage
  /\ UNCHANGED <<wires, client, epoch, asyncLoop, clear_epoch, last_message_id, locked>>

\* DeviceClearComplete: set_overlapped drops MAV, DeviceClearAcknowledge follows.
ReadClearComplete ==
  /\ syncPc = "read" /\ toSync # <<>> /\ Head(toSync).kind = "ClearComplete"
  /\ toSync' = Tail(toSync)
  /\ epoch' = clear_epoch
  /\ buffer' = Unclear
  /\ mav' = FALSE
  /\ fromSync' = Append(fromSync, [kind |-> "ClearAck", gen |-> Head(toSync).gen])
  /\ UNCHANGED <<toAsync, fromAsync, client, syncPc, cmd, msg, asyncLoop, clear_epoch,
                 last_message_id, locked>>

\* wait_for_access is over and the bus is free: execute or trigger starts.
TakeBus ==
  /\ syncPc = "wait" /\ ~locked
  /\ syncPc' = "exec"
  /\ UNCHANGED <<wires, client, buffer, epoch, cmd, msg, asyncLoop, shared, locked>>

\* execute returns data: MAV goes up, the reply is about to be written.
ExecuteQuery ==
  /\ syncPc = "exec" /\ cmd # <<>>
  /\ syncPc' = "reply"
  /\ mav' = TRUE
  /\ UNCHANGED <<wires, client, buffer, epoch, cmd, msg, asyncLoop, clear_epoch, last_message_id,
                 locked>>

\* execute returns no data, or an error that a non-fatal Error message reports;
\* trigger is done.
ExecuteCommand ==
  /\ syncPc = "exec"
  /\ syncPc' = "read"
  /\ cmd' = <<>>
  /\ UNCHANGED <<wires, client, buffer, epoch, msg, asyncLoop, shared, locked>>

\* write_response.
WriteReply ==
  /\ syncPc = "reply"
  /\ syncPc' = "read"
  /\ fromSync' = Append(fromSync, [kind |-> "Reply", gen |-> Last(cmd)])
  /\ cmd' = <<>>
  /\ UNCHANGED <<toSync, toAsync, fromAsync, client, buffer, epoch, msg, asyncLoop, shared, locked>>

-----------------------------------------------------------------------------
(* The async loop.                                                         *)

\* AsyncDeviceClear: wait_for_access comes first.
ReadClear ==
  /\ asyncPc = "read" /\ toAsync # <<>> /\ Head(toAsync).kind = "Clear"
  /\ toAsync' = Tail(toAsync)
  /\ asyncPc' = "gate"
  /\ UNCHANGED <<toSync, fromSync, fromAsync, client, syncLoop, query, shared, locked>>

\* wait_for_access is over; the epoch is bumped before the bus is asked for.
PassGate ==
  /\ asyncPc = "gate" /\ ~locked
  /\ clear_epoch' = clear_epoch + 1
  /\ asyncPc' = "clear"
  /\ UNCHANGED <<wires, client, syncLoop, query, mav, last_message_id, locked>>

\* Mutant of ClearDevice: DeviceClearAcknowledge is left to the async loop,
\* which does not wait for the sync loop's reply.
ClearDeviceAcksBoth ==
  /\ asyncPc = "clear" /\ syncPc # "exec"
  /\ asyncPc' = "read"
  /\ fromAsync' = Append(fromAsync, [kind |-> "ClearAck", mav |-> FALSE])
  /\ fromSync' = Append(fromSync, [kind |-> "ClearAck", gen |-> gen])
  /\ UNCHANGED <<toSync, toAsync, client, syncLoop, query, shared, locked>>

\* Mutant of ClearDevice: it waits for the sync loop to drop its half command.
ClearDeviceWaitsForBuffer ==
  /\ asyncPc = "clear" /\ syncPc # "exec" /\ buffer = <<>>
  /\ asyncPc' = "read"
  /\ fromAsync' = Append(fromAsync, [kind |-> "ClearAck", mav |-> FALSE])
  /\ UNCHANGED <<toSync, toAsync, fromSync, client, syncLoop, query, shared, locked>>

\* clear gets the bus, which an executing command holds; then the acknowledge.
ClearDevice ==
  /\ asyncPc = "clear" /\ syncPc # "exec"
  /\ asyncPc' = "read"
  /\ fromAsync' = Append(fromAsync, [kind |-> "ClearAck", mav |-> FALSE])
  /\ UNCHANGED <<toSync, toAsync, fromSync, client, syncLoop, query, shared, locked>>

\* AsyncStatusQuery: the serial poll, which needs the bus, only delays what follows.
ReadStatusQuery ==
  /\ asyncPc = "read" /\ toAsync # <<>> /\ Head(toAsync).kind = "Status"
  /\ toAsync' = Tail(toAsync)
  /\ query' = Head(toAsync).id
  /\ asyncPc' = "status"
  /\ UNCHANGED <<toSync, fromSync, fromAsync, client, syncLoop, shared, locked>>

\* AsyncStatusResponse is written.
AnswerStatus(bit) ==
  /\ fromAsync' = Append(fromAsync, [kind |-> "Status", mav |-> bit])
  /\ asyncPc' = "read" /\ query' = 0
  /\ UNCHANGED <<toSync, toAsync, fromSync, client, syncLoop, shared, locked>>

\* mav_bit, its first load: MAV down is the answer.
LoadMav ==
  /\ asyncPc = "status" /\ mav
  /\ asyncPc' = "mav"
  /\ UNCHANGED <<wires, client, syncLoop, query, shared, locked>>
LoadMavDown == asyncPc = "status" /\ ~mav /\ AnswerStatus(FALSE)

\* Mutant of MavBit: the MessageID of the query is not compared.
MavBitForAnyId == TRUE

\* MAV is false for a query that does not quote the last message noted.
MavBit == query = last_message_id

\* mav_bit, its second load.
LoadMessageId == asyncPc = "mav" /\ AnswerStatus(MavBit)

-----------------------------------------------------------------------------
\* Another session is granted the lock, or gives it back.
Others == locked' = ~locked /\ UNCHANGED <<wires, client, syncLoop, asyncLoop, shared>>

SyncLoop ==
  \/ ReadMessage \/ NoteClientMessage \/ HandleMessage \/ ReadClearComplete
  \/ TakeBus \/ ExecuteQuery \/ ExecuteCommand \/ WriteReply
AsyncLoop ==
  \/ ReadClear \/ PassGate \/ ClearDevice
  \/ ReadStatusQuery \/ LoadMav \/ LoadMavDown \/ LoadMessageId

Next ==
  \/ \E kind \in {"Data", "DataEnd", "Trigger"} : SendMessage(kind)
  \/ SendClear \/ SendStatusQuery \/ ReadAsync \/ ReadSync
  \/ SyncLoop \/ AsyncLoop \/ Others

Spec == Init /\ [][Next]_vars

\* Both loops run, the client reads what it is sent, and nothing more is promised: the
\* other session need never give its lock back.
Fairness ==
  /\ WF_vars(SyncLoop) /\ WF_vars(AsyncLoop)
  /\ WF_vars(ReadAsync) /\ WF_vars(ReadSync)

FairSpec == Spec /\ Fairness

-----------------------------------------------------------------------------
(* Properties.                                                             *)

\* clear_epoch: "the sync loop drops a half-assembled message rather than
\* finishing it with bytes from before the clear".  No command that reaches the
\* instrument has bytes from both sides of a device clear, if the client clears
\* only when the server has read what came before.
CommandsAreWhole ==
  drained => \A i, j \in DOMAIN cmd : cmd[i] = cmd[j]

\* After DeviceClearAcknowledge the client never meets a reply from before the
\* clear: such a reply, if any, went out ahead of the acknowledge.
NoStaleReplies ==
  phase = "io" =>
    \A i \in DOMAIN fromSync : fromSync[i].kind = "Reply" => fromSync[i].gen = gen

ReplyInFlight ==
  syncPc = "reply" \/ \E i \in DOMAIN fromSync : fromSync[i].kind = "Reply"

\* MAV (6.14.1) is never stuck: while it is up, a reply is on its way, or read
\* but not yet reported as RMT-delivered, or a clear is under way.
MavMeansReply ==
  mav => \/ ReplyInFlight \/ consumed \/ phase # "io"
         \/ msg.rmt \/ \E i \in DOMAIN toSync : toSync[i].rmt

\* A status query that overtakes the message it quotes is not told of an earlier reply
\* that the client has consumed and that message acknowledges (6.14.3), but for one
\* race: the sync loop notes that very message while the query is being answered, and
\* has lowered mav since it was loaded, or is between its two stores.
StaleStatusIsARace ==
  [][/\ Len(fromAsync') > Len(fromAsync) /\ Last(fromAsync').mav /\ query = sent
     => \/ ReplyInFlight \/ consumed \/ phase # "io"
        \/ ~mav \/ (syncPc = "noted" /\ msg.rmt)]_vars

\* Every device clear the client starts is completed, if from some time on no other
\* session holds the lock: until then wait_for_access may keep it waiting, on either
\* channel.  The two loops do not keep each other waiting.
ClearsComplete == <>[](~locked) => (phase # "io" ~> phase = "io")
=============================================================================
