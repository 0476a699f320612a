------------------------ MODULE HislipChannelsProofs ------------------------
(***************************************************************************)
(* Proofs about HislipChannels, for any number of messages, device clears  *)
(* and status queries.                                                     *)
(***************************************************************************)
EXTENDS HislipChannels, TLAPS

-----------------------------------------------------------------------------
(* The inductive invariant.                                                *)

\* A message of this kind is on the wire.
Has(q, kind) == \E i \in DOMAIN q : q[i].kind = kind
\* There is at most one.
Once(q, kind) == \A i, j \in DOMAIN q : q[i].kind = kind /\ q[j].kind = kind => i = j
\* Nothing was sent after it.
AtEnd(q, kind) == \A i \in DOMAIN q : q[i].kind = kind => i = Len(q)

\* A device clear is in one place at a time: asked for, being done, acknowledged, being
\* completed, completed.  clear_epoch counts those that were begun, gen those completed.
OneClear ==
  /\ Once(toAsync, "Clear") /\ Once(fromAsync, "ClearAck")
  /\ AtEnd(toSync, "ClearComplete") /\ AtEnd(fromSync, "ClearAck")
  /\ Has(toAsync, "Clear") => asyncPc \notin {"gate", "clear"}
  /\ Has(toAsync, "Clear") \/ asyncPc = "gate" =>
       phase = "asked" /\ ~Has(fromAsync, "ClearAck") /\ clear_epoch = gen
  /\ asyncPc = "clear" =>
       phase = "asked" /\ ~Has(fromAsync, "ClearAck") /\ clear_epoch = gen + 1
  /\ Has(fromAsync, "ClearAck") => phase = "asked" /\ clear_epoch = gen + 1
  /\ Has(toSync, "ClearComplete") =>
       phase = "completing" /\ ~Has(fromSync, "ClearAck") /\ clear_epoch = gen + 1
  /\ Has(fromSync, "ClearAck") => phase = "completing" /\ clear_epoch = gen + 1
  /\ phase = "io" => clear_epoch = gen
  /\ phase # "io" => gen < MaxClears

\* By the time it is acknowledged on the sync channel the sync loop has read and answered
\* everything.
AcksAreLast ==
  Has(fromSync, "ClearAck") => toSync = <<>> /\ syncPc = "read" /\ ~mav

\* So what is on the sync channel, either way, is of the client's generation.
MessagesAreCurrent ==
  /\ \A i \in DOMAIN toSync : toSync[i].gen = gen
  /\ \A i \in DOMAIN fromSync : fromSync[i].gen = gen
  /\ syncPc = "read" => cmd = <<>>
  /\ syncPc = "reply" => cmd # <<>>
  /\ cmd # <<>> => Last(cmd) = gen

\* The message in the sync loop's hands, between its being read and its being handled, is
\* of the client's generation, and so is what has been assembled before it.
MessageInHand ==
  /\ syncPc \notin {"note", "noted"} => msg = NoMessage
  /\ syncPc \in {"note", "noted"} =>
       /\ cmd = <<>> /\ msg.gen = gen /\ msg.kind # "ClearComplete" /\ msg.id <= sent
       /\ \A i \in DOMAIN toSync : toSync[i].rmt => msg.id < toSync[i].id
       /\ drained => \A i \in DOMAIN buffer : buffer[i] = gen
  /\ syncPc = "note" /\ msg.rmt => last_message_id < msg.id

\* MessageIDs grow, and a message that says RMT-delivered is not the last one read.
IdsGrow ==
  /\ last_message_id <= sent
  /\ \A i \in DOMAIN toSync :
       toSync[i].id <= sent /\ (toSync[i].rmt => last_message_id < toSync[i].id)
  /\ \A i, j \in DOMAIN toSync : i < j /\ toSync[j].rmt => toSync[i].id < toSync[j].id

\* A client that clears only when all was read: the sync loop meets nothing between its
\* snapshot of clear_epoch and DeviceClearComplete, so the half command does not survive.
HalvesAreDropped ==
  drained =>
    /\ phase = "asked" => toSync = <<>>
    /\ phase = "completing" => \A i \in DOMAIN toSync : toSync[i].kind = "ClearComplete"
    /\ epoch <= clear_epoch
    /\ asyncPc = "clear" \/ Has(fromAsync, "ClearAck") \/ Has(toSync, "ClearComplete") =>
         epoch < clear_epoch
    /\ Has(fromSync, "ClearAck") => buffer = <<>>
    /\ epoch = clear_epoch => \A i \in DOMAIN buffer : buffer[i] = gen
    /\ \A i \in DOMAIN cmd : cmd[i] = gen

ChanInv ==
  /\ TypeOK /\ OneClear /\ AcksAreLast /\ MessagesAreCurrent /\ IdsGrow /\ HalvesAreDropped
  /\ MavMeansReply /\ MessageInHand

-----------------------------------------------------------------------------
(* Queues.                                                                 *)

\* What Append does, place by place.
LEMMA AppendAt ==
  ASSUME NEW S, NEW q \in Seq(S), NEW e \in S
  PROVE  /\ Append(q, e) \in Seq(S) /\ Append(q, e) # <<>> /\ Last(Append(q, e)) = e
         /\ Len(Append(q, e)) = Len(q) + 1
         /\ \A i \in DOMAIN Append(q, e) :
              \/ i \in DOMAIN q /\ Append(q, e)[i] = q[i]
              \/ i = Len(q) + 1 /\ Append(q, e)[i] = e
         /\ \A i \in DOMAIN q : i \in DOMAIN Append(q, e) /\ Append(q, e)[i] = q[i] /\ i <= Len(q)
         /\ Len(q) + 1 \in DOMAIN Append(q, e) /\ Append(q, e)[Len(q) + 1] = e
  BY DEF Last

\* What Head and Tail do, place by place.
LEMMA TailAt ==
  ASSUME NEW S, NEW q \in Seq(S), q # <<>>
  PROVE  /\ Head(q) \in S /\ Tail(q) \in Seq(S) /\ Len(Tail(q)) = Len(q) - 1
         /\ 1 \in DOMAIN q /\ Head(q) = q[1]
         /\ \A i \in DOMAIN Tail(q) : i \in Int /\ i > 0 /\ i + 1 \in DOMAIN q /\ Tail(q)[i] = q[i + 1]
         /\ \A i \in DOMAIN q : i \in Int /\ (i = 1 \/ (i - 1 \in DOMAIN Tail(q) /\ Tail(q)[i - 1] = q[i]))
  OBVIOUS

\* MessageIDs are numbers, and RMT-delivered is a flag.
LEMMA IdsAreNumbers ==
  ASSUME NEW q \in Seq(SyncMessages)
  PROVE  \A i \in DOMAIN q : q[i].id \in Int /\ q[i].rmt \in BOOLEAN
  <1>1. \A m \in SyncMessages : m.id \in Int /\ m.rmt \in BOOLEAN
    BY BoundsAssumption DEF SyncMessages, BoundsAssumption
  <1>2. \A i \in DOMAIN q : q[i] \in SyncMessages
    OBVIOUS
  <1> QED
    BY <1>1, <1>2

\* So is the MessageID of the message in hand.
LEMMA InHandId ==
  ASSUME TypeOK
  PROVE  msg.id \in Int /\ msg.id \in 0..MaxMessages /\ msg.rmt \in BOOLEAN
  BY BoundsAssumption DEF TypeOK, SyncMessages, BoundsAssumption

\* A message more on the wire.
LEMMA Appended ==
  ASSUME NEW S, NEW q \in Seq(S), NEW e \in S, NEW k
  PROVE  /\ Has(Append(q, e), k) <=> Has(q, k) \/ e.kind = k
         /\ Once(q, k) /\ ~(Has(q, k) /\ e.kind = k) => Once(Append(q, e), k)
         /\ ~Has(q, k) => AtEnd(Append(q, e), k)
  <1>1. Has(Append(q, e), k) <=> Has(q, k) \/ e.kind = k
    BY AppendAt DEF Has
  <1>2. Once(q, k) /\ ~(Has(q, k) /\ e.kind = k) => Once(Append(q, e), k)
    BY AppendAt DEF Has, Once
  <1>3. ~Has(q, k) => AtEnd(Append(q, e), k)
    BY AppendAt DEF Has, AtEnd
  <1> QED
    BY <1>1, <1>2, <1>3

\* A message less on the wire.
LEMMA Removed ==
  ASSUME NEW S, NEW q \in Seq(S), q # <<>>, NEW k
  PROVE  /\ Head(q).kind # k => (Has(Tail(q), k) <=> Has(q, k))
         /\ Head(q).kind = k => Has(q, k)
         /\ Has(Tail(q), k) => Has(q, k)
         /\ Once(q, k) => Once(Tail(q), k) /\ (Head(q).kind = k => ~Has(Tail(q), k))
         /\ AtEnd(q, k) => AtEnd(Tail(q), k) /\ (Head(q).kind = k => Tail(q) = <<>>)
  <1>1. Head(q).kind = k => Has(q, k)
    BY TailAt DEF Has
  <1>2. Has(Tail(q), k) => Has(q, k)
    BY TailAt DEF Has
  <1>3. ASSUME Head(q).kind # k, Has(q, k) PROVE Has(Tail(q), k)
    <2>1. PICK i \in DOMAIN q : q[i].kind = k
      BY <1>3 DEF Has
    <2>2. i - 1 \in DOMAIN Tail(q) /\ Tail(q)[i - 1] = q[i]
      BY <1>3, <2>1, TailAt
    <2> QED
      BY <2>1, <2>2 DEF Has
  <1>4. Once(q, k) => Once(Tail(q), k)
    BY TailAt DEF Once
  <1>5. Once(q, k) /\ Head(q).kind = k => ~Has(Tail(q), k)
    BY TailAt DEF Once, Has
  <1>6. AtEnd(q, k) => AtEnd(Tail(q), k)
    BY TailAt DEF AtEnd
  <1>7. AtEnd(q, k) /\ Head(q).kind = k => Tail(q) = <<>>
    BY TailAt DEF AtEnd
  <1> QED
    BY <1>1, <1>2, <1>3, <1>4, <1>5, <1>6, <1>7

\* An empty wire has no message.
LEMMA Nothing == \A k : ~Has(<<>>, k) /\ Once(<<>>, k) /\ AtEnd(<<>>, k)
  BY DEF Has, Once, AtEnd

-----------------------------------------------------------------------------
(* The invariant holds at first, and every step keeps it.                  *)

\* Nothing is under way at first.
LEMMA ChanInvInit == Init => ChanInv
  <1> SUFFICES ASSUME Init PROVE ChanInv
    OBVIOUS
  <1>1. TypeOK
    <2>1. 0 \in Gens /\ 0 \in 0..MaxMessages /\ 0 \in 0..MaxQueries
      BY BoundsAssumption DEF Gens, BoundsAssumption
    <2>2. /\ toSync \in Seq(SyncMessages) /\ toAsync \in Seq(AsyncMessages)
          /\ fromSync \in Seq(SyncReplies) /\ fromAsync \in Seq(AsyncReplies)
          /\ buffer \in Seq(Gens) /\ cmd \in Seq(Gens)
      BY DEF Init
    <2>3. NoMessage \in SyncMessages
      BY <2>1 DEF NoMessage, SyncMessages
    <2> QED
      BY <2>1, <2>2, <2>3, Zenon DEF Init, TypeOK
  <1>2. OneClear
    BY Nothing DEF Init, OneClear
  <1>3. AcksAreLast /\ MessagesAreCurrent
    BY Nothing DEF Init, AcksAreLast, MessagesAreCurrent
  <1>4. IdsGrow /\ MavMeansReply /\ MessageInHand
    BY DEF Init, IdsGrow, MavMeansReply, MessageInHand
  <1>5. HalvesAreDropped
    BY Nothing DEF Init, HalvesAreDropped
  <1> QED
    BY <1>1, <1>2, <1>3, <1>4, <1>5 DEF ChanInv

\* The client sends only when no clear is under way.
LEMMA SendMessageStep ==
  ASSUME ChanInv, NEW kind \in {"Data", "DataEnd", "Trigger"}, SendMessage(kind)
  PROVE  ChanInv'
  <1>0. /\ TypeOK /\ OneClear /\ AcksAreLast /\ MessagesAreCurrent /\ IdsGrow /\ HalvesAreDropped
        /\ MavMeansReply /\ MessageInHand
    BY DEF ChanInv
  <1>1. /\ phase = "io" /\ sent < MaxMessages /\ sent' = sent + 1 /\ consumed' = FALSE
        /\ UNCHANGED <<toAsync, fromSync, fromAsync, gen, phase, queries, drained>>
        /\ UNCHANGED <<buffer, epoch, syncPc, cmd, msg, asyncPc, query, locked, clear_epoch, mav, last_message_id>>
    BY DEF SendMessage, syncLoop, asyncLoop, shared
  <1>2. PICK m \in SyncMessages :
          m = [kind |-> kind, gen |-> gen, id |-> sent + 1, rmt |-> consumed] /\ toSync' = Append(toSync, m)
    <2>1. [kind |-> kind, gen |-> gen, id |-> sent + 1, rmt |-> consumed] \in SyncMessages
      BY <1>0, <1>1, BoundsAssumption DEF TypeOK, SyncMessages, BoundsAssumption
    <2> QED
      BY <2>1 DEF SendMessage
  <1>3. toSync \in Seq(SyncMessages) /\ m.kind # "ClearComplete" /\ m.gen = gen /\ m.id = sent + 1 /\ m.rmt = consumed
    BY <1>0, <1>2 DEF TypeOK
  <1>4. \A k : Has(toSync', k) <=> Has(toSync, k) \/ m.kind = k
    BY <1>2, <1>3, Appended
  <1>5. TypeOK'
    <2>1. toSync' \in Seq(SyncMessages)
      BY <1>2, <1>3, AppendAt
    <2>2. sent' \in 0..MaxMessages
      BY <1>0, <1>1, BoundsAssumption DEF TypeOK, BoundsAssumption
    <2> QED
      BY <1>0, <1>1, <2>1, <2>2 DEF TypeOK
  <1>6. OneClear'
    <2>1. ~Has(toSync, "ClearComplete")
      BY <1>0, <1>1 DEF OneClear
    <2>2. AtEnd(toSync', "ClearComplete") /\ ~Has(toSync', "ClearComplete")
      BY <1>2, <1>3, <1>4, <2>1, Appended
    <2> QED
      BY <1>0, <1>1, <2>2 DEF OneClear
  <1>7. AcksAreLast'
    BY <1>0, <1>1 DEF AcksAreLast, OneClear
  <1>8. MessagesAreCurrent'
    <2>1. \A i \in DOMAIN toSync' : toSync'[i].gen = gen
      BY <1>0, <1>2, <1>3, AppendAt DEF MessagesAreCurrent
    <2> QED
      BY <1>0, <1>1, <2>1 DEF MessagesAreCurrent
  <1>9. IdsGrow'
    <2>1. last_message_id \in Int /\ sent \in Int /\ last_message_id <= sent
      BY <1>0 DEF TypeOK, IdsGrow
    <2>2. \A i \in DOMAIN toSync : toSync[i].id \in Int
      BY <1>3, IdsAreNumbers
    <2>3. ASSUME NEW i \in DOMAIN toSync'
          PROVE  toSync'[i].id <= sent' /\ (toSync'[i].rmt => last_message_id < toSync'[i].id)
      <3>1. CASE i \in DOMAIN toSync /\ toSync'[i] = toSync[i]
        <4>1. toSync[i].id <= sent /\ (toSync[i].rmt => last_message_id < toSync[i].id)
          BY <1>0, <3>1 DEF IdsGrow
        <4>2. toSync[i].id <= sent'
          BY <1>1, <2>1, <2>2, <3>1, <4>1
        <4> QED
          BY <3>1, <4>1, <4>2, Zenon
      <3>2. CASE toSync'[i] = m
        <4>1. m.id <= sent' /\ last_message_id < m.id
          BY <1>1, <1>3, <2>1
        <4> QED
          BY <3>2, <4>1
      <3> QED
        BY <1>2, <1>3, <3>1, <3>2, AppendAt
    <2>4. \A i, j \in DOMAIN toSync' : i < j /\ toSync'[j].rmt => toSync'[i].id < toSync'[j].id
      BY <1>0, <1>1, <1>2, <1>3, <2>1, <2>2, AppendAt DEF IdsGrow
    <2> QED
      BY <1>1, <2>1, <2>3, <2>4 DEF IdsGrow
  <1>10. HalvesAreDropped'
    BY <1>0, <1>1, <1>3, <1>4 DEF HalvesAreDropped, OneClear
  <1>11. MavMeansReply'
    BY <1>0, <1>1, <1>2, <1>3, AppendAt DEF MavMeansReply, ReplyInFlight
  <1>12. MessageInHand'
    <2>1. sent \in Int /\ msg.id \in Int /\ \A i \in DOMAIN toSync : toSync[i].id \in Int
      BY <1>0, <1>3, IdsAreNumbers, InHandId DEF TypeOK
    <2>2. ASSUME syncPc \in {"note", "noted"}
          PROVE  /\ msg.id <= sent'
                 /\ \A i \in DOMAIN toSync' : toSync'[i].rmt => msg.id < toSync'[i].id
      <3>1. msg.id <= sent /\ \A i \in DOMAIN toSync : toSync[i].rmt => msg.id < toSync[i].id
        BY <1>0, <2>2 DEF MessageInHand
      <3>2. msg.id < m.id /\ msg.id <= sent'
        BY <1>1, <1>3, <2>1, <3>1
      <3> QED
        BY <1>2, <1>3, <3>1, <3>2, AppendAt
    <2> QED
      BY <1>0, <1>1, <2>2 DEF MessageInHand
  <1> QED
    BY <1>5, <1>6, <1>7, <1>8, <1>9, <1>10, <1>11, <1>12 DEF ChanInv

\* A clear is asked for when none is under way.
LEMMA SendClearStep ==
  ASSUME ChanInv, SendClear
  PROVE  ChanInv'
  <1>0. /\ TypeOK /\ OneClear /\ AcksAreLast /\ MessagesAreCurrent /\ IdsGrow /\ HalvesAreDropped
        /\ MavMeansReply /\ MessageInHand
    BY DEF ChanInv
  <1>1. /\ phase = "io" /\ gen < MaxClears /\ (drained => toSync = <<>>) /\ phase' = "asked"
        /\ UNCHANGED <<toSync, fromSync, fromAsync, gen, sent, consumed, queries, drained>>
        /\ UNCHANGED <<buffer, epoch, syncPc, cmd, msg, asyncPc, query, locked, clear_epoch, mav, last_message_id>>
    BY DEF SendClear, syncLoop, asyncLoop, shared
  <1>2. PICK m \in AsyncMessages : m.kind = "Clear" /\ toAsync' = Append(toAsync, m)
    <2>1. [kind |-> "Clear", id |-> sent] \in AsyncMessages
      BY <1>0 DEF TypeOK, AsyncMessages
    <2> QED
      BY <2>1 DEF SendClear
  <1>3. toAsync \in Seq(AsyncMessages)
    BY <1>0 DEF TypeOK
  <1>4. /\ ~Has(toAsync, "Clear") /\ asyncPc \notin {"gate", "clear"} /\ ~Has(fromAsync, "ClearAck")
        /\ ~Has(toSync, "ClearComplete") /\ ~Has(fromSync, "ClearAck") /\ clear_epoch = gen
    BY <1>0, <1>1 DEF OneClear
  <1>5. TypeOK'
    <2>1. toAsync' \in Seq(AsyncMessages)
      BY <1>2, <1>3, AppendAt
    <2> QED
      BY <1>0, <1>1, <2>1 DEF TypeOK
  <1>6. OneClear'
    <2>1. Once(toAsync', "Clear")
      <3>1. Once(toAsync, "Clear")
        BY <1>0 DEF OneClear
      <3> QED
        BY <1>2, <1>3, <1>4, <3>1, Appended
    <2> QED
      BY <1>0, <1>1, <1>4, <2>1 DEF OneClear
  <1>7. AcksAreLast' /\ MessagesAreCurrent' /\ IdsGrow' /\ MessageInHand'
    BY <1>0, <1>1 DEF AcksAreLast, MessagesAreCurrent, IdsGrow, MessageInHand
  <1>8. HalvesAreDropped'
    BY <1>0, <1>1, <1>4 DEF HalvesAreDropped
  <1>9. MavMeansReply'
    BY <1>1 DEF MavMeansReply
  <1> QED
    BY <1>5, <1>6, <1>7, <1>8, <1>9 DEF ChanInv

\* A status query is not of a clear.
LEMMA SendStatusQueryStep ==
  ASSUME ChanInv, SendStatusQuery
  PROVE  ChanInv'
  <1>0. /\ TypeOK /\ OneClear /\ AcksAreLast /\ MessagesAreCurrent /\ IdsGrow /\ HalvesAreDropped
        /\ MavMeansReply /\ MessageInHand
    BY DEF ChanInv
  <1>1. /\ queries < MaxQueries /\ queries' = queries + 1
        /\ UNCHANGED <<toSync, fromSync, fromAsync, gen, phase, sent, consumed, drained>>
        /\ UNCHANGED <<buffer, epoch, syncPc, cmd, msg, asyncPc, query, locked, clear_epoch, mav, last_message_id>>
    BY DEF SendStatusQuery, syncLoop, asyncLoop, shared
  <1>2. PICK m \in AsyncMessages : m.kind = "Status" /\ toAsync' = Append(toAsync, m)
    <2>1. [kind |-> "Status", id |-> sent] \in AsyncMessages
      BY <1>0 DEF TypeOK, AsyncMessages
    <2> QED
      BY <2>1 DEF SendStatusQuery
  <1>3. toAsync \in Seq(AsyncMessages)
    BY <1>0 DEF TypeOK
  <1>4. TypeOK'
    <2>1. toAsync' \in Seq(AsyncMessages)
      BY <1>2, <1>3, AppendAt
    <2>2. queries' \in 0..MaxQueries
      BY <1>0, <1>1, BoundsAssumption DEF TypeOK, BoundsAssumption
    <2> QED
      BY <1>0, <1>1, <2>1, <2>2 DEF TypeOK
  <1>5. OneClear'
    <2>1. Once(toAsync, "Clear")
      BY <1>0 DEF OneClear
    <2>2. Once(toAsync', "Clear") /\ (Has(toAsync', "Clear") <=> Has(toAsync, "Clear"))
      BY <1>2, <1>3, <2>1, Appended
    <2> QED
      BY <1>0, <1>1, <2>2 DEF OneClear
  <1>6. AcksAreLast' /\ MessagesAreCurrent' /\ IdsGrow' /\ MessageInHand'
    BY <1>0, <1>1 DEF AcksAreLast, MessagesAreCurrent, IdsGrow, MessageInHand
  <1>7. HalvesAreDropped'
    BY <1>0, <1>1 DEF HalvesAreDropped
  <1>8. MavMeansReply'
    BY <1>0, <1>1 DEF MavMeansReply, ReplyInFlight
  <1> QED
    BY <1>4, <1>5, <1>6, <1>7, <1>8 DEF ChanInv

\* An acknowledge on the async channel is answered with DeviceClearComplete, the last the
\* client sends on the sync channel before the clear is over.
LEMMA ReadAsyncStep ==
  ASSUME ChanInv, ReadAsync
  PROVE  ChanInv'
  <1>0. /\ TypeOK /\ OneClear /\ AcksAreLast /\ MessagesAreCurrent /\ IdsGrow /\ HalvesAreDropped
        /\ MavMeansReply /\ MessageInHand
    BY DEF ChanInv
  <1>1. /\ fromAsync # <<>> /\ fromAsync' = Tail(fromAsync)
        /\ UNCHANGED <<toAsync, fromSync, gen, sent, consumed, queries, drained>>
        /\ UNCHANGED <<buffer, epoch, syncPc, cmd, msg, asyncPc, query, locked, clear_epoch, mav, last_message_id>>
    BY DEF ReadAsync, syncLoop, asyncLoop, shared
  <1>2. fromAsync \in Seq(AsyncReplies) /\ toSync \in Seq(SyncMessages) /\ Once(fromAsync, "ClearAck")
    BY <1>0 DEF TypeOK, OneClear
  <1>3. /\ Tail(fromAsync) \in Seq(AsyncReplies) /\ Once(fromAsync', "ClearAck")
        /\ Has(fromAsync', "ClearAck") => Has(fromAsync, "ClearAck")
    BY <1>1, <1>2, TailAt, Removed
  <1>4. CASE Head(fromAsync).kind # "ClearAck"
    <2>1. toSync' = toSync /\ phase' = phase
      BY <1>4 DEF ReadAsync
    <2>2. TypeOK'
      BY <1>0, <1>1, <1>3, <2>1 DEF TypeOK
    <2>3. OneClear'
      BY <1>0, <1>1, <1>3, <2>1 DEF OneClear
    <2>4. AcksAreLast' /\ MessagesAreCurrent' /\ IdsGrow' /\ MessageInHand'
      BY <1>0, <1>1, <2>1 DEF AcksAreLast, MessagesAreCurrent, IdsGrow, MessageInHand
    <2>5. HalvesAreDropped'
      BY <1>0, <1>1, <1>3, <2>1 DEF HalvesAreDropped
    <2>6. MavMeansReply'
      BY <1>0, <1>1, <2>1 DEF MavMeansReply, ReplyInFlight
    <2> QED
      BY <2>2, <2>3, <2>4, <2>5, <2>6 DEF ChanInv
  <1>5. CASE Head(fromAsync).kind = "ClearAck"
    <2>1. PICK m \in SyncMessages :
            /\ m.kind = "ClearComplete" /\ m.gen = gen /\ m.id = sent /\ m.rmt = FALSE
            /\ toSync' = Append(toSync, m) /\ phase' = "completing"
      <3>1. [kind |-> "ClearComplete", gen |-> gen, id |-> sent, rmt |-> FALSE] \in SyncMessages
        BY <1>0 DEF TypeOK, SyncMessages
      <3> QED
        BY <1>5, <3>1 DEF ReadAsync
    <2>2. Has(fromAsync, "ClearAck") /\ ~Has(fromAsync', "ClearAck")
      BY <1>1, <1>2, <1>5, Removed
    <2>3. /\ phase = "asked" /\ clear_epoch = gen + 1 /\ ~Has(toAsync, "Clear") /\ gen < MaxClears
          /\ asyncPc \notin {"gate", "clear"}
      BY <1>0, <2>2 DEF OneClear
    <2>4. ~Has(toSync, "ClearComplete") /\ ~Has(fromSync, "ClearAck")
      BY <1>0, <2>3 DEF OneClear
    <2>5. AtEnd(toSync', "ClearComplete") /\ Has(toSync', "ClearComplete")
      BY <1>2, <2>1, <2>4, Appended
    <2>6. TypeOK'
      <3>1. toSync' \in Seq(SyncMessages)
        BY <1>2, <2>1, AppendAt
      <3> QED
        BY <1>0, <1>1, <1>3, <2>1, <3>1 DEF TypeOK
    <2>7. OneClear'
      BY <1>0, <1>1, <1>3, <2>1, <2>2, <2>3, <2>4, <2>5 DEF OneClear
    <2>8. AcksAreLast'
      BY <1>1, <2>4 DEF AcksAreLast
    <2>9. MessagesAreCurrent'
      <3>1. \A i \in DOMAIN toSync' : toSync'[i].gen = gen
        BY <1>0, <1>2, <2>1, AppendAt DEF MessagesAreCurrent
      <3> QED
        BY <1>0, <1>1, <3>1 DEF MessagesAreCurrent
    <2>10. IdsGrow'
      <3>1. \A i \in DOMAIN toSync' : \/ i \in DOMAIN toSync /\ toSync'[i] = toSync[i]
                                      \/ toSync'[i] = m /\ i = Len(toSync) + 1
        BY <1>2, <2>1, AppendAt
      <3>2. m.id <= sent /\ ~m.rmt
        BY <1>0, <2>1 DEF TypeOK
      <3>3. \A i \in DOMAIN toSync : i <= Len(toSync) /\ i \in Int /\ Len(toSync) \in Int
        BY <1>2
      <3>4. \A i \in DOMAIN toSync' : toSync'[i].id <= sent /\ (toSync'[i].rmt => last_message_id < toSync'[i].id)
        BY <1>0, <3>1, <3>2, Zenon DEF IdsGrow
      <3>5. ASSUME NEW i \in DOMAIN toSync', NEW j \in DOMAIN toSync', i < j, toSync'[j].rmt
            PROVE  toSync'[i].id < toSync'[j].id
        <4>1. j \in DOMAIN toSync /\ toSync'[j] = toSync[j]
          BY <3>1, <3>2, <3>5
        <4>2. i \in DOMAIN toSync /\ toSync'[i] = toSync[i]
          BY <3>1, <3>3, <3>5, <4>1
        <4> QED
          BY <1>0, <3>5, <4>1, <4>2 DEF IdsGrow
      <3> QED
        BY <1>0, <1>1, <3>4, <3>5 DEF IdsGrow
    <2>11. HalvesAreDropped'
      <3>1. ASSUME drained PROVE \A i \in DOMAIN toSync' : toSync'[i].kind = "ClearComplete"
        <4>1. toSync = <<>>
          BY <1>0, <2>3, <3>1 DEF HalvesAreDropped
        <4>2. DOMAIN toSync = {}
          BY <4>1
        <4> QED
          BY <1>2, <2>1, <4>2, AppendAt
      <3>2. drained => epoch < clear_epoch
        BY <1>0, <2>2 DEF HalvesAreDropped
      <3> QED
        BY <1>0, <1>1, <2>1, <2>2, <2>4, <3>1, <3>2 DEF HalvesAreDropped
    <2>12. MavMeansReply'
      BY <2>1 DEF MavMeansReply
    <2>13. MessageInHand'
      <3>1. ASSUME syncPc \in {"note", "noted"}, NEW i \in DOMAIN toSync', toSync'[i].rmt
            PROVE  msg.id < toSync'[i].id
        <4>1. i \in DOMAIN toSync /\ toSync'[i] = toSync[i]
          BY <1>2, <2>1, <3>1, AppendAt
        <4> QED
          BY <1>0, <3>1, <4>1 DEF MessageInHand
      <3> QED
        BY <1>0, <1>1, <3>1 DEF MessageInHand
    <2> QED
      BY <2>6, <2>7, <2>8, <2>9, <2>10, <2>11, <2>12, <2>13 DEF ChanInv
  <1> QED
    BY <1>4, <1>5

\* DeviceClearAcknowledge is the last thing on the wire: nothing older is left to meet.
LEMMA ReadSyncStep ==
  ASSUME ChanInv, ReadSync
  PROVE  ChanInv'
  <1>0. /\ TypeOK /\ OneClear /\ AcksAreLast /\ MessagesAreCurrent /\ IdsGrow /\ HalvesAreDropped
        /\ MavMeansReply /\ MessageInHand
    BY DEF ChanInv
  <1>1. /\ fromSync # <<>> /\ fromSync' = Tail(fromSync)
        /\ UNCHANGED <<toSync, toAsync, fromAsync, sent, queries, drained>>
        /\ UNCHANGED <<buffer, epoch, syncPc, cmd, msg, asyncPc, query, locked, clear_epoch, mav, last_message_id>>
    BY DEF ReadSync, syncLoop, asyncLoop, shared
  <1>2. fromSync \in Seq(SyncReplies) /\ AtEnd(fromSync, "ClearAck")
    BY <1>0 DEF TypeOK, OneClear
  <1>3. /\ Tail(fromSync) \in Seq(SyncReplies) /\ AtEnd(fromSync', "ClearAck")
        /\ Has(fromSync', "ClearAck") => Has(fromSync, "ClearAck")
    BY <1>1, <1>2, TailAt, Removed
  <1>4. CASE Head(fromSync).kind # "ClearAck"
    <2>1. phase' = phase /\ gen' = gen /\ consumed' = (phase = "io")
      BY <1>4 DEF ReadSync
    <2>2. TypeOK'
      <3>1. consumed' \in BOOLEAN
        BY <2>1, Zenon
      <3>2. fromSync' \in Seq(SyncReplies)
        BY <1>1, <1>3
      <3> QED
        BY <1>0, <1>1, <2>1, <3>1, <3>2, Zenon DEF TypeOK
    <2>3. OneClear'
      BY <1>0, <1>1, <1>3, <2>1 DEF OneClear
    <2>4. AcksAreLast' /\ IdsGrow' /\ MessageInHand'
      BY <1>0, <1>1, <1>3, <2>1 DEF AcksAreLast, IdsGrow, MessageInHand
    <2>5. MessagesAreCurrent'
      <3>1. \A i \in DOMAIN fromSync' : fromSync'[i].gen = gen
        BY <1>0, <1>1, <1>2, TailAt DEF MessagesAreCurrent
      <3> QED
        BY <1>0, <1>1, <2>1, <3>1 DEF MessagesAreCurrent
    <2>6. HalvesAreDropped'
      BY <1>0, <1>1, <1>3, <2>1 DEF HalvesAreDropped
    <2>7. MavMeansReply'
      BY <2>1 DEF MavMeansReply
    <2> QED
      BY <2>2, <2>3, <2>4, <2>5, <2>6, <2>7 DEF ChanInv
  <1>5. CASE Head(fromSync).kind = "ClearAck"
    <2>1. phase' = "io" /\ gen' = gen + 1 /\ consumed' = FALSE
      BY <1>5 DEF ReadSync
    <2>2. Has(fromSync, "ClearAck") /\ fromSync' = <<>>
      BY <1>1, <1>2, <1>5, Removed
    <2>3. /\ phase = "completing" /\ clear_epoch = gen + 1 /\ gen < MaxClears
          /\ toSync = <<>> /\ syncPc = "read" /\ ~mav /\ cmd = <<>>
      BY <1>0, <2>2 DEF OneClear, AcksAreLast, MessagesAreCurrent
    <2>4. /\ ~Has(toAsync, "Clear") /\ asyncPc \notin {"gate", "clear"}
          /\ ~Has(fromAsync, "ClearAck") /\ ~Has(toSync, "ClearComplete")
      BY <1>0, <2>2, <2>3 DEF OneClear
    <2>5. ~Has(fromSync', "ClearAck")
      BY <2>2, Nothing
    <2>6. DOMAIN <<>> = {}
      OBVIOUS
    <2>7. TypeOK'
      <3>1. gen' \in Gens
        BY <1>0, <2>1, <2>3, BoundsAssumption DEF TypeOK, Gens, BoundsAssumption
      <3> QED
        BY <1>0, <1>1, <1>3, <2>1, <3>1 DEF TypeOK
    <2>8. OneClear'
      BY <1>0, <1>1, <1>3, <2>1, <2>3, <2>4, <2>5 DEF OneClear
    <2>9. AcksAreLast' /\ IdsGrow' /\ MessageInHand'
      BY <1>0, <1>1, <2>3, <2>5 DEF AcksAreLast, IdsGrow, MessageInHand
    <2>10. MessagesAreCurrent'
      BY <1>1, <2>2, <2>3, <2>6 DEF MessagesAreCurrent
    <2>11. HalvesAreDropped'
      <3>1. drained => buffer = <<>>
        BY <1>0, <2>2 DEF HalvesAreDropped
      <3> QED
        BY <1>0, <1>1, <2>1, <2>3, <2>4, <2>5, <2>6, <3>1 DEF HalvesAreDropped
    <2>12. MavMeansReply'
      BY <1>1, <2>3 DEF MavMeansReply
    <2> QED
      BY <2>7, <2>8, <2>9, <2>10, <2>11, <2>12 DEF ChanInv
  <1> QED
    BY <1>4, <1>5

\* What the next message finds in the buffer: of the client's generation, for a client
\* that clears only when all was read.
LEMMA UnclearFacts ==
  ASSUME ChanInv
  PROVE  Unclear \in Seq(Gens) /\ (drained => \A i \in DOMAIN Unclear : Unclear[i] = gen)
  <1>1. CASE clear_epoch # epoch
    BY <1>1 DEF Unclear
  <1>2. CASE clear_epoch = epoch
    BY <1>2 DEF Unclear, ChanInv, TypeOK, HalvesAreDropped
  <1> QED
    BY <1>1, <1>2

\* The sync loop reads while no clear is being completed, or up to its DeviceClearComplete.
LEMMA ReadMessageStep ==
  ASSUME ChanInv, ReadMessage
  PROVE  ChanInv'
  <1>0. /\ TypeOK /\ OneClear /\ AcksAreLast /\ MessagesAreCurrent /\ IdsGrow /\ HalvesAreDropped
        /\ MavMeansReply /\ MessageInHand
    BY DEF ChanInv
  <1>1. /\ syncPc = "read" /\ toSync # <<>> /\ toSync' = Tail(toSync) /\ epoch' = clear_epoch
        /\ Head(toSync).kind # "ClearComplete" /\ msg' = Head(toSync) /\ buffer' = Unclear /\ syncPc' = "note"
        /\ UNCHANGED <<toAsync, fromSync, fromAsync, asyncPc, query, locked, clear_epoch, mav, last_message_id, cmd>>
        /\ UNCHANGED <<gen, phase, sent, consumed, queries, drained>>
    BY DEF ReadMessage, client, asyncLoop, shared
  <1>2. toSync \in Seq(SyncMessages) /\ AtEnd(toSync, "ClearComplete")
    BY <1>0 DEF TypeOK, OneClear
  <1>3. PICK m \in SyncMessages : m = Head(toSync) /\ m = toSync[1] /\ 1 \in DOMAIN toSync
    BY <1>1, <1>2, TailAt
  <1>4. msg' = m /\ m.kind # "ClearComplete" /\ m.gen = gen /\ m.id <= sent
    BY <1>0, <1>1, <1>3 DEF MessagesAreCurrent, IdsGrow
  <1>5. ~Has(fromSync, "ClearAck")
    <2>1. toSync # <<>>
      BY <1>1
    <2> QED
      BY <1>0, <2>1 DEF AcksAreLast
  <1>6. /\ Tail(toSync) \in Seq(SyncMessages) /\ AtEnd(toSync', "ClearComplete")
        /\ Has(toSync', "ClearComplete") <=> Has(toSync, "ClearComplete")
    BY <1>1, <1>2, <1>3, TailAt, Removed
  <1>7. \A i \in DOMAIN toSync' : i \in Int /\ i > 0 /\ i + 1 \in DOMAIN toSync /\ toSync'[i] = toSync[i + 1]
    BY <1>1, <1>2, TailAt
  <1>8. Unclear \in Seq(Gens) /\ (drained => \A i \in DOMAIN Unclear : Unclear[i] = gen)
    BY UnclearFacts
  <1>9. TypeOK'
    <2>1. toSync' \in Seq(SyncMessages) /\ buffer' \in Seq(Gens) /\ msg' \in SyncMessages
      BY <1>1, <1>4, <1>6, <1>8
    <2> QED
      BY <1>0, <1>1, <2>1, Zenon DEF TypeOK
  <1>10. OneClear'
    BY <1>0, <1>1, <1>6 DEF OneClear
  <1>11. AcksAreLast'
    BY <1>1, <1>5 DEF AcksAreLast
  <1>12. MessagesAreCurrent'
    <2>1. \A i \in DOMAIN toSync' : toSync'[i].gen = gen
      BY <1>0, <1>7 DEF MessagesAreCurrent
    <2> QED
      BY <1>0, <1>1, <2>1 DEF MessagesAreCurrent
  <1>13. \A i \in DOMAIN toSync' : toSync'[i].rmt => m.id < toSync'[i].id
    <2> SUFFICES ASSUME NEW i \in DOMAIN toSync', toSync'[i].rmt PROVE m.id < toSync'[i].id
      OBVIOUS
    <2>1. i + 1 \in DOMAIN toSync /\ toSync'[i] = toSync[i + 1] /\ 1 < i + 1
      BY <1>7
    <2> QED
      BY <1>0, <1>3, <2>1 DEF IdsGrow
  <1>14. IdsGrow'
    <2>1. ASSUME NEW i \in DOMAIN toSync'
          PROVE  toSync'[i].id <= sent /\ (toSync'[i].rmt => last_message_id < toSync'[i].id)
      <3>1. i + 1 \in DOMAIN toSync /\ toSync'[i] = toSync[i + 1]
        BY <1>7
      <3> QED
        BY <1>0, <3>1 DEF IdsGrow
    <2>2. ASSUME NEW i \in DOMAIN toSync', NEW j \in DOMAIN toSync', i < j, toSync'[j].rmt
          PROVE  toSync'[i].id < toSync'[j].id
      <3>1. /\ i + 1 \in DOMAIN toSync /\ toSync'[i] = toSync[i + 1]
            /\ j + 1 \in DOMAIN toSync /\ toSync'[j] = toSync[j + 1] /\ i + 1 < j + 1
        BY <1>7, <2>2
      <3> QED
        BY <1>0, <2>2, <3>1 DEF IdsGrow
    <2> QED
      BY <1>0, <1>1, <2>1, <2>2 DEF IdsGrow
  <1>15. HalvesAreDropped'
    <2> SUFFICES ASSUME drained
                 PROVE  /\ phase = "asked" => toSync' = <<>>
                        /\ phase = "completing" => \A i \in DOMAIN toSync' : toSync'[i].kind = "ClearComplete"
                        /\ clear_epoch <= clear_epoch
                        /\ ~(asyncPc = "clear" \/ Has(fromAsync, "ClearAck") \/ Has(toSync', "ClearComplete"))
                        /\ \A i \in DOMAIN buffer' : buffer'[i] = gen
                        /\ \A i \in DOMAIN cmd' : cmd'[i] = gen
      BY <1>1, <1>5 DEF HalvesAreDropped
    <2>1. phase = "io"
      BY <1>0, <1>1, <1>3 DEF HalvesAreDropped, TypeOK
    <2>2. ~(asyncPc = "clear" \/ Has(fromAsync, "ClearAck") \/ Has(toSync', "ClearComplete"))
      BY <1>0, <1>6, <2>1 DEF OneClear
    <2>3. \A i \in DOMAIN buffer' : buffer'[i] = gen
      BY <1>1, <1>8
    <2>4. \A i \in DOMAIN cmd' : cmd'[i] = gen
      BY <1>0, <1>1 DEF HalvesAreDropped
    <2>5. clear_epoch <= clear_epoch
      BY <1>0 DEF TypeOK, Gens
    <2> QED
      BY <2>1, <2>2, <2>3, <2>4, <2>5
  <1>16. MavMeansReply'
    <2> SUFFICES ASSUME mav
                 PROVE  ReplyInFlight' \/ consumed' \/ phase' # "io" \/ m.rmt \/ \E i \in DOMAIN toSync' : toSync'[i].rmt
      BY <1>1, <1>4 DEF MavMeansReply
    <2>1. ~msg.rmt
      BY <1>0, <1>1 DEF MessageInHand, NoMessage
    <2>2. CASE ReplyInFlight \/ consumed \/ phase # "io"
      <3>1. ReplyInFlight => ReplyInFlight'
        BY <1>1 DEF ReplyInFlight
      <3> QED
        BY <1>1, <2>2, <3>1
    <2>3. ASSUME NEW i \in DOMAIN toSync, toSync[i].rmt, ~m.rmt
          PROVE  \E j \in DOMAIN toSync' : toSync'[j].rmt
      <3>1. i # 1
        BY <1>3, <2>3
      <3>2. i - 1 \in DOMAIN toSync' /\ toSync'[i - 1] = toSync[i]
        BY <1>1, <1>2, <3>1, TailAt
      <3> QED
        BY <2>3, <3>2
    <2> QED
      BY <1>0, <2>1, <2>2, <2>3 DEF MavMeansReply
  <1>17. MessageInHand'
    <2>1. cmd' = <<>>
      BY <1>0, <1>1 DEF MessagesAreCurrent
    <2>2. m.rmt => last_message_id < m.id
      BY <1>0, <1>3 DEF IdsGrow
    <2>3. drained => \A i \in DOMAIN buffer' : buffer'[i] = gen
      BY <1>1, <1>8
    <2> QED
      BY <1>1, <1>4, <1>13, <2>1, <2>2, <2>3 DEF MessageInHand
  <1> QED
    BY <1>9, <1>10, <1>11, <1>12, <1>14, <1>15, <1>16, <1>17 DEF ChanInv

\* The first store: what follows on the wire has later ids.
LEMMA NoteClientMessageStep ==
  ASSUME ChanInv, NoteClientMessage
  PROVE  ChanInv'
  <1>0. /\ TypeOK /\ OneClear /\ AcksAreLast /\ MessagesAreCurrent /\ IdsGrow /\ HalvesAreDropped
        /\ MavMeansReply /\ MessageInHand
    BY DEF ChanInv
  <1>1. /\ syncPc = "note" /\ syncPc' = "noted" /\ last_message_id' = msg.id
        /\ UNCHANGED <<toSync, toAsync, fromSync, fromAsync, gen, phase, sent, consumed, queries, drained>>
        /\ UNCHANGED <<buffer, epoch, cmd, msg, asyncPc, query, locked, clear_epoch, mav>>
    BY DEF NoteClientMessage, wires, client, asyncLoop
  <1>2. TypeOK'
    <2>1. last_message_id' \in 0..MaxMessages
      BY <1>0, <1>1, InHandId
    <2> QED
      BY <1>0, <1>1, <2>1 DEF TypeOK
  <1>3. OneClear' /\ AcksAreLast' /\ MessagesAreCurrent'
    BY <1>0, <1>1 DEF OneClear, AcksAreLast, MessagesAreCurrent
  <1>4. IdsGrow' /\ MessageInHand'
    BY <1>0, <1>1 DEF IdsGrow, MessageInHand
  <1>5. HalvesAreDropped'
    BY <1>0, <1>1 DEF HalvesAreDropped
  <1>6. MavMeansReply'
    BY <1>0, <1>1 DEF MavMeansReply, ReplyInFlight
  <1> QED
    BY <1>2, <1>3, <1>4, <1>5, <1>6 DEF ChanInv

\* The second store, and the message goes where its kind says.
LEMMA HandleMessageStep ==
  ASSUME ChanInv, HandleMessage
  PROVE  ChanInv'
  <1>0. /\ TypeOK /\ OneClear /\ AcksAreLast /\ MessagesAreCurrent /\ IdsGrow /\ HalvesAreDropped
        /\ MavMeansReply /\ MessageInHand
    BY DEF ChanInv
  <1>1. /\ syncPc = "noted" /\ msg' = NoMessage
        /\ UNCHANGED <<toSync, toAsync, fromSync, fromAsync, gen, phase, sent, consumed, queries, drained>>
        /\ UNCHANGED <<epoch, asyncPc, query, locked, clear_epoch, last_message_id>>
    BY DEF HandleMessage, wires, client, asyncLoop
  <1>2. /\ cmd = <<>> /\ msg.gen = gen /\ gen \in Gens /\ buffer \in Seq(Gens)
        /\ drained => \A i \in DOMAIN buffer : buffer[i] = gen
    BY <1>0, <1>1 DEF MessageInHand, TypeOK
  <1>3. \/ buffer' = Append(buffer, gen) /\ cmd' = <<>> /\ syncPc' = "read"
        \/ buffer' = <<>> /\ cmd' = Append(buffer, gen) /\ syncPc' = "wait"
        \/ buffer' = buffer /\ cmd' = <<>> /\ syncPc' = "wait"
    <2>1. msg.kind \in {"Data", "DataEnd", "Trigger"}
      BY <1>0, <1>1 DEF MessageInHand, TypeOK, SyncMessages
    <2> QED
      BY <1>2, <2>1 DEF HandleMessage
  <1>4. mav' = (mav /\ ~msg.rmt)
    BY DEF HandleMessage, NoteDelivered
  <1>5. Append(buffer, gen) \in Seq(Gens) /\ Append(buffer, gen) # <<>> /\ Last(Append(buffer, gen)) = gen
    BY <1>2, AppendAt
  <1>6. drained => \A i \in DOMAIN Append(buffer, gen) : Append(buffer, gen)[i] = gen
    BY <1>2, AppendAt
  <1>7. ~Has(fromSync, "ClearAck")
    BY <1>0, <1>1 DEF AcksAreLast
  <1>8. <<>> \in Seq(Gens) /\ DOMAIN <<>> = {}
    OBVIOUS
  <1>9. TypeOK'
    <2>1. buffer' \in Seq(Gens) /\ cmd' \in Seq(Gens)
      BY <1>2, <1>3, <1>5, <1>8, Zenon
    <2>2. syncPc' \in {"read", "note", "noted", "wait", "exec", "reply"}
      BY <1>3
    <2>3. mav' \in BOOLEAN
      BY <1>4, Zenon
    <2>4. NoMessage \in SyncMessages
      BY BoundsAssumption DEF NoMessage, SyncMessages, Gens, BoundsAssumption
    <2> QED
      BY <1>0, <1>1, <2>1, <2>2, <2>3, <2>4, Zenon DEF TypeOK
  <1>10. OneClear'
    BY <1>0, <1>1 DEF OneClear
  <1>11. AcksAreLast' /\ IdsGrow'
    BY <1>0, <1>1, <1>7 DEF AcksAreLast, IdsGrow
  <1>12. MessagesAreCurrent'
    <2>1. /\ syncPc' = "read" => cmd' = <<>>
          /\ syncPc' # "reply"
          /\ cmd' # <<>> => Last(cmd') = gen
      BY <1>3, <1>5
    <2> QED
      BY <1>0, <1>1, <2>1 DEF MessagesAreCurrent
  <1>13. HalvesAreDropped'
    <2>1. drained => (\A i \in DOMAIN buffer' : buffer'[i] = gen) /\ \A i \in DOMAIN cmd' : cmd'[i] = gen
      BY <1>2, <1>3, <1>6, <1>8
    <2> QED
      BY <1>0, <1>1, <1>7, <2>1 DEF HalvesAreDropped
  <1>14. MavMeansReply'
    <2>1. ReplyInFlight => ReplyInFlight'
      BY <1>1 DEF ReplyInFlight
    <2> QED
      BY <1>0, <1>1, <1>4, <2>1, Zenon DEF MavMeansReply
  <1>15. MessageInHand'
    BY <1>1, <1>3 DEF MessageInHand
  <1> QED
    BY <1>9, <1>10, <1>11, <1>12, <1>13, <1>14, <1>15 DEF ChanInv

\* DeviceClearComplete is the last message: the sync loop acknowledges it with nothing left
\* to read, and MAV down.
LEMMA ReadClearCompleteStep ==
  ASSUME ChanInv, ReadClearComplete
  PROVE  ChanInv'
  <1>0. /\ TypeOK /\ OneClear /\ AcksAreLast /\ MessagesAreCurrent /\ IdsGrow /\ HalvesAreDropped
        /\ MavMeansReply /\ MessageInHand
    BY DEF ChanInv
  <1>1. /\ syncPc = "read" /\ toSync # <<>> /\ Head(toSync).kind = "ClearComplete" /\ toSync' = Tail(toSync)
        /\ epoch' = clear_epoch /\ buffer' = Unclear /\ mav' = FALSE
        /\ UNCHANGED <<toAsync, fromAsync, syncPc, cmd, msg, asyncPc, query, locked, clear_epoch, last_message_id>>
        /\ UNCHANGED <<gen, phase, sent, consumed, queries, drained>>
    BY DEF ReadClearComplete, client, asyncLoop
  <1>2. toSync \in Seq(SyncMessages) /\ fromSync \in Seq(SyncReplies) /\ AtEnd(toSync, "ClearComplete")
    BY <1>0 DEF TypeOK, OneClear
  <1>3. Has(toSync, "ClearComplete") /\ toSync' = <<>>
    BY <1>1, <1>2, Removed
  <1>4. /\ phase = "completing" /\ clear_epoch = gen + 1 /\ ~Has(fromSync, "ClearAck") /\ gen < MaxClears
        /\ ~Has(toAsync, "Clear") /\ asyncPc \notin {"gate", "clear"} /\ ~Has(fromAsync, "ClearAck")
    BY <1>0, <1>3 DEF OneClear
  <1>5. PICK r \in SyncReplies : r.kind = "ClearAck" /\ r.gen = gen /\ fromSync' = Append(fromSync, r)
    <2>1. Head(toSync).gen = gen
      BY <1>0, <1>1, <1>2, TailAt DEF MessagesAreCurrent
    <2>2. [kind |-> "ClearAck", gen |-> Head(toSync).gen] \in SyncReplies
      BY <1>0, <2>1 DEF TypeOK, SyncReplies
    <2> QED
      BY <2>1, <2>2 DEF ReadClearComplete
  <1>6. AtEnd(fromSync', "ClearAck")
    BY <1>2, <1>4, <1>5, Appended
  <1>7. DOMAIN <<>> = {}
    OBVIOUS
  <1>8. ~Has(toSync', "ClearComplete") /\ AtEnd(toSync', "ClearComplete")
    BY <1>3, Nothing
  <1>9. TypeOK'
    <2>1. toSync' \in Seq(SyncMessages) /\ fromSync' \in Seq(SyncReplies) /\ buffer' \in Seq(Gens)
      BY <1>1, <1>2, <1>5, TailAt, AppendAt, UnclearFacts
    <2> QED
      BY <1>0, <1>1, <2>1, Zenon DEF TypeOK
  <1>10. OneClear'
    BY <1>0, <1>1, <1>4, <1>6, <1>8 DEF OneClear
  <1>11. AcksAreLast'
    BY <1>1, <1>3 DEF AcksAreLast
  <1>12. MessagesAreCurrent'
    <2>1. \A i \in DOMAIN fromSync' : fromSync'[i].gen = gen
      BY <1>0, <1>2, <1>5, AppendAt DEF MessagesAreCurrent
    <2> QED
      BY <1>0, <1>1, <1>3, <1>7, <2>1 DEF MessagesAreCurrent
  <1>13. IdsGrow' /\ MessageInHand'
    BY <1>0, <1>1, <1>3, <1>7 DEF IdsGrow, MessageInHand
  <1>14. HalvesAreDropped'
    <2>1. drained => Unclear = <<>>
      BY <1>0, <1>3 DEF HalvesAreDropped, Unclear, TypeOK, Gens
    <2>2. clear_epoch <= clear_epoch
      BY <1>0 DEF TypeOK, Gens
    <2> QED
      BY <1>0, <1>1, <1>3, <1>4, <1>7, <1>8, <2>1, <2>2 DEF HalvesAreDropped
  <1>15. MavMeansReply'
    BY <1>1 DEF MavMeansReply
  <1> QED
    BY <1>9, <1>10, <1>11, <1>12, <1>13, <1>14, <1>15 DEF ChanInv

\* While a command waits or runs, no clear is being acknowledged.
LEMMA TakeBusStep ==
  ASSUME ChanInv, TakeBus
  PROVE  ChanInv'
  <1>0. /\ TypeOK /\ OneClear /\ AcksAreLast /\ MessagesAreCurrent /\ IdsGrow /\ HalvesAreDropped
        /\ MavMeansReply /\ MessageInHand
    BY DEF ChanInv
  <1>1. /\ syncPc = "wait" /\ syncPc' = "exec" /\ UNCHANGED <<toSync, toAsync, fromSync, fromAsync>>
        /\ UNCHANGED <<gen, phase, sent, consumed, queries, drained>>
        /\ UNCHANGED <<buffer, epoch, cmd, msg, asyncPc, query, locked, clear_epoch, mav, last_message_id>>
    BY DEF TakeBus, client, asyncLoop, shared, wires
  <1>2. TypeOK' /\ OneClear'
    BY <1>0, <1>1 DEF TypeOK, OneClear
  <1>3. AcksAreLast' /\ MessagesAreCurrent' /\ IdsGrow' /\ MessageInHand'
    BY <1>0, <1>1 DEF AcksAreLast, MessagesAreCurrent, IdsGrow, MessageInHand
  <1>4. HalvesAreDropped'
    BY <1>0, <1>1 DEF HalvesAreDropped
  <1>5. MavMeansReply'
    BY <1>0, <1>1 DEF MavMeansReply, ReplyInFlight
  <1> QED
    BY <1>2, <1>3, <1>4, <1>5 DEF ChanInv

\* MAV goes up with a reply to be written.
LEMMA ExecuteQueryStep ==
  ASSUME ChanInv, ExecuteQuery
  PROVE  ChanInv'
  <1>0. /\ TypeOK /\ OneClear /\ AcksAreLast /\ MessagesAreCurrent /\ IdsGrow /\ HalvesAreDropped
        /\ MavMeansReply /\ MessageInHand
    BY DEF ChanInv
  <1>1. /\ syncPc = "exec" /\ cmd # <<>> /\ syncPc' = "reply" /\ mav' = TRUE
        /\ UNCHANGED <<toSync, toAsync, fromSync, fromAsync>>
        /\ UNCHANGED <<gen, phase, sent, consumed, queries, drained>>
        /\ UNCHANGED <<buffer, epoch, cmd, msg, asyncPc, query, locked, clear_epoch, last_message_id>>
    BY DEF ExecuteQuery, client, asyncLoop, wires
  <1>2. TypeOK' /\ OneClear'
    BY <1>0, <1>1 DEF TypeOK, OneClear
  <1>3. AcksAreLast' /\ MessagesAreCurrent' /\ IdsGrow' /\ MessageInHand'
    BY <1>0, <1>1 DEF AcksAreLast, MessagesAreCurrent, IdsGrow, MessageInHand
  <1>4. HalvesAreDropped'
    BY <1>0, <1>1 DEF HalvesAreDropped
  <1>5. MavMeansReply'
    BY <1>1 DEF MavMeansReply, ReplyInFlight
  <1> QED
    BY <1>2, <1>3, <1>4, <1>5 DEF ChanInv

\* A command without a reply leaves MAV as it was.
LEMMA ExecuteCommandStep ==
  ASSUME ChanInv, ExecuteCommand
  PROVE  ChanInv'
  <1>0. /\ TypeOK /\ OneClear /\ AcksAreLast /\ MessagesAreCurrent /\ IdsGrow /\ HalvesAreDropped
        /\ MavMeansReply /\ MessageInHand
    BY DEF ChanInv
  <1>1. /\ syncPc = "exec" /\ syncPc' = "read" /\ cmd' = <<>>
        /\ UNCHANGED <<toSync, toAsync, fromSync, fromAsync>>
        /\ UNCHANGED <<gen, phase, sent, consumed, queries, drained>>
        /\ UNCHANGED <<buffer, epoch, msg, asyncPc, query, locked, clear_epoch, mav, last_message_id>>
    BY DEF ExecuteCommand, client, wires, asyncLoop, shared
  <1>2. <<>> \in Seq(Gens) /\ DOMAIN <<>> = {}
    OBVIOUS
  <1>3. TypeOK' /\ OneClear'
    BY <1>0, <1>1, <1>2 DEF TypeOK, OneClear
  <1>4. AcksAreLast' /\ MessagesAreCurrent' /\ IdsGrow' /\ MessageInHand'
    BY <1>0, <1>1 DEF AcksAreLast, MessagesAreCurrent, IdsGrow, MessageInHand
  <1>5. HalvesAreDropped'
    BY <1>0, <1>1, <1>2 DEF HalvesAreDropped
  <1>6. MavMeansReply'
    BY <1>0, <1>1 DEF MavMeansReply, ReplyInFlight
  <1> QED
    BY <1>3, <1>4, <1>5, <1>6 DEF ChanInv

\* The reply is of the client's generation, and nothing follows an acknowledge.
LEMMA WriteReplyStep ==
  ASSUME ChanInv, WriteReply
  PROVE  ChanInv'
  <1>0. /\ TypeOK /\ OneClear /\ AcksAreLast /\ MessagesAreCurrent /\ IdsGrow /\ HalvesAreDropped
        /\ MavMeansReply /\ MessageInHand
    BY DEF ChanInv
  <1>1. /\ syncPc = "reply" /\ syncPc' = "read" /\ cmd' = <<>>
        /\ UNCHANGED <<toSync, toAsync, fromAsync, gen, phase, sent, consumed, queries, drained>>
        /\ UNCHANGED <<buffer, epoch, msg, asyncPc, query, locked, clear_epoch, mav, last_message_id>>
    BY DEF WriteReply, client, asyncLoop, shared
  <1>2. PICK r \in SyncReplies : r.kind = "Reply" /\ r.gen = gen /\ fromSync' = Append(fromSync, r)
    <2>1. Last(cmd) = gen
      BY <1>0, <1>1 DEF MessagesAreCurrent
    <2>2. [kind |-> "Reply", gen |-> Last(cmd)] \in SyncReplies
      BY <1>0, <2>1 DEF TypeOK, SyncReplies
    <2> QED
      BY <2>1, <2>2 DEF WriteReply
  <1>3. fromSync \in Seq(SyncReplies) /\ <<>> \in Seq(Gens) /\ DOMAIN <<>> = {}
    BY <1>0 DEF TypeOK
  <1>4. ~Has(fromSync, "ClearAck")
    BY <1>0, <1>1 DEF AcksAreLast
  <1>5. ~Has(fromSync', "ClearAck") /\ AtEnd(fromSync', "ClearAck") /\ fromSync' \in Seq(SyncReplies)
    BY <1>2, <1>3, <1>4, Appended, AppendAt
  <1>6. TypeOK'
    BY <1>0, <1>1, <1>3, <1>5, Zenon DEF TypeOK
  <1>7. OneClear'
    BY <1>0, <1>1, <1>5 DEF OneClear
  <1>8. AcksAreLast' /\ IdsGrow' /\ MessageInHand'
    BY <1>0, <1>1, <1>5 DEF AcksAreLast, IdsGrow, MessageInHand
  <1>9. MessagesAreCurrent'
    <2>1. \A i \in DOMAIN fromSync' : fromSync'[i].gen = gen
      BY <1>0, <1>2, <1>3, AppendAt DEF MessagesAreCurrent
    <2> QED
      BY <1>0, <1>1, <2>1 DEF MessagesAreCurrent
  <1>10. HalvesAreDropped'
    BY <1>0, <1>1, <1>3, <1>5 DEF HalvesAreDropped
  <1>11. MavMeansReply'
    <2>1. \E i \in DOMAIN fromSync' : fromSync'[i].kind = "Reply"
      BY <1>2, <1>3, AppendAt
    <2> QED
      BY <2>1 DEF MavMeansReply, ReplyInFlight
  <1> QED
    BY <1>6, <1>7, <1>8, <1>9, <1>10, <1>11 DEF ChanInv

\* A clear goes from the wire to the gate.
LEMMA ReadClearStep ==
  ASSUME ChanInv, ReadClear
  PROVE  ChanInv'
  <1>0. /\ TypeOK /\ OneClear /\ AcksAreLast /\ MessagesAreCurrent /\ IdsGrow /\ HalvesAreDropped
        /\ MavMeansReply /\ MessageInHand
    BY DEF ChanInv
  <1>1. /\ asyncPc = "read" /\ toAsync # <<>> /\ Head(toAsync).kind = "Clear" /\ toAsync' = Tail(toAsync)
        /\ asyncPc' = "gate"
        /\ UNCHANGED <<toSync, fromSync, fromAsync, gen, phase, sent, consumed, queries, drained>>
        /\ UNCHANGED <<buffer, epoch, syncPc, cmd, msg, query, locked, clear_epoch, mav, last_message_id>>
    BY DEF ReadClear, client, syncLoop, shared
  <1>2. toAsync \in Seq(AsyncMessages) /\ Once(toAsync, "Clear")
    BY <1>0 DEF TypeOK, OneClear
  <1>3. Has(toAsync, "Clear") /\ ~Has(toAsync', "Clear") /\ Once(toAsync', "Clear")
    BY <1>1, <1>2, Removed
  <1>4. TypeOK'
    <2>1. toAsync' \in Seq(AsyncMessages)
      BY <1>1, <1>2, TailAt
    <2> QED
      BY <1>0, <1>1, <2>1, Zenon DEF TypeOK
  <1>5. OneClear'
    BY <1>0, <1>1, <1>3 DEF OneClear
  <1>6. AcksAreLast' /\ MessagesAreCurrent' /\ IdsGrow' /\ MessageInHand'
    BY <1>0, <1>1 DEF AcksAreLast, MessagesAreCurrent, IdsGrow, MessageInHand
  <1>7. HalvesAreDropped'
    BY <1>0, <1>1 DEF HalvesAreDropped
  <1>8. MavMeansReply'
    BY <1>0, <1>1 DEF MavMeansReply, ReplyInFlight
  <1> QED
    BY <1>4, <1>5, <1>6, <1>7, <1>8 DEF ChanInv

\* The epoch is bumped for a clear that is asked for, and only once.
LEMMA PassGateStep ==
  ASSUME ChanInv, PassGate
  PROVE  ChanInv'
  <1>0. /\ TypeOK /\ OneClear /\ AcksAreLast /\ MessagesAreCurrent /\ IdsGrow /\ HalvesAreDropped
        /\ MavMeansReply /\ MessageInHand
    BY DEF ChanInv
  <1>1. /\ asyncPc = "gate" /\ clear_epoch' = clear_epoch + 1 /\ asyncPc' = "clear"
        /\ UNCHANGED <<toSync, toAsync, fromSync, fromAsync, gen, phase, sent, consumed, queries, drained>>
        /\ UNCHANGED <<buffer, epoch, syncPc, cmd, msg, query, locked, mav, last_message_id>>
    BY DEF PassGate, wires, client, syncLoop
  <1>2. /\ phase = "asked" /\ ~Has(fromAsync, "ClearAck") /\ clear_epoch = gen /\ gen < MaxClears
        /\ ~Has(toAsync, "Clear")
    BY <1>0, <1>1 DEF OneClear
  <1>3. ~Has(toSync, "ClearComplete") /\ ~Has(fromSync, "ClearAck")
    BY <1>0, <1>2 DEF OneClear
  <1>4. TypeOK'
    <2>1. clear_epoch' \in Gens
      BY <1>0, <1>1, <1>2, BoundsAssumption DEF TypeOK, Gens, BoundsAssumption
    <2> QED
      BY <1>0, <1>1, <2>1, Zenon DEF TypeOK
  <1>5. OneClear'
    BY <1>0, <1>1, <1>2, <1>3 DEF OneClear
  <1>6. AcksAreLast' /\ MessagesAreCurrent' /\ IdsGrow' /\ MessageInHand'
    BY <1>0, <1>1 DEF AcksAreLast, MessagesAreCurrent, IdsGrow, MessageInHand
  <1>7. HalvesAreDropped'
    <2>1. epoch \in Int /\ clear_epoch \in Int
      BY <1>0 DEF TypeOK, Gens
    <2>2. drained => epoch < clear_epoch' /\ epoch <= clear_epoch' /\ epoch # clear_epoch'
      BY <1>0, <1>1, <2>1 DEF HalvesAreDropped
    <2> QED
      BY <1>0, <1>1, <1>3, <2>2 DEF HalvesAreDropped
  <1>8. MavMeansReply'
    BY <1>1, <1>2 DEF MavMeansReply
  <1> QED
    BY <1>4, <1>5, <1>6, <1>7, <1>8 DEF ChanInv

\* The acknowledge on the async channel: the clear moves on from the loop to the wire.
LEMMA ClearDeviceStep ==
  ASSUME ChanInv, ClearDevice
  PROVE  ChanInv'
  <1>0. /\ TypeOK /\ OneClear /\ AcksAreLast /\ MessagesAreCurrent /\ IdsGrow /\ HalvesAreDropped
        /\ MavMeansReply /\ MessageInHand
    BY DEF ChanInv
  <1>1. /\ asyncPc = "clear" /\ asyncPc' = "read"
        /\ UNCHANGED <<toSync, toAsync, fromSync, gen, phase, sent, consumed, queries, drained>>
        /\ UNCHANGED <<buffer, epoch, syncPc, cmd, msg, query, locked, clear_epoch, mav, last_message_id>>
    BY DEF ClearDevice, client, syncLoop, shared
  <1>2. PICK r \in AsyncReplies : r.kind = "ClearAck" /\ fromAsync' = Append(fromAsync, r)
    <2>1. [kind |-> "ClearAck", mav |-> FALSE] \in AsyncReplies
      BY DEF AsyncReplies
    <2> QED
      BY <2>1 DEF ClearDevice
  <1>3. fromAsync \in Seq(AsyncReplies) /\ Once(fromAsync, "ClearAck")
    BY <1>0 DEF TypeOK, OneClear
  <1>4. /\ phase = "asked" /\ ~Has(fromAsync, "ClearAck") /\ clear_epoch = gen + 1 /\ ~Has(toAsync, "Clear")
    BY <1>0, <1>1 DEF OneClear
  <1>5. Once(fromAsync', "ClearAck") /\ fromAsync' \in Seq(AsyncReplies)
    BY <1>2, <1>3, <1>4, Appended, AppendAt
  <1>6. TypeOK'
    BY <1>0, <1>1, <1>5, Zenon DEF TypeOK
  <1>7. OneClear'
    BY <1>0, <1>1, <1>4, <1>5 DEF OneClear
  <1>8. AcksAreLast' /\ MessagesAreCurrent' /\ IdsGrow' /\ MessageInHand'
    BY <1>0, <1>1 DEF AcksAreLast, MessagesAreCurrent, IdsGrow, MessageInHand
  <1>9. HalvesAreDropped'
    BY <1>0, <1>1 DEF HalvesAreDropped
  <1>10. MavMeansReply'
    BY <1>0, <1>1 DEF MavMeansReply, ReplyInFlight
  <1> QED
    BY <1>6, <1>7, <1>8, <1>9, <1>10 DEF ChanInv

\* A status query is read off the async wire.
LEMMA ReadStatusQueryStep ==
  ASSUME ChanInv, ReadStatusQuery
  PROVE  ChanInv'
  <1>0. /\ TypeOK /\ OneClear /\ AcksAreLast /\ MessagesAreCurrent /\ IdsGrow /\ HalvesAreDropped
        /\ MavMeansReply /\ MessageInHand
    BY DEF ChanInv
  <1>1. /\ asyncPc = "read" /\ toAsync # <<>> /\ toAsync' = Tail(toAsync)
        /\ asyncPc' = "status" /\ query' = Head(toAsync).id
        /\ UNCHANGED <<toSync, fromSync, fromAsync, gen, phase, sent, consumed, queries, drained>>
        /\ UNCHANGED <<buffer, epoch, syncPc, cmd, msg, locked, clear_epoch, mav, last_message_id>>
    BY DEF ReadStatusQuery, client, syncLoop, shared
  <1>2. toAsync \in Seq(AsyncMessages) /\ Once(toAsync, "Clear")
    BY <1>0 DEF TypeOK, OneClear
  <1>3. /\ Once(toAsync', "Clear") /\ toAsync' \in Seq(AsyncMessages)
        /\ Has(toAsync', "Clear") => Has(toAsync, "Clear")
    BY <1>1, <1>2, Removed, TailAt
  <1>4. TypeOK'
    <2>1. query' \in 0..MaxMessages
      <3>1. Head(toAsync) \in AsyncMessages
        BY <1>1, <1>2, TailAt
      <3> QED
        BY <1>1, <3>1 DEF AsyncMessages
    <2> QED
      BY <1>0, <1>1, <1>3, <2>1, Zenon DEF TypeOK
  <1>5. OneClear'
    BY <1>0, <1>1, <1>3 DEF OneClear
  <1>6. AcksAreLast' /\ MessagesAreCurrent' /\ IdsGrow' /\ MessageInHand'
    BY <1>0, <1>1 DEF AcksAreLast, MessagesAreCurrent, IdsGrow, MessageInHand
  <1>7. HalvesAreDropped'
    BY <1>0, <1>1 DEF HalvesAreDropped
  <1>8. MavMeansReply'
    BY <1>0, <1>1 DEF MavMeansReply, ReplyInFlight
  <1> QED
    BY <1>4, <1>5, <1>6, <1>7, <1>8 DEF ChanInv

\* mav is loaded.
LEMMA LoadMavStep ==
  ASSUME ChanInv, LoadMav
  PROVE  ChanInv'
  <1>0. /\ TypeOK /\ OneClear /\ AcksAreLast /\ MessagesAreCurrent /\ IdsGrow /\ HalvesAreDropped
        /\ MavMeansReply /\ MessageInHand
    BY DEF ChanInv
  <1>1. /\ asyncPc = "status" /\ asyncPc' = "mav"
        /\ UNCHANGED <<toSync, toAsync, fromSync, fromAsync, gen, phase, sent, consumed, queries, drained>>
        /\ UNCHANGED <<buffer, epoch, syncPc, cmd, msg, query, locked, clear_epoch, mav, last_message_id>>
    BY DEF LoadMav, wires, client, syncLoop, shared
  <1>2. TypeOK' /\ OneClear'
    BY <1>0, <1>1 DEF TypeOK, OneClear
  <1>3. AcksAreLast' /\ MessagesAreCurrent' /\ IdsGrow' /\ MessageInHand'
    BY <1>0, <1>1 DEF AcksAreLast, MessagesAreCurrent, IdsGrow, MessageInHand
  <1>4. HalvesAreDropped'
    BY <1>0, <1>1 DEF HalvesAreDropped
  <1>5. MavMeansReply'
    BY <1>0, <1>1 DEF MavMeansReply, ReplyInFlight
  <1> QED
    BY <1>2, <1>3, <1>4, <1>5 DEF ChanInv

\* A status response changes nothing but the async wire.
LEMMA AnswerStep ==
  ASSUME ChanInv, asyncPc \in {"status", "mav"}, NEW bit \in BOOLEAN, AnswerStatus(bit)
  PROVE  ChanInv'
  <1>0. /\ TypeOK /\ OneClear /\ AcksAreLast /\ MessagesAreCurrent /\ IdsGrow /\ HalvesAreDropped
        /\ MavMeansReply /\ MessageInHand
    BY DEF ChanInv
  <1>1. /\ asyncPc' = "read" /\ query' = 0
        /\ UNCHANGED <<toSync, toAsync, fromSync, gen, phase, sent, consumed, queries, drained>>
        /\ UNCHANGED <<buffer, epoch, syncPc, cmd, msg, locked, clear_epoch, mav, last_message_id>>
    BY DEF AnswerStatus, client, syncLoop, shared
  <1>2. PICK r \in AsyncReplies : r.kind = "Status" /\ fromAsync' = Append(fromAsync, r)
    <2>1. [kind |-> "Status", mav |-> bit] \in AsyncReplies
      BY DEF AsyncReplies
    <2> QED
      BY <2>1 DEF AnswerStatus
  <1>3. fromAsync \in Seq(AsyncReplies) /\ Once(fromAsync, "ClearAck")
    BY <1>0 DEF TypeOK, OneClear
  <1>4. /\ Once(fromAsync', "ClearAck") /\ fromAsync' \in Seq(AsyncReplies)
        /\ Has(fromAsync', "ClearAck") <=> Has(fromAsync, "ClearAck")
    BY <1>2, <1>3, Appended, AppendAt
  <1>5. TypeOK'
    <2>1. 0 \in 0..MaxMessages
      BY BoundsAssumption DEF BoundsAssumption
    <2> QED
      BY <1>0, <1>1, <1>4, <2>1, Zenon DEF TypeOK
  <1>6. OneClear'
    BY <1>0, <1>1, <1>4 DEF OneClear
  <1>7. AcksAreLast' /\ MessagesAreCurrent' /\ IdsGrow' /\ MessageInHand'
    BY <1>0, <1>1 DEF AcksAreLast, MessagesAreCurrent, IdsGrow, MessageInHand
  <1>8. HalvesAreDropped'
    BY <1>0, <1>1, <1>4 DEF HalvesAreDropped
  <1>9. MavMeansReply'
    BY <1>0, <1>1 DEF MavMeansReply, ReplyInFlight
  <1> QED
    BY <1>5, <1>6, <1>7, <1>8, <1>9 DEF ChanInv

\* MAV down is answered at once; up, it depends on the id.
LEMMA LoadMavDownStep ==
  ASSUME ChanInv, LoadMavDown
  PROVE  ChanInv'
  BY AnswerStep DEF LoadMavDown

\* The id is compared when last_message_id is loaded.
LEMMA LoadMessageIdStep ==
  ASSUME ChanInv, LoadMessageId
  PROVE  ChanInv'
  <1>1. MavBit \in BOOLEAN
    BY Zenon DEF MavBit
  <1> QED
    BY <1>1, AnswerStep DEF LoadMessageId

\* Another session's lock is not looked at by the invariant.
LEMMA OthersStep ==
  ASSUME ChanInv, Others
  PROVE  ChanInv'
  <1>0. /\ TypeOK /\ OneClear /\ AcksAreLast /\ MessagesAreCurrent /\ IdsGrow /\ HalvesAreDropped
        /\ MavMeansReply /\ MessageInHand
    BY DEF ChanInv
  <1>1. /\ UNCHANGED <<toSync, toAsync, fromSync, fromAsync, gen, phase, sent, consumed, queries, drained>>
        /\ UNCHANGED <<buffer, epoch, syncPc, cmd, msg, asyncPc, query, clear_epoch, mav, last_message_id>>
    BY DEF Others, wires, client, syncLoop, asyncLoop, shared
  <1>2. TypeOK'
    <2>1. locked' \in BOOLEAN
      BY <1>0, Zenon DEF Others, TypeOK
    <2> QED
      BY <1>0, <1>1, <2>1, Zenon DEF TypeOK
  <1>3. OneClear'
    BY <1>0, <1>1 DEF OneClear
  <1>4. AcksAreLast' /\ MessagesAreCurrent' /\ IdsGrow' /\ MessageInHand'
    BY <1>0, <1>1 DEF AcksAreLast, MessagesAreCurrent, IdsGrow, MessageInHand
  <1>5. HalvesAreDropped'
    BY <1>0, <1>1 DEF HalvesAreDropped
  <1>6. MavMeansReply'
    BY <1>0, <1>1 DEF MavMeansReply, ReplyInFlight
  <1> QED
    BY <1>2, <1>3, <1>4, <1>5, <1>6 DEF ChanInv

\* Every step keeps the invariant.
LEMMA ChanInvStep == ChanInv /\ [Next]_vars => ChanInv'
  <1> SUFFICES ASSUME ChanInv, [Next]_vars PROVE ChanInv'
    OBVIOUS
  <1>1. ASSUME UNCHANGED vars PROVE ChanInv'
    <2>1. UNCHANGED <<toSync, toAsync, fromSync, fromAsync, gen, phase, sent, consumed, queries, drained,
                      buffer, epoch, syncPc, cmd, msg, asyncPc, query, locked, clear_epoch, mav, last_message_id>>
      BY <1>1 DEF vars, wires, client, syncLoop, asyncLoop, shared
    <2>2. TypeOK' /\ OneClear' /\ AcksAreLast' /\ MessagesAreCurrent'
      BY <2>1 DEF ChanInv, TypeOK, OneClear, AcksAreLast, MessagesAreCurrent
    <2>3. IdsGrow' /\ HalvesAreDropped' /\ MavMeansReply' /\ MessageInHand'
      BY <2>1 DEF ChanInv, IdsGrow, HalvesAreDropped, MavMeansReply, ReplyInFlight, MessageInHand
    <2> QED
      BY <2>2, <2>3 DEF ChanInv
  <1> QED
    BY <1>1, SendMessageStep, SendClearStep, SendStatusQueryStep, ReadAsyncStep, ReadSyncStep,
       ReadMessageStep, NoteClientMessageStep, HandleMessageStep, ReadClearCompleteStep, TakeBusStep,
       ExecuteQueryStep, ExecuteCommandStep, WriteReplyStep, ReadClearStep, PassGateStep, ClearDeviceStep,
       ReadStatusQueryStep, LoadMavStep, LoadMavDownStep, LoadMessageIdStep, OthersStep
       DEF Next, SyncLoop, AsyncLoop

\* The invariant holds in every reachable state.
THEOREM ChanInvariant == Spec => []ChanInv
  BY ChanInvInit, ChanInvStep, PTL DEF Spec

-----------------------------------------------------------------------------
(* What it gives.                                                          *)

\* Every variable has its type: the queues, and clear_epoch within the clears there were.
THEOREM ChannelsTyped == Spec => []TypeOK
  <1>1. ChanInv => TypeOK
    BY DEF ChanInv
  <1> QED
    BY <1>1, ChanInvariant, PTL

\* After DeviceClearAcknowledge the client meets no reply from before the clear.
THEOREM RepliesAreFresh == Spec => []NoStaleReplies
  <1>1. ChanInv => NoStaleReplies
    BY DEF ChanInv, MessagesAreCurrent, NoStaleReplies
  <1> QED
    BY <1>1, ChanInvariant, PTL

\* No command that reaches the instrument has bytes from both sides of a device clear, if
\* the client clears only when the server has read what came before.
THEOREM ClearsDropHalves == Spec => []CommandsAreWhole
  <1>1. ChanInv => CommandsAreWhole
    BY DEF ChanInv, HalvesAreDropped, CommandsAreWhole
  <1> QED
    BY <1>1, ChanInvariant, PTL

\* MAV is never stuck: while it is up, a reply is on its way, or read but not yet reported,
\* or a clear is under way.
THEOREM MavIsNotStuck == Spec => []MavMeansReply
  <1>1. ChanInv => MavMeansReply
    BY DEF ChanInv
  <1> QED
    BY <1>1, ChanInvariant, PTL

\* A status query that quotes the last message is told of a reply the client has already
\* acknowledged only in a race: the sync loop notes that very message while the query is
\* being answered.
THEOREM OnlyARaceIsStale == Spec => StaleStatusIsARace
  <1> DEFINE Step == Len(fromAsync') > Len(fromAsync) /\ Last(fromAsync').mav /\ query = sent
                       => \/ ReplyInFlight \/ consumed \/ phase # "io"
                          \/ ~mav \/ (syncPc = "noted" /\ msg.rmt)
  <1>1. ASSUME ChanInv, [Next]_vars,
               Len(fromAsync') > Len(fromAsync), Last(fromAsync').mav, query = sent
        PROVE  \/ ReplyInFlight \/ consumed \/ phase # "io"
               \/ ~mav \/ (syncPc = "noted" /\ msg.rmt)
    <2>0. /\ TypeOK /\ IdsGrow /\ MavMeansReply /\ MessageInHand /\ fromAsync \in Seq(AsyncReplies)
      BY <1>1 DEF ChanInv, TypeOK
    <2>1. ASSUME NEW bit \in BOOLEAN, AnswerStatus(bit) PROVE bit = TRUE
      <3>1. PICK r \in AsyncReplies : r.mav = bit /\ fromAsync' = Append(fromAsync, r)
        <4>1. [kind |-> "Status", mav |-> bit] \in AsyncReplies
          BY DEF AsyncReplies
        <4> QED
          BY <2>1, <4>1 DEF AnswerStatus
      <3>2. Last(fromAsync') = r
        BY <2>0, <3>1, AppendAt
      <3> QED
        BY <1>1, <3>1, <3>2
    <2>2. ~ClearDevice
      <3> SUFFICES ASSUME ClearDevice PROVE FALSE
        OBVIOUS
      <3>1. PICK r \in AsyncReplies : r.mav = FALSE /\ fromAsync' = Append(fromAsync, r)
        <4>1. [kind |-> "ClearAck", mav |-> FALSE] \in AsyncReplies
          BY DEF AsyncReplies
        <4> QED
          BY <4>1 DEF ClearDevice
      <3>2. Last(fromAsync') = r
        BY <2>0, <3>1, AppendAt
      <3> QED
        BY <1>1, <3>1, <3>2
    <2>3. ~ReadAsync
      <3>1. ReadAsync => Len(fromAsync') = Len(fromAsync) - 1
        BY <2>0, TailAt DEF ReadAsync
      <3> QED
        BY <1>1, <2>0, <3>1
    <2>4. fromAsync' # fromAsync
      BY <1>1, <2>0
    <2>5. LoadMavDown \/ LoadMessageId
      BY <1>1, <2>2, <2>3, <2>4 DEF Next, SyncLoop, AsyncLoop, Others, SendMessage, SendClear, SendStatusQuery,
         ReadSync, ReadMessage, NoteClientMessage, HandleMessage, ReadClearComplete, TakeBus, ExecuteQuery,
         ExecuteCommand, WriteReply, ReadClear, PassGate, ReadStatusQuery, LoadMav, vars, wires
    <2>6. ~LoadMavDown
      BY <2>1 DEF LoadMavDown
    <2>7. last_message_id = sent
      <3>1. MavBit \in BOOLEAN
        BY Zenon DEF MavBit
      <3>2. MavBit
        BY <2>1, <2>5, <2>6, <3>1 DEF LoadMessageId
      <3> QED
        BY <1>1, <3>2 DEF MavBit
    <2>8. \A i \in DOMAIN toSync : ~toSync[i].rmt
      <3> SUFFICES ASSUME NEW i \in DOMAIN toSync, toSync[i].rmt PROVE FALSE
        OBVIOUS
      <3>1. toSync[i].id <= sent /\ last_message_id < toSync[i].id
        BY <2>0 DEF IdsGrow
      <3>2. toSync[i].id \in Int /\ sent \in Int
        BY <2>0, IdsAreNumbers DEF TypeOK
      <3> QED
        BY <2>7, <3>1, <3>2
    <2>9. msg.rmt => syncPc = "noted"
      <3> SUFFICES ASSUME msg.rmt, syncPc # "noted" PROVE FALSE
        OBVIOUS
      <3>1. syncPc = "note"
        BY <2>0 DEF MessageInHand, NoMessage
      <3>2. msg.id <= sent /\ last_message_id < msg.id
        BY <2>0, <3>1 DEF MessageInHand
      <3>3. msg.id \in Int /\ sent \in Int
        BY <2>0, InHandId DEF TypeOK
      <3> QED
        BY <2>7, <3>2, <3>3
    <2> QED
      BY <2>0, <2>8, <2>9 DEF MavMeansReply
  <1>2. ChanInv /\ [Next]_vars => [Step]_vars
    BY <1>1
  <1> QED
    BY <1>2, ChanInvariant, PTL DEF Spec, StaleStatusIsARace
=============================================================================
