------------------------ MODULE HislipExecuteProofs ------------------------
(***************************************************************************)
(* Theorems about VirtualInstrument and about HislipExecute on top of it.  *)
(* A message is executed unit by unit by a recursive function, so what it  *)
(* leaves is shown by induction on its length; everything else follows     *)
(* from what single operations on a bus do.                                *)
(***************************************************************************)
EXTENDS HislipExecute, WellFoundedInduction, TLAPS

-----------------------------------------------------------------------------
(* Induction, over sets of numbers.                                        *)

\* A set of natural numbers has a least element.
LEMMA LeastNumber ==
  ASSUME NEW T, T \subseteq Nat, T # {}
  PROVE  \E x \in T : \A y \in T : x <= y
  <1> DEFINE Less == OpToRel(<, Nat)
  <1>1. IsWellFoundedOn(Less, Nat)
    BY NatLessThanWellFounded
  <1>2. \A x, y \in Nat : <<y, x>> \in Less <=> y < x
    BY DEF OpToRel
  <1> HIDE DEF Less
  <1>3. PICK x \in T : \A y \in T : ~(<<y, x>> \in Less)
    BY <1>1, WFMin
  <1>4. ASSUME NEW y \in T PROVE x <= y
    <2>1. ~(y < x)
      BY <1>2, <1>3
    <2> QED
      BY <2>1
  <1> QED
    BY <1>4

\* So a set that has 0 and the successors of what it has, has every number.
LEMMA NumbersByInduction ==
  ASSUME NEW S, 0 \in S, \A n \in Nat : n \in S => n + 1 \in S
  PROVE  Nat \subseteq S
  <1> SUFFICES ASSUME Nat \ S # {} PROVE FALSE
    OBVIOUS
  <1>1. PICK m \in Nat \ S : \A n \in Nat \ S : m <= n
    BY LeastNumber
  <1>2. m # 0 /\ m - 1 \in Nat /\ m - 1 \in S
    BY <1>1
  <1>3. (m - 1) + 1 \in S
    BY <1>2
  <1> QED
    BY <1>1, <1>3

-----------------------------------------------------------------------------
(* A message, unit by unit.                                                *)

\* after is the device after each of the first n units.
IsCourse(after, d, units, n) ==
  after = [i \in 0..n |-> IF i = 0 THEN d ELSE Execute(after[i - 1], units[i])]

\* There is such a course, however long the message.
LEMMA CoursesExist ==
  ASSUME NEW d, NEW units
  PROVE  \A n \in Nat : \E after : IsCourse(after, d, units, n)
  <1> DEFINE S == {n \in Nat : \E after : IsCourse(after, d, units, n)}
  <1>1. 0 \in S
    <2> DEFINE f == [i \in 0..0 |-> d]
    <2>1. IsCourse(f, d, units, 0)
      BY DEF IsCourse
    <2> QED
      BY <2>1
  <1>2. ASSUME NEW n \in Nat, n \in S PROVE n + 1 \in S
    <2>1. PICK f : IsCourse(f, d, units, n)
      BY <1>2
    <2> DEFINE g == [i \in 0..(n + 1) |-> IF i = n + 1 THEN Execute(f[n], units[n + 1]) ELSE f[i]]
               h == [i \in 0..(n + 1) |-> IF i = 0 THEN d ELSE Execute(g[i - 1], units[i])]
    <2>2. ASSUME NEW i \in 0..(n + 1) PROVE g[i] = h[i]
      <3>1. CASE i = n + 1
        <4>1. i # 0 /\ i - 1 = n /\ g[i] = Execute(f[n], units[n + 1]) /\ g[n] = f[n]
          BY <3>1
        <4> QED
          BY <4>1
      <3>2. CASE i # n + 1
        <4>1. i \in 0..n /\ g[i] = f[i] /\ (i # 0 => g[i - 1] = f[i - 1])
          BY <3>2
        <4>2. f[i] = IF i = 0 THEN d ELSE Execute(f[i - 1], units[i])
          BY <4>1, <2>1 DEF IsCourse
        <4> QED
          BY <4>1, <4>2
      <3> QED
        BY <3>1, <3>2
    <2>3. g = h
      BY <2>2
    <2>4. IsCourse(g, d, units, n + 1)
      BY <2>3 DEF IsCourse
    <2> QED
      BY <2>4
  <1>3. Nat \subseteq S
    <2> HIDE DEF S
    <2> QED
      BY <1>1, <1>2, NumbersByInduction
  <1> QED
    BY <1>3

\* And the recursive function of Executed is one.
LEMMA ExecutedIsACourse ==
  ASSUME NEW d, NEW units \in Seq(Units)
  PROVE  \E after : IsCourse(after, d, units, Len(units)) /\ Executed(d, units) = after[Len(units)]
  <1> DEFINE f == CHOOSE after : IsCourse(after, d, units, Len(units))
  <1>1. Len(units) \in Nat
    OBVIOUS
  <1>2. \E after : IsCourse(after, d, units, Len(units))
    BY <1>1, CoursesExist
  <1>3. IsCourse(f, d, units, Len(units))
    BY <1>2
  <1>4. Executed(d, units) = f[Len(units)]
    BY DEF Executed, IsCourse
  <1> QED
    BY <1>3, <1>4

-----------------------------------------------------------------------------
(* Devices.                                                                *)

\* A device as the operations leave it.
Sound(d) == d \in Devices /\ Len(d.errors) <= ErrorDepth

\* error keeps the queue within its depth.
LEMMA ErrorKeeps ==
  ASSUME NEW d, Sound(d), NEW code \in EventBits
  PROVE  /\ Sound(Error(d, code)) /\ Error(d, code).output = d.output
         /\ Error(d, code).input = d.input /\ Error(d, code).last_mss = d.last_mss
  <1> DEFINE e == IF Len(d.errors) >= ErrorDepth THEN Append(Front(d.errors), "overflow")
                                                ELSE Append(d.errors, code)
  <1>1. d.errors \in Seq(Errors) /\ Len(d.errors) <= ErrorDepth /\ ErrorDepth \in Nat \ {0}
    BY BusAssumption DEF Sound, Devices
  <1>2. code \in Errors /\ "overflow" \in Errors
    BY DEF Errors
  <1>3. e \in Seq(Errors) /\ Len(e) <= ErrorDepth
    <2>1. CASE Len(d.errors) >= ErrorDepth
      <3>1. Front(d.errors) \in Seq(Errors) /\ Len(Front(d.errors)) = Len(d.errors) - 1
        BY <1>1, <2>1 DEF Front
      <3> QED
        BY <1>1, <1>2, <2>1, <3>1
    <2>2. CASE ~(Len(d.errors) >= ErrorDepth)
      BY <1>1, <1>2, <2>2
    <2> QED
      BY <2>1, <2>2
  <1>4. Error(d, code) = [d EXCEPT !.errors = e, !.esr = d.esr \cup {code}]
    BY DEF Error, Sound, Devices
  <1> HIDE DEF e
  <1>5. d.esr \cup {code} \in SUBSET EventBits
    BY DEF Sound, Devices
  <1> QED
    BY <1>3, <1>4, <1>5 DEF Sound, Devices

\* A reply makes the output longer by its bytes and a newline.
LEMMA ReplyKeeps ==
  ASSUME NEW d, Sound(d), NEW bytes \in Nat
  PROVE  /\ Sound(Reply(d, bytes)) /\ Reply(d, bytes).input = d.input
         /\ Len(Reply(d, bytes).output) = Len(d.output) + bytes + 1
         /\ Reply(d, bytes).last_mss = d.last_mss
  <1> DEFINE body == [i \in 1..bytes |-> "byte"]
             o == d.output \o body \o <<"newline">>
  <1>1. d.output \in Seq({"byte", "newline"})
    BY DEF Sound, Devices
  <1>2. body \in Seq({"byte", "newline"}) /\ Len(body) = bytes
    OBVIOUS
  <1> HIDE DEF body
  <1>3. o \in Seq({"byte", "newline"}) /\ Len(o) = Len(d.output) + bytes + 1
    BY <1>1, <1>2
  <1>4. Reply(d, bytes) = [d EXCEPT !.output = o]
    BY DEF Reply, Sound, Devices, body
  <1> HIDE DEF o
  <1> QED
    BY <1>3, <1>4 DEF Sound, Devices

\* reset empties the queues and keeps the enable registers and last_mss.
LEMMA ResetKeeps ==
  ASSUME NEW d, Sound(d)
  PROVE  /\ Sound(Reset(d)) /\ Reset(d).output = <<>> /\ Reset(d).input = <<>>
         /\ Reset(d).last_mss = d.last_mss
  <1>1. /\ <<>> \in Seq(Errors) /\ <<>> \in Seq({"byte", "newline"}) /\ <<>> \in Seq(Units)
        /\ Len(<<>>) = 0
    OBVIOUS
  <1>2. Reset(d) \in Devices
    BY <1>1 DEF Reset, Sound, Devices
  <1>3. /\ Reset(d).errors = <<>> /\ Reset(d).output = <<>> /\ Reset(d).input = <<>>
        /\ Reset(d).last_mss = d.last_mss
    BY DEF Reset, Sound, Devices
  <1> QED
    BY <1>1, <1>2, <1>3, BusAssumption DEF Sound

\* A unit keeps the device sound and adds no input.
LEMMA ExecuteKeeps ==
  ASSUME NEW d, Sound(d), NEW u \in Units
  PROVE  /\ Sound(Execute(d, u))
         /\ Execute(d, u).input \in {d.input, <<>>}
         /\ Execute(d, u).last_mss = d.last_mss
  <1>0. d \in Devices /\ Len(d.output) \in Nat /\ BigReply \in Nat /\ ErrorDepth \in Nat
    BY BusAssumption DEF Sound, Devices
  <1>1. CASE u.head = "*RST"
    <2>1. Execute(d, u) = Reset(d)
      BY <1>1 DEF Execute
    <2> QED
      BY <1>0, <2>1, ResetKeeps
  <1>2. CASE u.head = "*CLS"
    <2> DEFINE e == [d EXCEPT !.errors = <<>>, !.esr = {}, !.user_stb = {}]
    <2>1. Execute(d, u) = e
      BY <1>2 DEF Execute
    <2>2. <<>> \in Seq(Errors) /\ Len(<<>>) = 0
      OBVIOUS
    <2>3. e \in Devices
      BY <1>0, <2>2 DEF Devices
    <2>4. e.errors = <<>> /\ e.output = d.output /\ e.input = d.input /\ e.last_mss = d.last_mss
      BY <1>0 DEF Devices
    <2> HIDE DEF e
    <2>5. Sound(e)
      BY <1>0, <2>2, <2>3, <2>4 DEF Sound
    <2> QED
      BY <1>0, <2>1, <2>4, <2>5
  <1>3. CASE u.head = "*SRE"
    <2>1. u.arg \in SUBSET StatusBits
      BY <1>3 DEF Units
    <2> QED
      BY <1>0, <1>3, <2>1 DEF Execute, Sound, Devices
  <1>4. CASE u.head = "*ESE"
    <2>1. u.arg \in SUBSET EventBits
      BY <1>4 DEF Units
    <2> QED
      BY <1>0, <1>4, <2>1 DEF Execute, Sound, Devices
  <1>5. CASE u.head = "*ESR?"
    <2> DEFINE e == [d EXCEPT !.esr = {}]
    <2>1. Sound(e) /\ e.output = d.output /\ e.input = d.input /\ e.last_mss = d.last_mss
      BY DEF Sound, Devices
    <2>2. Execute(d, u) = Reply(e, 1)
      BY <1>5 DEF Execute
    <2> HIDE DEF e
    <2> QED
      BY <1>0, <2>1, <2>2, ReplyKeeps
  <1>6. CASE u.head = "*OPC"
    <2>1. d.esr \cup {"OPC"} \in SUBSET EventBits
      BY DEF Sound, Devices, EventBits
    <2> QED
      BY <1>0, <1>6, <2>1 DEF Execute, Sound, Devices
  <1>7. CASE u.head = "*TRG"
    <2>1. Execute(d, u) = Error(d, "EXE") /\ "EXE" \in EventBits
      BY <1>7 DEF Execute, EventBits
    <2> QED
      BY <1>0, <2>1, ErrorKeeps
  <1>8. CASE u.head = "SYST:ERR?"
    <2> DEFINE e == [d EXCEPT !.errors = IF @ = <<>> THEN @ ELSE Tail(@)]
    <2>1. d.errors = <<>> \/ (Tail(d.errors) \in Seq(Errors) /\ Len(Tail(d.errors)) = Len(d.errors) - 1)
      BY DEF Sound, Devices
    <2> DEFINE q == IF d.errors = <<>> THEN d.errors ELSE Tail(d.errors)
    <2>2. q \in Seq(Errors) /\ Len(q) <= ErrorDepth
      BY <1>0, <2>1 DEF Sound, Devices
    <2>3. e = [d EXCEPT !.errors = q]
      BY <1>0 DEF Devices
    <2> HIDE DEF q, e
    <2>4. Sound(e) /\ e.output = d.output /\ e.input = d.input /\ e.last_mss = d.last_mss
      BY <1>0, <2>2, <2>3 DEF Sound, Devices
    <2>5. Execute(d, u) = Reply(e, 1)
      BY <1>8 DEF Execute, e
    <2> QED
      BY <1>0, <2>4, <2>5, ReplyKeeps
  <1>9. CASE u.head = "TEST:BIG?"
    <2>1. Execute(d, u) = Reply(d, BigReply)
      BY <1>9 DEF Execute
    <2> QED
      BY <1>0, <2>1, ReplyKeeps
  <1>10. CASE u.head = "TEST:SRQ"
    <2>1. d.user_stb \cup {"USER"} \in SUBSET StatusBits
      BY DEF Sound, Devices, StatusBits
    <2> QED
      BY <1>0, <1>10, <2>1 DEF Execute, Sound, Devices
  <1>11. CASE u.head = "*IDN?"
    <2>1. Execute(d, u) = Reply(d, 1)
      BY <1>11 DEF Execute
    <2> QED
      BY <1>0, <2>1, ReplyKeeps
  <1>12. CASE u.head = "undefined"
    <2>1. Execute(d, u) = Error(d, "CME") /\ "CME" \in EventBits
      BY <1>12 DEF Execute, EventBits
    <2> QED
      BY <1>0, <2>1, ErrorKeeps
  <1> QED
    BY <1>1, <1>2, <1>3, <1>4, <1>5, <1>6, <1>7, <1>8, <1>9, <1>10, <1>11, <1>12 DEF Units, Heads

\* So does a message.
LEMMA ExecutedKeeps ==
  ASSUME NEW d, Sound(d), d.input = <<>>, NEW units \in Seq(Units)
  PROVE  /\ Sound(Executed(d, units))
         /\ Executed(d, units).input = <<>>
         /\ Executed(d, units).last_mss = d.last_mss
  <1> DEFINE n == Len(units)
             Fine(e) == Sound(e) /\ e.input = <<>> /\ e.last_mss = d.last_mss
  <1>0. n \in Nat
    OBVIOUS
  <1>2. PICK after : IsCourse(after, d, units, n) /\ Executed(d, units) = after[n]
    BY ExecutedIsACourse
  <1> DEFINE S == {i \in Nat : i <= n => Fine(after[i])}
  <1>3. 0 \in S
    <2>1. after[0] = d
      BY <1>0, <1>2 DEF IsCourse
    <2> QED
      BY <2>1
  <1>4. ASSUME NEW i \in Nat, i \in S PROVE i + 1 \in S
    <2> SUFFICES ASSUME i + 1 <= n PROVE Fine(after[i + 1])
      OBVIOUS
    <2>1. Fine(after[i])
      BY <1>0, <1>4
    <2> DEFINE e == after[i]
               u == units[i + 1]
    <2>2. u \in Units
      BY <1>0
    <2>3. after[i + 1] = Execute(e, u)
      BY <1>0, <1>2 DEF IsCourse
    <2> HIDE DEF e, u, Fine
    <2>4. Fine(e)
      BY <2>1 DEF e
    <2>5. /\ Sound(Execute(e, u)) /\ Execute(e, u).input \in {e.input, <<>>}
          /\ Execute(e, u).last_mss = e.last_mss
      BY <2>2, <2>4, ExecuteKeeps DEF Fine
    <2>6. Fine(Execute(e, u))
      BY <2>4, <2>5 DEF Fine
    <2> QED
      BY <2>3, <2>6
  <1>5. Nat \subseteq S
    <2> HIDE DEF S
    <2> QED
      BY <1>3, <1>4, NumbersByInduction
  <1>6. Fine(after[n])
    <2> HIDE DEF Fine
    <2> QED
      BY <1>0, <1>5
  <1> QED
    BY <1>2, <1>6

-----------------------------------------------------------------------------
(* Operations on the bus.                                                  *)

\* The inductive invariant of the bus, of any bus an operation is given or leaves.
BusSound(b) ==
  /\ b \in [dev : [Pads -> Devices], srq_line : BOOLEAN, srq : BOOLEAN]
  /\ \A p \in Pads : Sound(b.dev[p]) /\ Len(b.dev[p].input) <= MaxInput
  /\ b.srq_line = AnyMss(b.dev)

\* A device asks for service whatever was last broadcast and whatever is half received.
LEMMA MssIgnores ==
  ASSUME NEW d \in Devices, NEW x, NEW q
  PROVE  Mss([d EXCEPT !.last_mss = x]) = Mss(d) /\ Mss([d EXCEPT !.input = q]) = Mss(d)
  <1>1. Stb([d EXCEPT !.last_mss = x]) = Stb(d)
    BY DEF Devices, Stb
  <1>2. Stb([d EXCEPT !.input = q]) = Stb(d)
    BY DEF Devices, Stb
  <1> QED
    BY <1>1, <1>2 DEF Mss

\* What is half received is no more than input.
LEMMA InputKeeps ==
  ASSUME NEW d, Sound(d), NEW q \in Seq(Units)
  PROVE  /\ Sound([d EXCEPT !.input = q]) /\ [d EXCEPT !.input = q].input = q
         /\ [d EXCEPT !.input = q].output = d.output /\ [d EXCEPT !.input = q].last_mss = d.last_mss
  BY DEF Sound, Devices

\* Devices with the same MSS hold the line alike.
LEMMA SameMssSameLine ==
  ASSUME NEW f, NEW g, \A p \in Pads : Mss(f[p]) = Mss(g[p])
  PROVE  AnyMss(f) = AnyMss(g)
  BY DEF AnyMss

\* update_srq: what it is given, it keeps sound.
LEMMA UpdateSrqKeeps ==
  ASSUME NEW b, BusSound(b), NEW p \in Pads, NEW d, Sound(d), Len(d.input) <= MaxInput
  PROVE  /\ BusSound(UpdateSrq(b, p, d))
         /\ UpdateSrq(b, p, d).dev = [b.dev EXCEPT ![p] = [d EXCEPT !.last_mss = Mss(d)]]
         /\ UpdateSrq(b, p, d).srq = (b.srq \/ (Mss(d) /\ ~d.last_mss))
         /\ UpdateSrq(b, p, d).srq_line = AnyMss(UpdateSrq(b, p, d).dev)
  <1> DEFINE e == [d EXCEPT !.last_mss = Mss(d)]
             dev == [b.dev EXCEPT ![p] = e]
             line == AnyMss(dev)
             srq == b.srq \/ (Mss(d) /\ ~d.last_mss)
  <1>1. Mss(d) \in BOOLEAN /\ line \in BOOLEAN /\ srq \in BOOLEAN
    BY DEF Mss, AnyMss
  <1>2. UpdateSrq(b, p, d) = [dev |-> dev, srq_line |-> line, srq |-> srq]
    BY DEF UpdateSrq
  <1>3. Sound(e) /\ e.input = d.input
    BY <1>1 DEF Sound, Devices
  <1> HIDE DEF e
  <1>4. /\ dev \in [Pads -> Devices]
        /\ \A q \in Pads : Sound(dev[q]) /\ Len(dev[q].input) <= MaxInput
    BY <1>3 DEF BusSound, Sound
  <1> HIDE DEF dev, line, srq
  <1>5. /\ UpdateSrq(b, p, d).dev = dev /\ UpdateSrq(b, p, d).srq = srq
        /\ UpdateSrq(b, p, d).srq_line = line
        /\ UpdateSrq(b, p, d) \in [dev : [Pads -> Devices], srq_line : BOOLEAN, srq : BOOLEAN]
    BY <1>1, <1>2, <1>4
  <1>6. line = AnyMss(dev)
    BY DEF line
  <1>7. BusSound(UpdateSrq(b, p, d))
    <2> DEFINE n == UpdateSrq(b, p, d)
    <2>1. n.dev = dev /\ n \in [dev : [Pads -> Devices], srq_line : BOOLEAN, srq : BOOLEAN]
      BY <1>5
    <2>2. n.srq_line = AnyMss(n.dev)
      BY <1>5, <1>6, Zenon
    <2> HIDE DEF n
    <2>3. BusSound(n)
      BY <2>1, <2>2, <1>4, Zenon DEF BusSound
    <2> QED
      BY <2>3 DEF n
  <1>8. UpdateSrq(b, p, d).srq_line = AnyMss(UpdateSrq(b, p, d).dev)
    BY <1>5, <1>6, Zenon
  <1> QED
    BY <1>5, <1>7, <1>8, Zenon DEF dev, e, srq

\* write.
LEMMA BusWriteKeeps ==
  ASSUME NEW b, BusSound(b), NEW p \in Pads, NEW message \in Messages, NEW complete \in BOOLEAN,
         complete \/ Len(b.dev[p].input) + Len(message) <= MaxInput
  PROVE  BusSound(BusWrite(b, p, message, complete))
  <1> DEFINE d == b.dev[p]
             whole == d.input \o message
             e == [d EXCEPT !.input = <<>>]
  <1>1. Sound(d) /\ d \in Devices /\ d.input \in Seq(Units) /\ message \in Seq(Units) /\ MaxInput \in Nat
    BY BusAssumption DEF BusSound, Sound, Devices
  <1>2. whole \in Seq(Units) /\ Len(whole) = Len(d.input) + Len(message)
    BY <1>1
  <1>3. CASE complete
    <2> DEFINE done == Executed(e, whole)
    <2>1. Sound(e) /\ e.input = <<>>
      <3>1. <<>> \in Seq(Units)
        OBVIOUS
      <3> QED
        BY <1>1, <3>1, InputKeeps
    <2>2. BusWrite(b, p, message, complete) = UpdateSrq(b, p, done)
      BY <1>3 DEF BusWrite
    <2> HIDE DEF e, whole, d
    <2>3. Sound(done) /\ done.input = <<>>
      BY <1>2, <2>1, ExecutedKeeps
    <2>4. Len(done.input) <= MaxInput
      BY <1>1, <2>3
    <2> HIDE DEF done
    <2>5. BusSound(UpdateSrq(b, p, done))
      BY <2>3, <2>4, UpdateSrqKeeps
    <2> QED
      BY <2>2, <2>5
  <1>4. CASE ~complete
    <2> DEFINE g == [d EXCEPT !.input = whole]
               dev == [b.dev EXCEPT ![p] = g]
               n == [b EXCEPT !.dev = dev]
    <2>1. BusWrite(b, p, message, complete) = n
      BY <1>4 DEF BusWrite, BusSound
    <2>2. Sound(g) /\ Len(g.input) <= MaxInput
      BY <1>1, <1>2, <1>4, InputKeeps
    <2>3. Mss(g) = Mss(d)
      BY <1>1, MssIgnores
    <2> HIDE DEF g
    <2>4. /\ dev \in [Pads -> Devices]
          /\ \A q \in Pads : Sound(dev[q]) /\ Len(dev[q].input) <= MaxInput
      BY <2>2 DEF BusSound, Sound
    <2>5. \A q \in Pads : Mss(dev[q]) = Mss(b.dev[q])
      BY <2>3 DEF BusSound
    <2> HIDE DEF dev
    <2>6. AnyMss(dev) = AnyMss(b.dev)
      BY <2>5, SameMssSameLine
    <2>7. /\ n \in [dev : [Pads -> Devices], srq_line : BOOLEAN, srq : BOOLEAN]
          /\ n.dev = dev /\ n.srq_line = b.srq_line
      BY <2>4 DEF BusSound
    <2>8. n.srq_line = AnyMss(n.dev)
      BY <2>6, <2>7, Zenon DEF BusSound
    <2> HIDE DEF n
    <2>9. BusSound(n)
      BY <2>4, <2>7, <2>8, Zenon DEF BusSound
    <2> QED
      BY <2>1, <2>9
  <1> QED
    BY <1>3, <1>4

\* A read takes no more than there is, and all of it if it may.
LEMMA TakenWithin ==
  ASSUME NEW output \in Seq({"byte", "newline"}), NEW max \in Nat, NEW eos \in BOOLEAN
  PROVE  /\ Taken(output, max, eos) \in 0..Len(output)
         /\ ~eos /\ Len(output) <= max => Taken(output, max, eos) = Len(output)
  <1> DEFINE upTo == IF Len(output) < max THEN Len(output) ELSE max
             lines == {i \in 1..upTo : output[i] = "newline"}
  <1>1. upTo \in 0..Len(output)
    OBVIOUS
  <1>2. ASSUME lines # {} PROVE (CHOOSE i \in lines : \A j \in lines : i <= j) \in lines
    <2>1. lines \subseteq Nat
      OBVIOUS
    <2> HIDE DEF lines
    <2>2. \E i \in lines : \A j \in lines : i <= j
      BY <1>2, <2>1, LeastNumber
    <2> QED
      BY <2>2
  <1>3. lines \subseteq 0..Len(output)
    BY <1>1
  <1>4. Taken(output, max, eos) =
          IF eos /\ lines # {} THEN CHOOSE i \in lines : \A j \in lines : i <= j ELSE upTo
    BY DEF Taken
  <1>5. ~eos /\ Len(output) <= max => Taken(output, max, eos) = Len(output)
    BY <1>4
  <1> HIDE DEF lines, upTo
  <1> QED
    BY <1>1, <1>2, <1>3, <1>4, <1>5

\* read, of a device that has something to say.
LEMMA BusReadIs ==
  ASSUME NEW b, BusSound(b), NEW p \in Pads, NEW max \in Nat, NEW eos \in BOOLEAN,
         b.dev[p].output # <<>>
  PROVE  \E e : /\ BusRead(b, p, max, eos) = UpdateSrq(b, p, e)
                /\ Sound(e) /\ Len(e.input) <= MaxInput /\ e.last_mss = b.dev[p].last_mss
                /\ ~eos /\ Len(b.dev[p].output) <= max => e.output = <<>>
  <1> DEFINE d == b.dev[p]
             output == d.output
             rest == SubSeq(output, Taken(output, max, eos) + 1, Len(output))
  <1>1. output \in Seq({"byte", "newline"}) /\ Sound(d)
    BY DEF BusSound, Sound, Devices
  <1>2. BusRead(b, p, max, eos) = UpdateSrq(b, p, [d EXCEPT !.output = rest])
    BY DEF BusRead
  <1> HIDE DEF d, output
  <1>3. /\ Taken(output, max, eos) \in 0..Len(output)
        /\ ~eos /\ Len(output) <= max => Taken(output, max, eos) = Len(output)
    BY <1>1, TakenWithin
  <1>4. rest \in Seq({"byte", "newline"}) /\ Len(rest) = Len(output) - Taken(output, max, eos)
    BY <1>1, <1>3
  <1>5. ~eos /\ Len(output) <= max => Len(rest) = 0
    BY <1>1, <1>3, <1>4
  <1>6. ~eos /\ Len(output) <= max => rest = <<>>
    BY <1>4, <1>5
  <1> HIDE DEF rest
  <1> DEFINE e == [d EXCEPT !.output = rest]
  <1>7. Sound(e) /\ e.output = rest /\ e.input = d.input /\ e.last_mss = d.last_mss
    BY <1>1, <1>4 DEF Sound, Devices
  <1> HIDE DEF e
  <1>8. Len(e.input) <= MaxInput
    BY <1>7 DEF BusSound, d
  <1>9. BusRead(b, p, max, eos) = UpdateSrq(b, p, e)
    BY <1>2 DEF e
  <1>10. ~eos /\ Len(output) <= max => e.output = <<>>
    BY <1>6, <1>7, Zenon
  <1> QED
    BY <1>7, <1>8, <1>9, <1>10, Zenon DEF d, output

\* read.
LEMMA BusReadKeeps ==
  ASSUME NEW b, BusSound(b), NEW p \in Pads, NEW max \in Nat, NEW eos \in BOOLEAN
  PROVE  BusSound(BusRead(b, p, max, eos))
  <1>1. CASE b.dev[p].output = <<>>
    BY <1>1 DEF BusRead
  <1>2. CASE b.dev[p].output # <<>>
    <2>1. PICK e : /\ BusRead(b, p, max, eos) = UpdateSrq(b, p, e)
                   /\ Sound(e) /\ Len(e.input) <= MaxInput
      BY <1>2, BusReadIs, Zenon
    <2>2. BusSound(UpdateSrq(b, p, e))
      BY <2>1, UpdateSrqKeeps
    <2> QED
      BY <2>1, <2>2
  <1> QED
    BY <1>1, <1>2

\* device clear.
LEMMA BusClearKeeps ==
  ASSUME NEW b, BusSound(b), NEW p \in Pads
  PROVE  /\ BusSound(BusClear(b, p))
         /\ BusClear(b, p) = UpdateSrq(b, p, ClearIo(b.dev[p]))
         /\ Sound(ClearIo(b.dev[p])) /\ Len(ClearIo(b.dev[p]).input) <= MaxInput
         /\ ClearIo(b.dev[p]).last_mss = b.dev[p].last_mss
  <1> DEFINE d == b.dev[p]
             e == ClearIo(d)
  <1>1. Sound(d) /\ MaxInput \in Nat
    BY BusAssumption DEF BusSound
  <1>2. <<>> \in Seq({"byte", "newline"}) /\ <<>> \in Seq(Units) /\ Len(<<>>) = 0
    OBVIOUS
  <1>3. BusClear(b, p) = UpdateSrq(b, p, e)
    BY DEF BusClear
  <1> HIDE DEF d
  <1>4. e.errors = d.errors /\ e.input = <<>> /\ e.last_mss = d.last_mss
    BY <1>1 DEF ClearIo, Sound, Devices
  <1>5. e \in Devices
    BY <1>1, <1>2 DEF ClearIo, Sound, Devices
  <1> HIDE DEF e
  <1>6. Sound(e)
    BY <1>1, <1>4, <1>5 DEF Sound
  <1>7. Len(e.input) <= MaxInput
    BY <1>1, <1>2, <1>4
  <1>8. BusSound(UpdateSrq(b, p, e))
    BY <1>6, <1>7, UpdateSrqKeeps
  <1> QED
    BY <1>3, <1>4, <1>6, <1>7, <1>8, Zenon DEF e, d

\* trigger.
LEMMA BusTriggerKeeps ==
  ASSUME NEW b, BusSound(b), NEW p \in Pads
  PROVE  /\ BusSound(BusTrigger(b, p))
         /\ BusTrigger(b, p) = UpdateSrq(b, p, Error(b.dev[p], "EXE"))
         /\ Sound(Error(b.dev[p], "EXE")) /\ Len(Error(b.dev[p], "EXE").input) <= MaxInput
         /\ Error(b.dev[p], "EXE").last_mss = b.dev[p].last_mss
  <1> DEFINE d == b.dev[p]
             e == Error(d, "EXE")
  <1>1. Sound(d) /\ Len(d.input) <= MaxInput /\ "EXE" \in EventBits
    BY DEF BusSound, EventBits
  <1>2. Sound(e) /\ e.input = d.input /\ e.last_mss = d.last_mss
    BY <1>1, ErrorKeeps
  <1>3. BusTrigger(b, p) = UpdateSrq(b, p, e)
    BY DEF BusTrigger
  <1> HIDE DEF e, d
  <1>4. Len(e.input) <= MaxInput
    BY <1>1, <1>2
  <1>5. BusSound(UpdateSrq(b, p, e))
    BY <1>2, <1>4, UpdateSrqKeeps
  <1> QED
    BY <1>2, <1>3, <1>4, <1>5, Zenon DEF e, d

\* The control channel's set_stb.
LEMMA BusSetStbKeeps ==
  ASSUME NEW b, BusSound(b), NEW p \in Pads, NEW bits \in UserBits
  PROVE  /\ BusSound(BusSetStb(b, p, bits))
         /\ BusSetStb(b, p, bits) = UpdateSrq(b, p, [b.dev[p] EXCEPT !.user_stb = bits])
         /\ Sound([b.dev[p] EXCEPT !.user_stb = bits])
         /\ Len([b.dev[p] EXCEPT !.user_stb = bits].input) <= MaxInput
         /\ [b.dev[p] EXCEPT !.user_stb = bits].last_mss = b.dev[p].last_mss
  <1> DEFINE d == b.dev[p]
             e == [d EXCEPT !.user_stb = bits]
  <1>1. Sound(d) /\ Len(d.input) <= MaxInput /\ bits \in SUBSET StatusBits
    BY BusAssumption DEF BusSound
  <1>2. Sound(e) /\ e.input = d.input /\ e.last_mss = d.last_mss
    BY <1>1 DEF Sound, Devices
  <1>3. BusSetStb(b, p, bits) = UpdateSrq(b, p, e)
    BY DEF BusSetStb
  <1> HIDE DEF e, d
  <1>4. Len(e.input) <= MaxInput
    BY <1>1, <1>2
  <1>5. BusSound(UpdateSrq(b, p, e))
    BY <1>2, <1>4, UpdateSrqKeeps
  <1> QED
    BY <1>2, <1>3, <1>4, <1>5, Zenon DEF e, d

\* serial_poll: the device keeps its output, the bus its line and what it broadcast.
LEMMA BusPollKeeps ==
  ASSUME NEW b, BusSound(b), NEW p \in Pads
  PROVE  /\ BusSound(BusPoll(b, p)) /\ BusPoll(b, p).srq = b.srq
         /\ BusPoll(b, p).srq_line = b.srq_line
         /\ BusPoll(b, p).dev[p].output = b.dev[p].output
         /\ BusPoll(b, p).dev = [b.dev EXCEPT ![p] = [b.dev[p] EXCEPT !.last_mss = Mss(b.dev[p])]]
         /\ \A q \in Pads : Mss(BusPoll(b, p).dev[q]) = Mss(b.dev[q])
  <1> DEFINE d == b.dev[p]
             e == [d EXCEPT !.last_mss = Mss(d)]
             dev == [b.dev EXCEPT ![p] = e]
             line == AnyMss(dev)
             n == [b EXCEPT !.dev = dev, !.srq_line = line]
  <1>1. Sound(d) /\ d \in Devices /\ Len(d.input) <= MaxInput
    BY DEF BusSound, Sound
  <1>2. Mss(d) \in BOOLEAN /\ line \in BOOLEAN
    BY DEF Mss, AnyMss
  <1>3. BusPoll(b, p) = n
    BY DEF BusPoll, BusSound
  <1>4. Sound(e) /\ e.input = d.input /\ e.output = d.output
    BY <1>1, <1>2 DEF Sound, Devices
  <1>5. Mss(e) = Mss(d)
    BY <1>1, MssIgnores
  <1> HIDE DEF e
  <1>6. /\ dev \in [Pads -> Devices] /\ dev[p] = e
        /\ \A q \in Pads : Sound(dev[q]) /\ Len(dev[q].input) <= MaxInput
    BY <1>1, <1>4 DEF BusSound, Sound
  <1>7. \A q \in Pads : Mss(dev[q]) = Mss(b.dev[q])
    BY <1>5 DEF BusSound
  <1>8. dev = [b.dev EXCEPT ![p] = [b.dev[p] EXCEPT !.last_mss = Mss(b.dev[p])]]
    BY DEF e
  <1> HIDE DEF dev
  <1>9. line = AnyMss(b.dev)
    BY <1>7, SameMssSameLine
  <1> HIDE DEF line
  <1>10. /\ n \in [dev : [Pads -> Devices], srq_line : BOOLEAN, srq : BOOLEAN]
         /\ n.dev = dev /\ n.srq_line = line /\ n.srq = b.srq
    BY <1>2, <1>6 DEF BusSound
  <1> HIDE DEF n
  <1>11. n.srq_line = AnyMss(n.dev)
    BY <1>10, Zenon DEF line
  <1>12. BusSound(n)
    BY <1>6, <1>10, <1>11, Zenon DEF BusSound
  <1>13. n.srq_line = b.srq_line
    BY <1>9, <1>10, Zenon DEF BusSound
  <1>14. n.dev[p].output = b.dev[p].output
    BY <1>4, <1>6, <1>10, Zenon
  <1> QED
    BY <1>3, <1>7, <1>8, <1>10, <1>12, <1>13, <1>14, Zenon

\* A device that was reset asks for nothing, whatever its enable registers.
LEMMA ResetIsQuiet ==
  ASSUME NEW d \in Devices
  PROVE  ~Mss(Reset(d))
  <1>1. Reset(d).output = <<>> /\ Reset(d).esr = {} /\ Reset(d).user_stb = {}
    BY DEF Reset, Devices
  <1>2. Stb(Reset(d)) = {}
    BY <1>1 DEF Stb
  <1> QED
    BY <1>2 DEF Mss

\* reset_devices.
LEMMA BusResetKeeps ==
  ASSUME NEW b, BusSound(b)
  PROVE  BusSound(BusReset(b))
  <1> DEFINE dev == [p \in Pads |-> Reset(b.dev[p])]
             n == [b EXCEPT !.dev = dev, !.srq_line = FALSE]
  <1>1. BusReset(b) = n
    BY DEF BusReset
  <1>2. ASSUME NEW p \in Pads
        PROVE  Sound(dev[p]) /\ Len(dev[p].input) <= MaxInput /\ ~Mss(dev[p])
    <2>1. Sound(b.dev[p]) /\ b.dev[p] \in Devices
      BY DEF BusSound, Sound
    <2>2. Sound(dev[p]) /\ dev[p].input = <<>> /\ ~Mss(dev[p])
      BY <2>1, ResetKeeps, ResetIsQuiet
    <2>3. Len(dev[p].input) <= MaxInput
      BY <2>2, BusAssumption
    <2> QED
      BY <2>2, <2>3
  <1>3. dev \in [Pads -> Devices]
    BY <1>2 DEF Sound
  <1>4. AnyMss(dev) = FALSE
    BY <1>2, Zenon DEF AnyMss
  <1> HIDE DEF dev
  <1>5. /\ n \in [dev : [Pads -> Devices], srq_line : BOOLEAN, srq : BOOLEAN]
        /\ n.dev = dev /\ n.srq_line = FALSE
    BY <1>3 DEF BusSound
  <1> HIDE DEF n
  <1>6. n.srq_line = AnyMss(n.dev)
    BY <1>4, <1>5, Zenon
  <1>7. BusSound(n)
    BY <1>2, <1>5, <1>6, Zenon DEF BusSound
  <1> QED
    BY <1>1, <1>7

\* Before a step broadcasts anything.
LEMMA QuietKeeps ==
  ASSUME BusSound(bus)
  PROVE  BusSound(Quiet) /\ Quiet.dev = bus.dev /\ Quiet.srq = FALSE
  <1>1. /\ Quiet \in [dev : [Pads -> Devices], srq_line : BOOLEAN, srq : BOOLEAN]
        /\ Quiet.dev = bus.dev /\ Quiet.srq_line = bus.srq_line /\ Quiet.srq = FALSE
    BY DEF Quiet, BusSound
  <1>2. Quiet.srq_line = AnyMss(Quiet.dev)
    BY <1>1, Zenon DEF BusSound
  <1> HIDE DEF Quiet
  <1> QED
    BY <1>1, <1>2, Zenon DEF BusSound

-----------------------------------------------------------------------------
(* The bus by itself.                                                      *)

\* At power-on.
LEMMA BusInitSound ==
  ASSUME BusInit
  PROVE  BusSound(bus) /\ \A p \in Pads : bus.dev[p] = PowerOn /\ ~Mss(PowerOn)
  <1>1. PowerOn \in Devices
    <2>1. <<>> \in Seq(Errors) /\ <<>> \in Seq({"byte", "newline"}) /\ <<>> \in Seq(Units)
      OBVIOUS
    <2> QED
      BY <2>1 DEF PowerOn, Devices
  <1>2. PowerOn.errors = <<>> /\ PowerOn.input = <<>> /\ PowerOn.output = <<>>
        /\ PowerOn.esr = {} /\ PowerOn.user_stb = {}
    BY DEF PowerOn
  <1>3. Sound(PowerOn) /\ Len(PowerOn.input) <= MaxInput
    BY <1>1, <1>2, BusAssumption DEF Sound
  <1>4. ~Mss(PowerOn)
    BY <1>2 DEF Mss, Stb
  <1> HIDE DEF PowerOn
  <1>5. /\ bus.dev = [p \in Pads |-> PowerOn] /\ bus.srq_line = FALSE
        /\ bus \in [dev : [Pads -> Devices], srq_line : BOOLEAN, srq : BOOLEAN]
    BY <1>1 DEF BusInit
  <1>6. \A p \in Pads : bus.dev[p] = PowerOn
    BY <1>5
  <1>7. bus.srq_line = AnyMss(bus.dev)
    BY <1>4, <1>5, <1>6, Zenon DEF AnyMss
  <1> QED
    BY <1>3, <1>4, <1>5, <1>6, <1>7, Zenon DEF BusSound

\* Every operation on one device keeps the bus sound.
LEMMA BusNextKeeps ==
  ASSUME BusSound(bus), BusNext
  PROVE  BusSound(bus')
  <1>1. PICK p \in Pads :
          \/ \E m \in Messages, complete \in BOOLEAN : Write(p, m, complete)
          \/ \E max \in ReadSizes, eos \in BOOLEAN : Read(p, max, eos)
          \/ DeviceClear(p) \/ Trigger(p) \/ SerialPoll(p)
          \/ \E bits \in UserBits : SetStb(p, bits)
    BY DEF BusNext
  <1>2. BusSound(Quiet) /\ Quiet.dev = bus.dev
    BY QuietKeeps
  <1>3. ASSUME NEW m \in Messages, NEW complete \in BOOLEAN, Write(p, m, complete)
        PROVE  BusSound(bus')
    <2>1. /\ bus' = BusWrite(Quiet, p, m, complete)
          /\ complete \/ Len(Quiet.dev[p].input) + Len(m) <= MaxInput
      BY <1>2, <1>3 DEF Write
    <2> HIDE DEF Quiet
    <2> QED
      BY <1>2, <2>1, BusWriteKeeps
  <1>4. ASSUME NEW max \in ReadSizes, NEW eos \in BOOLEAN, Read(p, max, eos) PROVE BusSound(bus')
    BY <1>2, <1>4, BusReadKeeps, BusAssumption DEF Read
  <1>5. ASSUME DeviceClear(p) PROVE BusSound(bus')
    BY <1>2, <1>5, BusClearKeeps DEF DeviceClear
  <1>6. ASSUME Trigger(p) PROVE BusSound(bus')
    BY <1>2, <1>6, BusTriggerKeeps DEF Trigger
  <1>7. ASSUME SerialPoll(p) PROVE BusSound(bus')
    BY <1>2, <1>7, BusPollKeeps DEF SerialPoll
  <1>8. ASSUME NEW bits \in UserBits, SetStb(p, bits) PROVE BusSound(bus')
    BY <1>2, <1>8, BusSetStbKeeps DEF SetStb
  <1> QED
    BY <1>1, <1>3, <1>4, <1>5, <1>6, <1>7, <1>8

\* What the invariant says of the state.
LEMMA SoundBusIs ==
  ASSUME BusSound(bus)
  PROVE  LineFollowsDevices
  BY DEF BusSound, Sound, BusTypeOK, LineFollowsDevices

\* last_mss is what MSS was when SRQ was last looked at: the two are in step.
InStep(b) == \A p \in Pads : b.dev[p].last_mss = Mss(b.dev[p])

\* update_srq from a bus in step: it stays so, and a broadcast is a rise of MSS.
LEMMA UpdateSrqInStep ==
  ASSUME NEW b, BusSound(b), InStep(b), b.srq = FALSE, NEW p \in Pads,
         NEW d, Sound(d), Len(d.input) <= MaxInput, d.last_mss = b.dev[p].last_mss
  PROVE  /\ InStep(UpdateSrq(b, p, d))
         /\ UpdateSrq(b, p, d).srq <=>
              \E q \in Pads : ~Mss(b.dev[q]) /\ Mss(UpdateSrq(b, p, d).dev[q])
  <1> DEFINE e == [d EXCEPT !.last_mss = Mss(d)]
             n == UpdateSrq(b, p, d)
  <1>1. n.dev = [b.dev EXCEPT ![p] = e] /\ n.srq = (b.srq \/ (Mss(d) /\ ~d.last_mss))
    BY UpdateSrqKeeps
  <1>2. e.last_mss = Mss(d) /\ Mss(e) = Mss(d)
    BY MssIgnores DEF Sound, Devices
  <1> HIDE DEF e, n
  <1>3. n.dev[p] = e /\ \A q \in Pads : q # p => n.dev[q] = b.dev[q]
    BY <1>1 DEF BusSound
  <1>4. InStep(n)
    <2> SUFFICES ASSUME NEW q \in Pads PROVE n.dev[q].last_mss = Mss(n.dev[q])
      BY DEF InStep
    <2>1. CASE q = p
      BY <2>1, <1>2, <1>3, Zenon
    <2>2. CASE q # p
      BY <2>2, <1>3, Zenon DEF InStep
    <2> QED
      BY <2>1, <2>2
  <1>5. n.srq <=> Mss(d) /\ ~Mss(b.dev[p])
    BY <1>1, Zenon DEF InStep
  <1>6. ASSUME NEW q \in Pads, ~Mss(b.dev[q]), Mss(n.dev[q]) PROVE n.srq
    <2>1. q = p
      BY <1>3, <1>6, Zenon
    <2> QED
      BY <1>2, <1>3, <1>5, <1>6, <2>1, Zenon
  <1>7. ASSUME n.srq PROVE ~Mss(b.dev[p]) /\ Mss(n.dev[p])
    BY <1>2, <1>3, <1>5, <1>7, Zenon
  <1> QED
    BY <1>4, <1>6, <1>7, Zenon DEF n

\* One operation on a bus in step leaves it in step, and broadcasts the rise it makes.
LEMMA BusNextInStep ==
  ASSUME BusSound(bus), InStep(bus), BusNext
  PROVE  InStep(bus') /\ BroadcastsAreRises
  <1>1. PICK p \in Pads :
          \/ \E m \in Messages, complete \in BOOLEAN : Write(p, m, complete)
          \/ \E max \in ReadSizes, eos \in BOOLEAN : Read(p, max, eos)
          \/ DeviceClear(p) \/ Trigger(p) \/ SerialPoll(p)
          \/ \E bits \in UserBits : SetStb(p, bits)
    BY DEF BusNext
  <1> DEFINE b == Quiet
  <1>2. BusSound(b) /\ b.dev = bus.dev /\ b.srq = FALSE
    BY QuietKeeps
  <1>3. InStep(b)
    BY <1>2, Zenon DEF InStep
  <1> HIDE DEF b
  <1>4. ASSUME NEW d, bus' = UpdateSrq(b, p, d), Sound(d), Len(d.input) <= MaxInput,
               d.last_mss = b.dev[p].last_mss
        PROVE  InStep(bus') /\ BroadcastsAreRises
    <2>1. /\ InStep(UpdateSrq(b, p, d))
          /\ UpdateSrq(b, p, d).srq <=>
               \E q \in Pads : ~Mss(b.dev[q]) /\ Mss(UpdateSrq(b, p, d).dev[q])
      BY <1>2, <1>3, <1>4, UpdateSrqInStep
    <2> QED
      BY <1>2, <1>4, <2>1, Zenon DEF BroadcastsAreRises
  <1>5. ASSUME bus'.srq = FALSE, \A q \in Pads : Mss(bus'.dev[q]) = Mss(bus.dev[q])
        PROVE  BroadcastsAreRises
    BY <1>5, Zenon DEF BroadcastsAreRises
  <1>6. ASSUME NEW m \in Messages, NEW complete \in BOOLEAN, Write(p, m, complete)
        PROVE  InStep(bus') /\ BroadcastsAreRises
    <2> DEFINE d == b.dev[p]
               whole == d.input \o m
               e == [d EXCEPT !.input = <<>>]
               done == Executed(e, whole)
    <2>1. Sound(d) /\ d \in Devices /\ d.input \in Seq(Units) /\ m \in Seq(Units) /\ MaxInput \in Nat
      BY <1>2, BusAssumption DEF BusSound, Sound, Devices
    <2>2. whole \in Seq(Units)
      BY <2>1
    <2>3. CASE complete
      <3>1. Sound(e) /\ e.input = <<>> /\ e.last_mss = d.last_mss
        <4>1. <<>> \in Seq(Units)
          OBVIOUS
        <4> QED
          BY <2>1, <4>1, InputKeeps
      <3>2. bus' = UpdateSrq(b, p, done)
        BY <1>6, <2>3 DEF Write, BusWrite, b
      <3> HIDE DEF d, whole, e
      <3>3. Sound(done) /\ done.input = <<>> /\ done.last_mss = e.last_mss
        BY <2>2, <3>1, ExecutedKeeps
      <3> HIDE DEF done
      <3>4. Len(done.input) <= MaxInput
        BY <2>1, <3>3
      <3>5. done.last_mss = b.dev[p].last_mss
        BY <3>1, <3>3, Zenon DEF d
      <3> QED
        BY <1>4, <3>2, <3>3, <3>4, <3>5
    <2>4. CASE ~complete
      <3> DEFINE g == [d EXCEPT !.input = whole]
      <3>1. bus' = [b EXCEPT !.dev = [b.dev EXCEPT ![p] = g]]
        BY <1>2, <1>6, <2>4 DEF Write, BusWrite, b, BusSound
      <3>2. Mss(g) = Mss(d) /\ g.last_mss = d.last_mss
        BY <2>1, <2>2, MssIgnores, InputKeeps
      <3> HIDE DEF g
      <3>3. bus'.srq = FALSE /\ bus'.dev[p] = g /\ \A q \in Pads : q # p => bus'.dev[q] = b.dev[q]
        BY <1>2, <3>1 DEF BusSound
      <3>4. ASSUME NEW q \in Pads
            PROVE  Mss(bus'.dev[q]) = Mss(bus.dev[q]) /\ bus'.dev[q].last_mss = Mss(bus'.dev[q])
        <4>1. CASE q = p
          BY <1>2, <1>3, <3>2, <3>3, <4>1, Zenon DEF InStep
        <4>2. CASE q # p
          BY <1>2, <1>3, <3>3, <4>2, Zenon DEF InStep
        <4> QED
          BY <4>1, <4>2
      <3> QED
        BY <1>5, <3>3, <3>4, Zenon DEF InStep
    <2> QED
      BY <2>3, <2>4
  <1>7. ASSUME NEW max \in ReadSizes, NEW eos \in BOOLEAN, Read(p, max, eos)
        PROVE  InStep(bus') /\ BroadcastsAreRises
    <2>1. bus' = BusRead(b, p, max, eos) /\ max \in Nat
      BY <1>7, BusAssumption DEF Read, b
    <2>2. CASE b.dev[p].output = <<>>
      <3>1. bus' = b
        BY <2>1, <2>2 DEF BusRead
      <3> QED
        BY <1>2, <1>3, <1>5, <3>1, Zenon
    <2>3. CASE b.dev[p].output # <<>>
      <3>1. PICK e : /\ BusRead(b, p, max, eos) = UpdateSrq(b, p, e)
                     /\ Sound(e) /\ Len(e.input) <= MaxInput /\ e.last_mss = b.dev[p].last_mss
        BY <1>2, <2>1, <2>3, BusReadIs, Zenon
      <3> QED
        BY <1>4, <2>1, <3>1
    <2> QED
      BY <2>2, <2>3
  <1>8. ASSUME DeviceClear(p) PROVE InStep(bus') /\ BroadcastsAreRises
    <2>1. bus' = BusClear(b, p)
      BY <1>8 DEF DeviceClear, b
    <2> QED
      BY <1>2, <1>4, <2>1, BusClearKeeps
  <1>9. ASSUME Trigger(p) PROVE InStep(bus') /\ BroadcastsAreRises
    <2>1. bus' = BusTrigger(b, p)
      BY <1>9 DEF Trigger, b
    <2> QED
      BY <1>2, <1>4, <2>1, BusTriggerKeeps
  <1>10. ASSUME NEW bits \in UserBits, SetStb(p, bits) PROVE InStep(bus') /\ BroadcastsAreRises
    <2>1. bus' = BusSetStb(b, p, bits)
      BY <1>10 DEF SetStb, b
    <2> QED
      BY <1>2, <1>4, <2>1, BusSetStbKeeps
  <1>11. ASSUME SerialPoll(p) PROVE InStep(bus') /\ BroadcastsAreRises
    <2> DEFINE e == [b.dev[p] EXCEPT !.last_mss = Mss(b.dev[p])]
    <2>1. bus' = BusPoll(b, p)
      BY <1>11 DEF SerialPoll, b
    <2>2. /\ bus'.srq = FALSE /\ bus'.dev = [b.dev EXCEPT ![p] = e]
          /\ \A q \in Pads : Mss(bus'.dev[q]) = Mss(b.dev[q])
      BY <1>2, <2>1, BusPollKeeps
    <2>3. e.last_mss = Mss(b.dev[p])
      BY <1>2 DEF BusSound, Devices
    <2> HIDE DEF e
    <2>4. bus'.dev[p] = e /\ \A q \in Pads : q # p => bus'.dev[q] = b.dev[q]
      BY <1>2, <2>2 DEF BusSound
    <2>5. ASSUME NEW q \in Pads PROVE bus'.dev[q].last_mss = Mss(bus'.dev[q])
      <3>1. CASE q = p
        BY <2>2, <2>3, <2>4, <3>1, Zenon
      <3>2. CASE q # p
        BY <1>3, <2>4, <3>2, Zenon DEF InStep
      <3> QED
        BY <3>1, <3>2
    <2> QED
      BY <1>2, <1>5, <2>2, <2>5, Zenon DEF InStep
  <1> QED
    BY <1>1, <1>6, <1>7, <1>8, <1>9, <1>10, <1>11

\* Power-on is in step.
LEMMA BusInitInStep ==
  ASSUME BusInit
  PROVE  InStep(bus)
  <1>1. \A p \in Pads : bus.dev[p] = PowerOn /\ ~Mss(PowerOn)
    BY BusInitSound
  <1>2. PowerOn.last_mss = FALSE
    BY DEF PowerOn
  <1>3. ASSUME NEW p \in Pads PROVE Mss(PowerOn) = FALSE
    BY <1>1 DEF Mss
  <1> QED
    BY <1>1, <1>2, <1>3, Zenon DEF InStep

\* virtual_instrument.rs, the header: "SRQ is asserted on the 0->1 edge of MSS".  For
\* any devices, messages and queue depths: an operation broadcasts exactly if it raises
\* MSS of a device, and the line is up exactly while some device asks for service.
THEOREM BusBroadcastsRises ==
  BusSpec => SrqFollowsRises /\ []LineFollowsDevices
  <1> DEFINE Inv == BusSound(bus) /\ InStep(bus)
  <1>1. BusInit => Inv
    BY BusInitSound, BusInitInStep
  <1>2. ASSUME Inv, [BusNext]_bus PROVE Inv'
    <2>1. CASE BusNext
      BY <1>2, <2>1, BusNextKeeps, BusNextInStep
    <2>2. CASE bus' = bus
      BY <1>2, <2>2, Zenon DEF BusSound, InStep
    <2> QED
      BY <1>2, <2>1, <2>2
  <1>3. Inv /\ [BusNext]_bus => [BroadcastsAreRises]_bus
    BY BusNextInStep
  <1>4. Inv => LineFollowsDevices
    BY SoundBusIs
  <1> QED
    BY <1>1, <1>2, <1>3, <1>4, PTL DEF BusSpec, SrqFollowsRises

-----------------------------------------------------------------------------
(* Executions.                                                             *)

\* A bus after the write of a command: sound, and a broadcast only of a request it still
\* makes.
LEMMA WriteLeaves ==
  ASSUME BusSound(bus), NEW p \in Pads, NEW m \in Messages
  PROVE  LET written == BusWrite(Quiet, p, m, TRUE)
         IN  /\ BusSound(written)
             /\ written.srq => Mss(written.dev[p])
  <1> DEFINE b == Quiet
             d == b.dev[p]
             whole == d.input \o m
             e == [d EXCEPT !.input = <<>>]
             done == Executed(e, whole)
             n == UpdateSrq(b, p, done)
  <1>1. BusSound(b) /\ b.dev = bus.dev /\ b.srq = FALSE
    BY QuietKeeps
  <1>2. BusWrite(Quiet, p, m, TRUE) = n
    BY DEF BusWrite
  <1> HIDE DEF b
  <1>3. /\ Sound(d) /\ d.input \in Seq(Units) /\ m \in Seq(Units) /\ MaxInput \in Nat
        /\ Len(d.input) <= MaxInput
    BY <1>1, BusAssumption DEF BusSound, Sound, Devices
  <1>4. whole \in Seq(Units) /\ Len(whole) = Len(d.input) + Len(m)
    BY <1>3
  <1>5. Sound(e) /\ e.input = <<>> /\ e.output = d.output
    <2>1. <<>> \in Seq(Units)
      OBVIOUS
    <2> QED
      BY <1>3, <2>1, InputKeeps
  <1> HIDE DEF d, whole, e
  <1>6. Sound(done) /\ done.input = <<>>
    BY <1>4, <1>5, ExecutedKeeps
  <1> HIDE DEF done
  <1>7. Len(done.input) <= MaxInput
    BY <1>3, <1>6
  <1>9. /\ BusSound(n) /\ n.dev = [b.dev EXCEPT ![p] = [done EXCEPT !.last_mss = Mss(done)]]
        /\ n.srq = (b.srq \/ (Mss(done) /\ ~done.last_mss))
    <2>1. BusSound(b) /\ Sound(done) /\ Len(done.input) <= MaxInput
      BY <1>1, <1>6, <1>7
    <2>2. BusSound(n)
      BY <2>1, UpdateSrqKeeps
    <2>3. n.dev = [b.dev EXCEPT ![p] = [done EXCEPT !.last_mss = Mss(done)]]
      BY <2>1, UpdateSrqKeeps
    <2>4. n.srq = (b.srq \/ (Mss(done) /\ ~done.last_mss))
      BY DEF UpdateSrq
    <2> QED
      BY <2>2, <2>3, <2>4
  <1> DEFINE after == [done EXCEPT !.last_mss = Mss(done)]
  <1>10. Mss(after) = Mss(done) /\ after.output = done.output
    BY <1>6, MssIgnores DEF Sound, Devices
  <1> HIDE DEF after, n
  <1>11. n.dev[p] = after
    BY <1>1, <1>9 DEF after, BusSound
  <1>13. n.srq => Mss(n.dev[p])
    BY <1>1, <1>9, <1>10, <1>11, Zenon
  <1> QED
    BY <1>2, <1>9, <1>13, Zenon

\* A read of less than MAX_READ leaves nothing, and a request it finds is still made.
LEMMA ReadLeaves ==
  ASSUME NEW b, BusSound(b), NEW p \in Pads
  PROVE  LET read == BusRead(b, p, MaxRead, FALSE)
         IN  /\ BusSound(read) /\ (Len(b.dev[p].output) < MaxRead => read.dev[p].output = <<>>)
             /\ read.srq => b.srq \/ read.srq_line
             /\ b.dev[p].output = <<>> => read = b
  <1> DEFINE read == BusRead(b, p, MaxRead, FALSE)
  <1>1. BusSound(read)
    BY BusReadKeeps, ExecuteAssumption
  <1>2. CASE b.dev[p].output = <<>>
    <2>1. read = b
      BY <1>2 DEF BusRead
    <2> HIDE DEF read
    <2> QED
      BY <1>1, <1>2, <2>1, Zenon DEF read
  <1>3. CASE b.dev[p].output # <<>>
    <2>1. PICK e : /\ read = UpdateSrq(b, p, e) /\ Sound(e) /\ Len(e.input) <= MaxInput
                   /\ Len(b.dev[p].output) <= MaxRead => e.output = <<>>
      <3>1. /\ FALSE \in BOOLEAN /\ ~FALSE /\ MaxRead \in Nat
        BY ExecuteAssumption
      <3> QED
        BY <1>3, <3>1, BusReadIs, Zenon
    <2> DEFINE after == [e EXCEPT !.last_mss = Mss(e)]
               n == UpdateSrq(b, p, e)
    <2>2. n.dev = [b.dev EXCEPT ![p] = after]
      BY DEF UpdateSrq
    <2>3. n.srq = (b.srq \/ (Mss(e) /\ ~e.last_mss)) /\ n.srq_line = AnyMss(n.dev)
      BY DEF UpdateSrq
    <2>4. Mss(after) = Mss(e) /\ after.output = e.output
      BY <2>1, MssIgnores DEF Sound, Devices
    <2> HIDE DEF after, n, read
    <2>5. n.dev[p] = after
      BY <2>2 DEF BusSound
    <2>6. Mss(e) => n.srq_line
      BY <2>3, <2>4, <2>5, Zenon DEF AnyMss
    <2>7. read = n
      BY <2>1 DEF n
    <2>8. Len(b.dev[p].output) < MaxRead => Len(b.dev[p].output) <= MaxRead
      <3>1. Len(b.dev[p].output) \in Nat /\ MaxRead \in Nat
        BY ExecuteAssumption DEF BusSound, Sound, Devices
      <3> QED
        BY <3>1
    <2>9. /\ Len(b.dev[p].output) < MaxRead => n.dev[p].output = <<>>
          /\ n.srq => b.srq \/ n.srq_line
      BY <2>1, <2>3, <2>4, <2>5, <2>6, <2>8, Zenon
    <2> QED
      BY <1>1, <1>3, <2>7, <2>9, Zenon DEF read
  <1> QED
    BY <1>2, <1>3

\* Without output MAV may be set or not, but with output it is.
LEMMA MavSaysOutput ==
  ASSUME NEW d, "MAV" \notin Stb(d)
  PROVE  d.output = <<>>
  BY DEF Stb

\* What execute returns, and what an Execution is.
Returned(p, outcome, req) == [pad |-> p, outcome |-> outcome, service_request |-> req]
Both(b, p, outcome, req) == [bus |-> b, last |-> Returned(p, outcome, req)]

\* An execution leaves the bus sound and, if it returns less than MAX_READ in good order,
\* the device without output; a service request it broadcast is reported or still on the
\* line.
LEMMA ExecutionLeaves ==
  ASSUME BusSound(bus), NEW p \in Pads, NEW m \in Messages, NEW expect \in BOOLEAN, NEW how,
         ExecuteCommand(p, m, expect, how)
  PROVE  /\ BusSound(bus') /\ last'.pad = p
         /\ last'.outcome \in {"none", "data"} => bus'.dev[p].output = <<>>
         /\ bus'.srq => last'.service_request # NoRequest \/ bus'.srq_line
  <1> DEFINE written == BusWrite(Quiet, p, m, TRUE)
             stb == Stb(written.dev[p])
             poll == (~expect \/ written.srq_line) /\ how # "poll fails"
             polled == IF poll THEN BusPoll(written, p) ELSE written
             request == IF poll THEN Request(stb) ELSE NoRequest
             output == polled.dev[p].output
             failed == how = "read fails" \/ (output = <<>> /\ how # "empty message")
             read == BusRead(polled, p, MaxRead, FALSE)
             taken == output # <<>> /\ read.srq /\ ~read.srq_line
             reported == IF request = NoRequest /\ taken THEN {"MSS", "MAV"} ELSE request
             amount == IF Len(output) >= MaxRead THEN "full" ELSE "data"
  <1>2. BusSound(written) /\ (written.srq => Mss(written.dev[p]))
    BY WriteLeaves
  <1>3. \/ bus' = Quiet /\ last' = Returned(p, "error", NoRequest)
        \/ bus' = written /\ last' = Returned(p, "unpolled", NoRequest)
        \/ "MAV" \notin stb /\ bus' = polled /\ last' = Returned(p, "none", request)
        \/ bus' = polled /\ last' = Returned(p, "error", NoRequest)
        \/ bus' = read /\ last' = Returned(p, amount, reported)
    <2>1. bus' = Execution(p, m, expect, how).bus /\ last' = Execution(p, m, expect, how).last
      BY DEF ExecuteCommand
    <2>2. Execution(p, m, expect, how) =
            IF how = "write fails" THEN Both(Quiet, p, "error", NoRequest)
            ELSE IF ~expect /\ how = "poll fails" THEN Both(written, p, "unpolled", NoRequest)
            ELSE IF ~expect /\ "MAV" \notin stb THEN Both(polled, p, "none", request)
            ELSE IF failed THEN Both(polled, p, "error", NoRequest)
            ELSE Both(read, p, amount, reported)
      BY DEF Execution, Both, Returned
    <2> HIDE DEF written, stb, polled, request, failed, read, amount, reported
    <2>4. CASE how = "write fails"
      <3>1. Execution(p, m, expect, how) = Both(Quiet, p, "error", NoRequest)
        BY <2>2, <2>4
      <3>2. bus' = Quiet /\ last' = Returned(p, "error", NoRequest)
        BY <2>1, <3>1 DEF Both
      <3> QED
        BY <2>4, <3>2, Zenon
    <2>5. CASE how # "write fails" /\ ~expect /\ how = "poll fails"
      <3>1. Execution(p, m, expect, how) = Both(written, p, "unpolled", NoRequest)
        BY <2>2, <2>5
      <3>2. bus' = written /\ last' = Returned(p, "unpolled", NoRequest)
        BY <2>1, <3>1 DEF Both
      <3> QED
        BY <2>5, <3>2, Zenon
    <2>6. CASE how # "write fails" /\ ~(~expect /\ how = "poll fails") /\ ~expect /\ "MAV" \notin stb
      <3>1. Execution(p, m, expect, how) = Both(polled, p, "none", request)
        BY <2>2, <2>6
      <3>2. bus' = polled /\ last' = Returned(p, "none", request)
        BY <2>1, <3>1 DEF Both
      <3> QED
        BY <2>6, <3>2, Zenon
    <2>7. CASE /\ how # "write fails" /\ ~(~expect /\ how = "poll fails")
               /\ ~(~expect /\ "MAV" \notin stb) /\ failed
      <3>1. Execution(p, m, expect, how) = Both(polled, p, "error", NoRequest)
        BY <2>2, <2>7
      <3>2. bus' = polled /\ last' = Returned(p, "error", NoRequest)
        BY <2>1, <3>1 DEF Both
      <3> QED
        BY <2>7, <3>2, Zenon
    <2>8. CASE /\ how # "write fails" /\ ~(~expect /\ how = "poll fails")
               /\ ~(~expect /\ "MAV" \notin stb) /\ ~failed
      <3>1. Execution(p, m, expect, how) = Both(read, p, amount, reported)
        BY <2>2, <2>8
      <3>2. bus' = read /\ last' = Returned(p, amount, reported)
        BY <2>1, <3>1 DEF Both
      <3> QED
        BY <2>8, <3>2, Zenon
    <2> QED
      BY <2>4, <2>5, <2>6, <2>7, <2>8
  <1>4. \A outcome, req : /\ Returned(p, outcome, req).pad = p
                          /\ Returned(p, outcome, req).outcome = outcome
                          /\ Returned(p, outcome, req).service_request = req
    BY DEF Returned
  <1> HIDE DEF written
  <1>5. written.srq => written.srq_line
    <2> SUFFICES ASSUME written.srq PROVE written.srq_line
      OBVIOUS
    <2> QED
      BY <1>2, Zenon DEF BusSound, AnyMss
  <1>6. /\ BusSound(polled) /\ polled.srq = written.srq /\ polled.srq_line = written.srq_line
        /\ polled.dev[p].output = written.dev[p].output
    <2>1. CASE poll
      <3>1. polled = BusPoll(written, p)
        BY <2>1
      <3> HIDE DEF polled
      <3> QED
        BY <1>2, <3>1, BusPollKeeps, Zenon
    <2>2. CASE ~poll
      <3>1. polled = written
        BY <2>2
      <3> HIDE DEF polled
      <3> QED
        BY <1>2, <3>1, Zenon
    <2> QED
      BY <2>1, <2>2
  <1> HIDE DEF polled
  <1>7. /\ BusSound(read) /\ (Len(output) < MaxRead => read.dev[p].output = <<>>)
        /\ read.srq => polled.srq \/ read.srq_line
        /\ output = <<>> => read = polled
    BY <1>6, ReadLeaves, Zenon
  <1> HIDE DEF read
  <1>8. CASE bus' = Quiet /\ last' = Returned(p, "error", NoRequest)
    <2>1. BusSound(Quiet) /\ Quiet.srq = FALSE
      BY QuietKeeps
    <2>2. "error" \notin {"none", "data"}
      OBVIOUS
    <2> QED
      BY <1>4, <1>8, <2>1, <2>2, Zenon
  <1>9. CASE bus' = written /\ last' = Returned(p, "unpolled", NoRequest)
    <2>2. "unpolled" \notin {"none", "data"}
      OBVIOUS
    <2> QED
      BY <1>2, <1>4, <1>5, <1>9, <2>2, Zenon
  <1>10. CASE "MAV" \notin stb /\ bus' = polled /\ last' = Returned(p, "none", request)
    <2>1. polled.dev[p].output = <<>>
      BY <1>6, <1>10, MavSaysOutput, Zenon
    <2> HIDE DEF request
    <2> QED
      BY <1>4, <1>5, <1>6, <1>10, <2>1, Zenon
  <1>11. CASE bus' = polled /\ last' = Returned(p, "error", NoRequest)
    <2>2. "error" \notin {"none", "data"}
      OBVIOUS
    <2> QED
      BY <1>4, <1>5, <1>6, <1>11, <2>2, Zenon
  <1>12. CASE bus' = read /\ last' = Returned(p, amount, reported)
    <2>1. amount \in {"none", "data"} => Len(output) < MaxRead
      <3>1. Len(output) \in Nat /\ MaxRead \in Nat
        BY <1>6, ExecuteAssumption DEF BusSound, Sound, Devices
      <3> HIDE DEF output
      <3> QED
        BY <3>1
    <2>2. read.srq => reported # NoRequest \/ read.srq_line
      <3>1. {"MSS", "MAV"} # NoRequest
        BY ExecuteAssumption DEF StatusBits
      <3>2. CASE output = <<>>
        BY <1>5, <1>6, <1>7, <3>2, Zenon
      <3>3. CASE output # <<>>
        <4> HIDE DEF request, output
        <4> QED
          BY <3>1, <3>3
      <3> QED
        BY <3>2, <3>3
    <2> HIDE DEF reported, amount, output
    <2>3. last'.pad = p /\ last'.outcome = amount /\ last'.service_request = reported
      BY <1>4, <1>12, Zenon
    <2> QED
      BY <1>7, <1>12, <2>1, <2>2, <2>3, Zenon
  <1> QED
    BY <1>3, <1>8, <1>9, <1>10, <1>11, <1>12

\* The inductive invariant of executions among other clients.
ExecuteInv == BusSound(bus) /\ NoRequestIsEaten /\ NoOutputIsStranded

\* It holds whatever the hint, the command and the clients in between.
LEMMA ExecuteInvHolds == ExecuteSpec => []ExecuteInv
  <1>1. ExecuteInit => ExecuteInv
    <2> SUFFICES ASSUME ExecuteInit PROVE ExecuteInv
      OBVIOUS
    <2>1. BusSound(bus)
      BY BusInitSound DEF ExecuteInit
    <2>2. last.pad = NoRequest
      BY DEF ExecuteInit, NoExecution
    <2> QED
      BY <2>1, <2>2, Zenon DEF ExecuteInv, NoRequestIsEaten, NoOutputIsStranded
  <1>2. ASSUME ExecuteInv, [ExecuteNext]_executeVars PROVE ExecuteInv'
    <2>1. ASSUME NEW p \in Pads, NEW m \in Messages, NEW expect \in BOOLEAN,
                 NEW how \in Services, ExecuteCommand(p, m, expect, how)
          PROVE  ExecuteInv'
      <3>1. /\ BusSound(bus') /\ last'.pad = p
            /\ last'.outcome \in {"none", "data"} => bus'.dev[p].output = <<>>
            /\ bus'.srq => last'.service_request # NoRequest \/ bus'.srq_line
        BY <1>2, <2>1, ExecutionLeaves DEF ExecuteInv
      <3>2. BusSound(bus)'
        BY <3>1, Zenon DEF BusSound
      <3> QED
        BY <3>1, <3>2, Zenon DEF ExecuteInv, NoRequestIsEaten, NoOutputIsStranded
    <2>2. ASSUME BusSound(bus'), last' = NoExecution PROVE ExecuteInv'
      <3>1. last'.pad = NoRequest
        BY <2>2 DEF NoExecution
      <3>2. BusSound(bus)'
        BY <2>2, Zenon DEF BusSound
      <3> QED
        BY <3>1, <3>2, Zenon DEF ExecuteInv, NoRequestIsEaten, NoOutputIsStranded
    <2>3. CASE OtherClient
      BY <1>2, <2>2, <2>3, BusNextKeeps DEF ExecuteInv, OtherClient
    <2>4. CASE ControlReset
      <3>1. BusSound(BusReset(Quiet))
        BY <1>2, QuietKeeps, BusResetKeeps DEF ExecuteInv
      <3> QED
        BY <2>2, <2>4, <3>1 DEF ControlReset, ResetDevices
    <2>5. CASE UNCHANGED executeVars
      BY <1>2, <2>5, Zenon DEF ExecuteInv, BusSound, NoRequestIsEaten, NoOutputIsStranded, executeVars
    <2> QED
      BY <1>2, <2>1, <2>3, <2>4, <2>5 DEF ExecuteNext
  <1> QED
    BY <1>1, <1>2, PTL DEF ExecuteSpec

\* update_srq and reset_devices: with executions, VXI-11 clients and the control
\* channel's Reset on one bus, the line follows every device and no queue outgrows its
\* depth, for any devices, messages and depths.
THEOREM ExecuteLineFollowsDevices == ExecuteSpec => []LineFollowsDevices
  <1>1. ExecuteInv => LineFollowsDevices
    BY SoundBusIs DEF ExecuteInv
  <1> QED
    BY <1>1, ExecuteInvHolds, PTL

\* instrument.rs, execute: a service request a command causes is reported with it, or
\* is still on the line when the bus is given back.
THEOREM ExecuteEatsNoRequest == ExecuteSpec => []NoRequestIsEaten
  <1>1. ExecuteInv => NoRequestIsEaten
    BY DEF ExecuteInv
  <1> QED
    BY <1>1, ExecuteInvHolds, PTL

\* instrument.rs, execute: whatever the hint and however long the replies, an execution
\* that returns in good order leaves output behind only with a reply of MAX_READ bytes;
\* for any devices and messages.
THEOREM ExecuteStrandsNoOutput == ExecuteSpec => []NoOutputIsStranded
  <1>1. ExecuteInv => NoOutputIsStranded
    BY DEF ExecuteInv
  <1> QED
    BY <1>1, ExecuteInvHolds, PTL
============================================================================
