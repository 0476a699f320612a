------------------------------ MODULE MCHislip -------------------------------
(***************************************************************************)
(* What HiSLIP sessions own and what they meet on the bus, three speci-    *)
(* fications in one run: a behaviour is one of HislipSessions, of          *)
(* VirtualInstrument by itself or of HislipExecute on top of it.  The      *)
(* variables of HislipSessions stand still in the behaviours of the bus.   *)
(***************************************************************************)
EXTENDS HislipSessions, HislipExecute, TLC
CONSTANTS a, b, c

VARIABLE
  part   \* which of them this behaviour is

\* Three sessions over two registry slots and three ids; two devices.
MCSessions == {a, b, c}
MCIds == {0, 2, 4}
MCPads == {a, b}

Unit(h) == [head |-> h, arg |-> {}]
Mask(h, bits) == [head |-> h, arg |-> bits]
MCUserBits == {{}, {"USER"}}

\* Masks, conditions that rise and fall, messages that raise one and lower it within one
\* write, queries with one reply and with more, and units of one that wait for the rest
\* of theirs.
MCMessages ==
  {<<Mask("*SRE", {"MAV", "MSS"}), Mask("*ESE", {})>>,
   <<Mask("*SRE", {"ESB", "USER"}), Mask("*ESE", {"EXE"})>>,
   <<Unit("TEST:SRQ"), Unit("*OPC"), Unit("*CLS"), Unit("*IDN?")>>,
   <<Unit("undefined"), Unit("SYST:ERR?"), Unit("*CLS"), Unit("*TRG")>>,
   <<Unit("*RST"), Unit("TEST:SRQ"), Unit("*ESR?"), Unit("TEST:BIG?")>>}
MCReadSizes == {2}

\* The swap of a and b is a symmetry of every part.
Symmetry == Permutations({a, b})

MCInit ==
  /\ part \in {"sessions", "instrument", "execute"}
  /\ Init /\ (part # "sessions" => orderly)
  /\ ExecuteInit
MCNext ==
  \/ part = "sessions" /\ Next /\ UNCHANGED <<part, executeVars>>
  \/ part = "instrument" /\ BusNext /\ UNCHANGED <<part, vars, last>>
  \/ part = "execute" /\ ExecuteNext /\ UNCHANGED <<part, vars>>
MCSpec == MCInit /\ [][MCNext]_<<part, vars, executeVars>>

-----------------------------------------------------------------------------
\* VirtualInstrument's SrqFollowsRises, of its own behaviours: without resets, after
\* which last_mss is stale, a broadcast for each rise of MSS and for nothing else.
BroadcastsFollowRises == [][part = "instrument" => BroadcastsAreRises]_<<part, bus>>
=============================================================================
