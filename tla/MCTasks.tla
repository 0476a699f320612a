------------------------------- MODULE MCTasks -------------------------------
(***************************************************************************)
(* Two tasks and one conversation, two specifications in one run: a        *)
(* behaviour is one of HislipChannels, where the synchronous channel meets *)
(* the asynchronous one, or of Vxi11Abort, where the core channel meets    *)
(* the abort channel, with the fairness each of them states.  The          *)
(* variables of the other stand still.                                     *)
(***************************************************************************)
EXTENDS HislipChannels, Vxi11Abort
CONSTANTS c1, c2, a1

VARIABLE
  part   \* which of them this behaviour is

\* Two connections on one link, one abort channel, two calls and two aborts each.
MCCallers == {c1, c2}
MCAborters == {a1}

MCInit ==
  /\ part \in {"channels", "abort"}
  /\ Init /\ AbortInit
  /\ part # "channels" => drained
MCNext ==
  \/ part = "channels" /\ Next /\ UNCHANGED <<part, abortVars>>
  \/ part = "abort" /\ AbortNext /\ UNCHANGED <<part, vars>>

\* The fairness that each module states and explains, of the part at hand.
MCSpec ==
  /\ MCInit /\ [][MCNext]_<<part, vars, abortVars>>
  /\ WF_vars(part = "channels" /\ SyncLoop) /\ WF_vars(part = "channels" /\ AsyncLoop)
  /\ WF_vars(part = "channels" /\ ReadAsync) /\ WF_vars(part = "channels" /\ ReadSync)
  /\ \A c \in Callers :
       /\ WF_abortVars(part = "abort" /\ Wakeup(c))
       /\ WF_abortVars(part = "abort" /\ Transfer(c))
       /\ WF_abortVars(part = "abort" /\ DropWindow(c))
  /\ \A a \in Aborters : WF_abortVars(part = "abort" /\ Dispatch(a))
=============================================================================
