----------------------------- MODULE CheckSteps ------------------------------
(***************************************************************************)
(* What the checks of a script are written in: a check is a name, the      *)
(* transports it runs on and a sequence of instructions.  The scripts' own *)
(* modules add the calls they make.                                        *)
(***************************************************************************)
EXTENDS Sequences

Require(r, set) == [op |-> "require", r |-> r, set |-> set]        \* assert r in set
SkipIf(r, set) == [op |-> "skipif", r |-> r, set |-> set]          \* raise Skip
When(r, set, instr) ==
  [op |-> "when", conds |-> {<<r, set>>} \cup IF instr.op = "when" THEN instr.conds ELSE {},
   then |-> IF instr.op = "when" THEN instr.then ELSE instr]
Finally(instr) == [op |-> "finally", then |-> instr]
Check(name, on, body) == [name |-> name, on |-> on, body |-> body]
EitherTransport == {"hislip", "vxi11"}
Anything == "ignored"    \* the register of an answer nobody looks at

\* harness.collect: the checks of a transport, in the order they are written.
Collect(checks, protocol) == SelectSeq(checks, LAMBDA c : protocol \in c.on)
=============================================================================
