------------------------------ MODULE MCCNode ------------------------------
(* Instances of CNode for TLC.                                             *)
EXTENDS CNode, TLC

CONSTANTS fn, other, p1, p2, w1, w2

(* One function, that takes an integer or a string.                        *)
MCTask      == {fn}
MCFnSigInt  == fn :> "i"
MCFnSigText == fn :> "s"
MCInst      == {p1, p2}
MCWorker    == {w1, w2}
MCWorker1   == {w1}
MCSource    == 1..MaxReceived

(* Messages that controllers send.                                        *)
Request(c, f, id, s) ==
  [key |-> "app/requests/down", cmd |-> c, fn |-> f, id |-> id, sig |-> s]

Echo(k, c) == [Request(c, fn, 1, "s") EXCEPT !.key = k]

MCMessageAll ==
  {Request("REXEC", fn, id, "s") : id \in TaskId}
    \cup {Request("REXEC", fn, 1, s) : s \in {"i", NULL}}
    \cup {Request("GET", fn, id, NULL) : id \in TaskId}
    \cup {Request("GET", f, 1, NULL) : f \in Unregistered}
    \cup {Request("OTHER", fn, 1, NULL), Echo("app/replies/up", "OTHER"),
          Echo("app/requests/up", "REXEC"),
          Echo("app/requests/upstream", "REXEC")}

(* Only requests to execute and for results; arguments of a wrong type.    *)
MCMessageExec ==
  {Request(c, fn, id, "i") : c \in {"REXEC", "GET"}, id \in TaskId}

MCMessageBadArgs == MCMessageExec \cup {Request("REXEC", fn, 1, "s")}

Symmetry == Permutations(Inst) \cup Permutations(Worker)
=============================================================================
