----------------------------- MODULE RemoteExec -----------------------------
(***************************************************************************)
(* What a cnode promises the controller that sends it requests: they are   *)
(* answered one at a time, in the order in which they were accepted, each  *)
(* at most once; an execution that was accepted yields its result to one   *)
(* request only; a request for a result is turned down only if there is    *)
(* nothing to return; requests are turned away unanswered only when too    *)
(* many are waiting.  Answers may be lost on the network.                  *)
(***************************************************************************)
EXTENDS Naturals, Sequences

CONSTANTS
  Request,       \* requests: records with fields cmd, fn, id and more
  Capacity,      \* requests that can wait for the one being answered
  Ignored(_),    \* requests that are not meant for a cnode
  Nothing        \* no result

VARIABLES
  requests,      \* everything that was sent to this node, oldest first
  backlog,       \* the requests accepted and not answered, oldest first
  execs,         \* the accepted executions whose result was not returned
  answers        \* the answers that left the node, oldest first

vars == <<requests, backlog, execs, answers>>

Init ==
  /\ requests = <<>>
  /\ backlog = <<>>
  /\ execs = {}
  /\ answers = <<>>

Submit(r) ==
  /\ requests' = Append(requests, r)
  /\ backlog' = IF Ignored(r) THEN backlog ELSE Append(backlog, Len(requests'))
  /\ UNCHANGED <<execs, answers>>

TurnAway ==
  /\ Len(backlog) > Capacity
  /\ backlog' = SubSeq(backlog, 1, Len(backlog) - 1)
  /\ UNCHANGED <<requests, execs, answers>>

Matches(e, k) ==
  requests[e].fn = requests[k].fn /\ requests[e].id = requests[k].id

Answer(k, kind, e) ==
  /\ backlog # <<>> /\ k = Head(backlog)
  /\ backlog' = Tail(backlog)
  /\ answers' \in {answers, Append(answers, [re |-> k, kind |-> kind, exec |-> e])}
  /\ UNCHANGED requests

Accept(k) ==
  /\ Answer(k, "ACK", Nothing)
  /\ requests[k].cmd = "REXEC"
  /\ execs' = execs \cup {k}

Return(k, e) ==
  /\ Answer(k, "RES", e)
  /\ requests[k].cmd = "GET"
  /\ Matches(e, k)
  /\ execs' = execs \ {e}

Refuse(k) ==
  /\ Answer(k, "ERR", Nothing)
  /\ requests[k].cmd = "GET" => \A e \in execs : ~Matches(e, k)
  /\ UNCHANGED execs

Next ==
  \/ \E r \in Request : Submit(r)
  \/ TurnAway
  \/ \E k \in 1..Len(requests) : Accept(k) \/ Refuse(k)
  \/ \E k \in 1..Len(requests) : \E e \in execs : Return(k, e)

Spec == Init /\ [][Next]_vars
=============================================================================
