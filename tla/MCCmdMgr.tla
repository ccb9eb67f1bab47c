------------------------------- MODULE MCCmdMgr -------------------------------
(***************************************************************************)
(* Small instances of the command manager: two callers, room for two       *)
(* listed commands; the slots may run out in the run of the calls only.    *)
(***************************************************************************)
EXTENDS CmdMgr

CONSTANTS c1, c2, wq, rx, none, a, b

Req(i, m) == [id |-> i, mode |-> m]

\* Commands confirmed under one id: with and without a buffer.
SameId == {Req(a, "plain"), Req(a, "e2a")}

\* Commands confirmed under one id, with a buffer, without one, and deferred
\* in a way that always wakes the worker.
Mixed == {Req(a, "plain"), Req(a, "e2a"), Req(a, "force")}

\* Every mode but "e2a", whose wait for an empty list need not end.
NoBuffer == {Req(a, m) : m \in {"plain", "traffic", "force", "nocfm"}}

Traffic == {Req(a, "plain"), Req(a, "traffic")}

RxPlain == {Req(b, "plain")}

Symmetry == Permutations({c1, c2})
===============================================================================
