------------------------------- MODULE MCTurns -------------------------------
(* Instances of Turns: which kinds of request the client sends.              *)
EXTENDS Turns, TLC

AKind(via, build, tid) == [via |-> via, build |-> build, tid |-> tid]

(* One kind per way a turn can end: in the handler, in a cancellable task, in *)
(* a token stream; a build in a task under the turn id; and a build of an     *)
(* older client, in the handler, with no turn id.                             *)
EachEnding ==
    {AKind("json", FALSE, TRUE), AKind("n400", FALSE, TRUE), AKind("stream", FALSE, TRUE),
     AKind("sse", TRUE, TRUE), AKind("json", TRUE, FALSE)}

(* Every kind that carries an id.                                            *)
AllKinds == {k \in Kind : k.build \/ k.tid}

Interchangeable == Permutations(Requests)
=============================================================================
