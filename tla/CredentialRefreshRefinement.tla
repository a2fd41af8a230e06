-------------------- MODULE CredentialRefreshRefinement ---------------------
(* The coordinator implements the promises of CredentialGenerations.       *)
EXTENDS CredentialRefresh

\* What a request's pc means to a reader of the promises.
AbstractState(q) ==
  CASE pc[q] \in Taking \cup {"turnWait", "refreshWait", "signing", "signed"}
         -> IF attempt[q] = 1 THEN "unsigned" ELSE "renewed"
    [] pc[q] \in {"sent", "answering", "waiting"}
         -> IF attempt[q] = 1 THEN "signed" ELSE "resigned"
    [] OTHER -> pc[q]

\* A run has failed its generation once its answer can be read.
Unrenewed == {x \in Requests : /\ outcome[x] \in {"failed", "gaveUp"}
                               /\ rpc[x] \in {"closing", "done"}}

Promise == INSTANCE CredentialGenerations WITH
  version  <- refreshes,
  attempts <- runs,
  renewing <- {from[x] : x \in Renewing},
  failed   <- {from[x] : x \in Unrenewed},
  stamp    <- gen,
  state    <- [q \in Requests |-> AbstractState(q)]

\* Every step of the coordinator is a step of the promise or a stutter: no
\* signing during a renewal, one renewal of each generation, and answers that
\* are about the generation of the request they are given to.
KeepsPromise == Promise!Spec
=============================================================================
