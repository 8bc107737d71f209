---------------------------- MODULE RingProgress ----------------------------
(***************************************************************************)
(* What the ring promises about termination.  push, evictOldest and        *)
(* popMarshal take no lock: a call is meant to return however long the     *)
(* other goroutines are descheduled.  Fairness is an assumption of each    *)
(* property, on exactly the goroutines it needs the scheduler to run; any  *)
(* other may stop for ever between two steps.                              *)
(***************************************************************************)
EXTENDS RingRefinement

Step(t) ==
  \/ t \in Producers /\ PushStep(t)
  \/ t \in Consumers /\ PopStep(t)

KeepsRunning(t) == WF_vars(Step(t))

\* A call made by a goroutine that keeps running returns, even if every other
\* goroutine stalls at the worst moment: the retry cap of push and the empty
\* test of popMarshal ("Push always returns promptly").
CallsReturn ==
  \A t \in Threads : KeepsRunning(t) => ((pc[t] # "idle") ~> (pc[t] = "idle"))

\* While all goroutines keep running, every accepted item is taken out of the
\* ring by a consumer or by an eviction; no published slot is lost to the
\* consumer.
NoneStranded ==
  (\A t \in Threads : KeepsRunning(t))
    => \A k \in 1..Cardinality(Items) : (Len(log) >= k) ~> (Len(taken) >= k)

=============================================================================
