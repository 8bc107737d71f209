--------------------------- MODULE EngineProgress ---------------------------
(***************************************************************************)
(* Liveness of the tick engine.  Go schedules every runnable goroutine and *)
(* fires every timer, so the engine's own steps, its timers and the tick   *)
(* are weakly fair; a select with several ready cases picks among them at  *)
(* random, so its ctx.Done() case is strongly fair.  Nothing is assumed of *)
(* the sink, which may hang for ever, nor that anyone cancels.             *)
(***************************************************************************)
EXTENDS Engine

FairSpec ==
  /\ Spec
  /\ WF_vars(Publish) /\ WF_vars(Start) /\ WF_vars(Tick) /\ SF_vars(CtxDone)
  /\ WF_vars(ShutdownDeadline) /\ WF_vars(FinalReturn) /\ WF_vars(DrainStep)
  /\ \A f \in 1..MaxPush : WF_vars(Send(f)) /\ WF_vars(Clear(f))

\* Once the context is cancelled the channel returned by Start is closed, even if
\* the sink never returns from a Flush: FlushTimeout frees the drain loop.
StopsAfterCancel == ctx = "cancelled" ~> mpc = "exited"

\* While the engine runs, every item in the ring is eventually taken out of it,
\* even if the sink hangs: the drain loop goes on processing ticks.
KeepsDraining ==
  \A x \in Items :
    (\E k \in DOMAIN queue : queue[k] = x)
      ~> (ctx = "cancelled" \/ ~\E k \in DOMAIN queue : queue[k] = x)

=============================================================================
