---------------------------- MODULE EngineClaims ----------------------------
(***************************************************************************)
(* A statement of the code's comments about flushWithTimeout, as a         *)
(* property of the engine with one history variable.                       *)
(***************************************************************************)
EXTENDS Engine

VARIABLE counted    \* history: the calls whose nil result FlushedBatches has counted

CountedInit == Init /\ counted = {}

CountedNext ==
  /\ Next
  /\ counted' = IF flushedBatches' > flushedBatches THEN counted \cup {Len(flights)} ELSE counted

CountedSpec == CountedInit /\ [][CountedNext]_<<vars, counted>>

\* batcher.go, flushWithTimeout: ErrFlushTimeout is returned at once "if a previous
\* flush is still running (timed-out but not yet returned)".  So the last call, if
\* drainAndFlush has received its result and counted it as flushed, is no reason for
\* FlushBusy to reject a frame.
BusyMeansRunning ==
  [][FlushBusy => Len(flights) \notin counted]_<<vars, counted>>

=============================================================================
