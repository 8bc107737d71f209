----------------------------- MODULE LinkClaims -----------------------------
(***************************************************************************)
(* What SPEC.md and the comment of TCPSink say about the stream, as        *)
(* properties of DeltaLink.                                                *)
(***************************************************************************)
EXTENDS MCDeltaLink

\* SPEC.md, receiver rules: "a delta frame whose header bit happens to read as 1 will
\* fail the direct CRC check and fall through to the delta path".  So what Reconstruct
\* takes for a keyframe was sent as one.
DeltaFramesFallThrough ==
  DeltaEncoding /\ reads > 0 /\ ~disowned /\ ReadsAsKeyframe(last.frame) => sent[reads].keyframe

\* tcp_sink.go, TCPSink: "Receivers read 4 bytes to obtain the frame length, then read
\* exactly that many bytes for the payload."  So what they read is the payload of some
\* Flush.
EveryReadIsAPayload ==
  reads > 0 => \E i \in DOMAIN sent : last.frame = sent[i].payload

=============================================================================
