---------------------------- MODULE MCWebRtcSession ----------------------------
(* WebRtcSession for TLC. *)
EXTENDS WebRtcSession
=============================================================================
