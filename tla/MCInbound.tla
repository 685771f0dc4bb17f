------------------------------- MODULE MCInbound -------------------------------
(* Instance of InboundLink for TLC.                                        *)
EXTENDS InboundLink
=============================================================================
