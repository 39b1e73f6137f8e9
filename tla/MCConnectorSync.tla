--------------------------- MODULE MCConnectorSync ---------------------------
(* ConnectorSync for TLC.  Only bounds are added; the specification is unchanged. *)
EXTENDS ConnectorSync
=============================================================================
