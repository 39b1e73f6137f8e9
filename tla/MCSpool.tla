------------------------------ MODULE MCSpool ------------------------------
(* Spool on small instances: commands are interchangeable model values.      *)
EXTENDS Spool

=============================================================================
