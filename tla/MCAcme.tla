------------------------------- MODULE MCAcme -------------------------------
(* Three nodes and two domains for TLC, as the test of letsencrypt orders. *)
EXTENDS AcmeProperties
=============================================================================
