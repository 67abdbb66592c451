----------------------------- MODULE MCWebClient -----------------------------
(* The web client on a small instance.                                      *)
EXTENDS WebClient

=============================================================================
