----------------------------- MODULE MCFrontend -----------------------------
(* Requests on two transactions over one key.                              *)
EXTENDS Frontend, TLC

=============================================================================
