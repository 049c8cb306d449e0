------------------------------ MODULE MCDocSync ------------------------------
(* DocSync with one watching host and a player or two that come and go.     *)
EXTENDS DocSync
=============================================================================
