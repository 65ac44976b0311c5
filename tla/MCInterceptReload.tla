---------------------------- MODULE MCInterceptReload ----------------------------
(* Three handlers of one call each, and two reloads. *)
EXTENDS InterceptReload

CONSTANTS h1, h2, h3

=============================================================================
