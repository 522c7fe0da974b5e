----------------------------- MODULE Identities -----------------------------
(***************************************************************************)
(* The names that the controller and the agents share.                     *)
(***************************************************************************)
EXTENDS Naturals

CONSTANTS
    Bindings,       \* binding identities
    Endpoints,      \* <<provider, node>> pairs of exclusive resources
    None            \* no endpoint, no binding, no machine
=============================================================================
