-------------------------- MODULE MCGraphLifecycle --------------------------
(***************************************************************************)
(* Two node names, every call of the owner at any time.                    *)
(***************************************************************************)
EXTENDS GraphLifecycle
=============================================================================
