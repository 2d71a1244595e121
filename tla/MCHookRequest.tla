--------------------------- MODULE MCHookRequest ---------------------------
(* Instances of HookRequest for TLC.                                           *)
EXTENDS HookRequest

CONSTANTS h1, h2

OneHook == {h1}
TwoHooks == {h1, h2}
=============================================================================
