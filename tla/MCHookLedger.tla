---------------------------- MODULE MCHookLedger ----------------------------
(***************************************************************************)
(* Model checking of module HookLedger: the daemon and a CLI command.      *)
(***************************************************************************)
EXTENDS HookLedger
CONSTANTS h1, daemon, command

EveryPair == Hooks \X Events
WithAndWithoutHook == {Hooks, {}}
=============================================================================
