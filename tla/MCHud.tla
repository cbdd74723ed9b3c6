------------------------------- MODULE MCHud --------------------------------
(* Hud with the whitelist watcher and the hotkey as its callers.              *)
EXTENDS Hud, TLC

CONSTANTS watcher, hotkey

BothDefault   == (watcher :> "yes") @@ (hotkey :> "no")
HotkeyDefault == (hotkey :> "no")
=============================================================================
