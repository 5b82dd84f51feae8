----------------------------- MODULE MCDevicePM -----------------------------
(***************************************************************************)
(* DevicePM with a controller, a host below it, a card below the host and  *)
(* an unrelated device: the shape of the MMC stack, whose cards come and   *)
(* go around a suspend (drivers/mmc/core/core.c).                          *)
(***************************************************************************)
EXTENDS DevicePM

CONSTANTS ctrl, host, card, other

MCDevices == {ctrl, host, card, other}
MCParent == (host :> ctrl) @@ (card :> host) @@ (ctrl :> NoParent) @@ (other :> NoParent)
=============================================================================
