---------------------------- MODULE Presence_MC ----------------------------
(***************************************************************************)
(* An instance of Presence: one extension on each of two engines.          *)
(***************************************************************************)
EXTENDS Presence, TLC

CONSTANTS asterisk, freeswitch, k1, k2, none, home, away

OneEach == (k1 :> asterisk) @@ (k2 :> freeswitch)
=============================================================================
