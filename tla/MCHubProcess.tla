---------------------------- MODULE MCHubProcess ----------------------------
(***************************************************************************)
(* Three processes and as many cores, so that a restart can follow a hot   *)
(* reload or a restart.                                                    *)
(***************************************************************************)
EXTENDS HubProcess

MCProcess == 1..3
MCCore == 1..3
=============================================================================
