--------------------------- MODULE MCClientSessions ---------------------------
(***************************************************************************)
(* ClientSessions with a client that speaks, and may try again, and one    *)
(* that stops the conversation.                                            *)
(***************************************************************************)
EXTENDS ClientSessions, TLC

CONSTANTS r1, r2, r3, alice, bob

MCClient == r1 :> alice @@ r2 :> alice @@ r3 :> bob
MCAsks   == alice :> "turn" @@ bob :> "stop"
=============================================================================
