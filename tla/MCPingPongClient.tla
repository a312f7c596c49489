-------------------------- MODULE MCPingPongClient --------------------------
(* An instance of PingPongClient for TLC.                                    *)
EXTENDS PingPongClient

ThePing == <<1, 2>>
ThePong == <<3, 4>>

=============================================================================
