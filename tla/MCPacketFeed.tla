---------------------------- MODULE MCPacketFeed ----------------------------
(* PacketFeed with a channel of two packets, one line per socket and one   *)
(* place in packetChan, so that four packets overrun the channel and the   *)
(* socket.  The back-off wraps to every kind of number.                    *)
EXTENDS PacketFeed
=============================================================================
