---------------------------- MODULE MCUdpSockets ----------------------------
EXTENDS UdpSockets

MCPayloads == {<<1>>, <<2, 2>>, <<3, 3, 3>>}
=============================================================================
