------------------------------ MODULE MCUdpNet ------------------------------
(* UdpNet with requests that share sectors, cross the buffers of the server *)
(* and take more than one piece.                                            *)
EXTENDS UdpNet

MCRequests == {<<0, 7>>, <<3, 2>>}
=============================================================================
