------------------------------ MODULE MCTCPServer ------------------------------
(* Two clients, so that a round has several sockets to handle and one of them  *)
(* can hold the thread up; room for one answer, so that the second answer to a *)
(* client that does not read waits in the buffer and both leave it in pieces.  *)
EXTENDS TCPServer

CONSTANTS alice, bob

MCClients == {alice, bob}
===============================================================================
