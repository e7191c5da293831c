-------------------------------- MODULE MCSocket --------------------------------
(***************************************************************************)
(* The socket server for TLC, twice: "stream" sends over connected and     *)
(* bound sockets in one slot, and "accept" (A) uses a listening socket and *)
(* an accepted client in two slots.  The properties are those of           *)
(* SocketServer, which hold in both.                                       *)
(***************************************************************************)
EXTENDS SocketServer

CONSTANTS AcceptSlots, AcceptKinds, AcceptCtl

VARIABLE part

(* Workers do nothing in an order, and the properties are invariants. *)
Symmetry == Permutations(Worker)

A == INSTANCE SocketServer WITH Slots <- AcceptSlots, Kinds <- AcceptKinds, MaxCtl <- AcceptCtl

SocketInit == \/ part = "stream" /\ Init
              \/ part = "accept" /\ A!Init

SocketNext == \/ part = "stream" /\ Next /\ UNCHANGED part
              \/ part = "accept" /\ A!Next /\ UNCHANGED part

SocketSpec == SocketInit /\ [][SocketNext]_<<part, vars>>
=============================================================================
