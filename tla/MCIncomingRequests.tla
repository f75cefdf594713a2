------------------------ MODULE MCIncomingRequests ------------------------
(* The instance of Discovery, with chat requests. *)
EXTENDS MCDiscovery, IncomingRequests

=============================================================================
