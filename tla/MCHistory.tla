----------------------------- MODULE MCHistory -----------------------------
(* A frame and a REST message handled on the client's node and one frame   *)
(* on another, whose handler may pass the client over; the calls for the   *)
(* last two may fail. The client asks for pages of one message, or for     *)
(* more than the server gives.                                             *)
EXTENDS History

CONSTANTS m1, f1, r1
=============================================================================
