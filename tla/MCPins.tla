------------------------------- MODULE MCPins -------------------------------
(* A small instance of Pins: the modem's reset line and power line, the    *)
(* lines of the demos on ports A and B, a line of port B numbered like the *)
(* modem's, and a port there is not.                                       *)
EXTENDS Pins

MCRequests == { << 0, 2 >>, << 0, 15 >>, << 1, 2 >>, << 4, 2 >> }
MCWired == { 15 }
=============================================================================
