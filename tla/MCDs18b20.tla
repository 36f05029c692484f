------------------------------ MODULE MCDs18b20 ------------------------------
(* A small instance of Ds18b20: a line with a sensor, one held low and one *)
(* pulled up.                                                              *)
EXTENDS Ds18b20

MCLine == { 4, 5, 6 }         \* PA4, as in the demo, PA5 and PA6
MCSensor == { 4 }
MCLow == { 5 }
MCRequests == { << 0, 4 >>, << 0, 5 >>, << 0, 6 >>, << 4, 4 >> }    \* and a port there is not

(* 25.0625 degrees, and 85 degrees: the power-on value. *)
MCPads == { << 145, 1, 75, 70, 127, 255, 12, 16 >>, << 80, 5, 75, 70, 127, 255, 12, 16 >> }
==============================================================================
