---------------------------- MODULE MCLinearHash ----------------------------
(* An instance of LinearHash with words of one code, of codes that agree in *)
(* their last bits, and of codes that differ in the last bit.               *)
EXTENDS LinearHash

SevenWords == 1 .. 7
Codes == [word \in SevenWords |-> <<12, 4, 5, 12, 9, 2, 7>>[word]]
=============================================================================
