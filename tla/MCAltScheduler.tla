--------------------------- MODULE MCAltScheduler ---------------------------
(* A small instance of AltScheduler for TLC; the cfg file gives the values: *)
(* three workers, and rows of one job at first, so that the fourth job      *)
(* makes a row grow.                                                        *)
EXTENDS AltScheduler
=============================================================================
