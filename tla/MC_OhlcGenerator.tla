------------------------- MODULE MC_OhlcGenerator -------------------------
(* Model values for OhlcGenerator; the widths and times are in the .cfg.  *)
EXTENDS OhlcGenerator


=============================================================================
