--------------------------- MODULE MCPriceStream ---------------------------
(***************************************************************************)
(* PriceStream for TLC.                                                    *)
(***************************************************************************)
EXTENDS PriceStream, TLC

SidSymmetry == Permutations(Sid)
=============================================================================
