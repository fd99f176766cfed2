----------------------------- MODULE MCCapture -----------------------------
(***************************************************************************)
(* A small instance of Capture for TLC: caps around the sizes of one to    *)
(* three short lines, and no cap at all, asked for in both ways.           *)
(***************************************************************************)
EXTENDS Capture

SmallCaps == -1..6
=============================================================================
