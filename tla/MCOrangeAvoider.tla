-------------------------- MODULE MCOrangeAvoider --------------------------
(* A rectangular arena with a margin of one unit around the obstacle zone.      *)
EXTENDS AvoiderProperties

CONSTANTS Width, Height

MCZone  == (1..Width) \X (1..Height)
MCArena == (0..(Width + 1)) \X (0..(Height + 1))
MCHome  == <<2, 1>>
=============================================================================
