---------------------------- MODULE MCCmmThread ----------------------------
(* An instance of CmmThread: InitPixel may fail, and then leaves no buffer or *)
(* the first one only.                                                        *)
EXTENDS CmmThread

LoseSome == {"none", "some"}
=============================================================================
