---------------------------- MODULE MCEventLoop ----------------------------
(***************************************************************************)
(* Instances of the event loop for TLC.                                    *)
(***************************************************************************)
EXTENDS EventLoop

R == {AE_READABLE}
W == {AE_WRITABLE}
WB == {AE_WRITABLE, AE_BARRIER}

BarrierMasks == {R, W, WB}
SizesOneTwo == {1, 2}
=============================================================================
