----------------------------- MODULE MCDispatch -----------------------------
(* Two workers of different weight: the first takes one message a round,   *)
(* the second the whole queue it finds.                                    *)
EXTENDS Dispatch, TLC

CONSTANTS s1, s2, s3, w1, w2

MCWeight == w1 :> -1 @@ w2 :> 0
=============================================================================
