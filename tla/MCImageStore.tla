---------------------------- MODULE MCImageStore ----------------------------
(* ImageStore on small instances; the cfgs choose images and bounds. *)
EXTENDS ImageStore, TLC

ImageSymmetry == Permutations(Images)
=============================================================================
