---------------------------- MODULE MCPhotoShoot ----------------------------
(* Shots of one and two photos, whole or in two slices, and the cutting    *)
(* into slices for pictures of up to 40 rows.                              *)
EXTENDS PhotoShoot, PhotoSlices

\* What PhotoSlices says holds for small pictures and slices of any height.
ASSUME SlicesAssume ==
  \A vi, image \in 1 .. 40 : \A height \in 1 .. image :
    /\ SlicesMakePhoto(image, height)
    /\ RetryEnds(vi, image, height)
    /\ PartsMakePicture(vi, image, height)
=============================================================================
