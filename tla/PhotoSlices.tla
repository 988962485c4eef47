----------------------------- MODULE PhotoSlices -----------------------------
(***************************************************************************)
(* How RKADK_PHOTO_SetSliceParam and RKADK_PHOTO_SetViSliceParam cut a     *)
(* photo of `image' rows into slices of `slice' rows, and the camera's     *)
(* picture of `vi' rows into as many parts, each scaled into a slice.  A   *)
(* part has an even number of rows: when the share of a slice is odd the   *)
(* parts take one row less and one row more by turns, and the last part    *)
(* takes what is left.                                                     *)
(***************************************************************************)
EXTENDS Integers

\* u32SliceCount, and the rows of the last slice of the photo.
SliceCount(image, slice) == (image \div slice) + (IF image % slice = 0 THEN 0 ELSE 1)
LastSlice(image, slice)  == image - slice * (SliceCount(image, slice) - 1)

\* The rows of the camera's picture that fall to one slice, rounded down and up.
Share(vi, image, slice)   == (vi * slice) \div image
ShareUp(vi, image, slice) == Share(vi, image, slice) + (IF (vi * slice) % image = 0 THEN 0 ELSE 1)

\* Rows of the odd and of the even parts for a share of s rows, of the first
\* n - 1 parts together, and of the last.
OddPart(s)  == s - (s % 2)
EvenPart(s) == s + (s % 2)
Before(s, n) == (OddPart(s) + EvenPart(s)) * ((n - 1) \div 2) + (IF (n - 1) % 2 = 1 THEN OddPart(s) ELSE 0)
LastPart(vi, s, n) == vi - Before(s, n)

\* The share is rounded up first; when nothing is left for the last part the
\* code rounds down and tries again.
PartShare(vi, image, slice) ==
  IF LastPart(vi, ShareUp(vi, image, slice), SliceCount(image, slice)) > 0
  THEN ShareUp(vi, image, slice)
  ELSE Share(vi, image, slice)

\* Rows of part i of the camera's picture, as SliceProc takes them.
Part(vi, image, slice, i) ==
  LET s == PartShare(vi, image, slice)
      n == SliceCount(image, slice)
  IN  IF i = n THEN LastPart(vi, s, n) ELSE IF i % 2 = 1 THEN OddPart(s) ELSE EvenPart(s)

\* The slices make up the photo: the last one is neither empty nor longer than
\* the others.
SlicesMakePhoto(image, slice) == LastSlice(image, slice) \in 1 .. slice

\* The second try always leaves rows for the last part, so that the code's
\* goto RETRY (rkadk_photo.c:165) runs at most once.
RetryEnds(vi, image, slice) == LastPart(vi, Share(vi, image, slice), SliceCount(image, slice)) > 0

\* Every part but the last has an even number of rows, and the parts are the
\* whole picture, no more: SliceProc reads no row behind its end.
PartsMakePicture(vi, image, slice) ==
  LET n == SliceCount(image, slice)
      rows[i \in 0 .. n] == IF i = 0 THEN 0 ELSE rows[i - 1] + Part(vi, image, slice, i)
  IN  /\ rows[n] = vi
      /\ \A i \in 1 .. n - 1 : Part(vi, image, slice, i) % 2 = 0
      /\ \A i \in 1 .. n : rows[i] \in 0 .. vi

=============================================================================
