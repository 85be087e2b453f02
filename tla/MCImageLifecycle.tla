--------------------------- MODULE MCImageLifecycle ---------------------------
(***************************************************************************)
(* Small instances of ImageLifecycle for TLC.                              *)
(***************************************************************************)
EXTENDS ImageLifecycle, TLC

CONSTANTS b1, b2, f1, f2, f3, hosted

\* One bike with a picture of its own, and room for a second bike.
OnePicture == b1 :> f1

\* The request threads are interchangeable.
Threads == Permutations(Clients)
==============================================================================
