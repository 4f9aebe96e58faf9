--------------------------- MODULE MCSourceWatch ---------------------------
(***************************************************************************)
(* An instance of SourceWatch for TLC: the second source was looked at and *)
(* is in backoff for a while.                                              *)
(***************************************************************************)
EXTENDS SourceWatch, TLC

SomeBackoff == "s1" :> 0 @@ "s2" :> 3

SomeAccess == "s1" :> Never @@ "s2" :> 1
=============================================================================
