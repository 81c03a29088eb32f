------------------------------- MODULE MCNtp -------------------------------
(***************************************************************************)
(* A small instance of NtpGetter for TLC.                                  *)
(***************************************************************************)
EXTENDS NtpGetter, TLC

CONSTANTS a1, a2, p1, p2

\* ntpd numbers its associations as it likes.
AssidSymmetry == Permutations(Assids)
=============================================================================
