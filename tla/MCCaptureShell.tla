--------------------------- MODULE MCCaptureShell ---------------------------
(* CaptureShell on small instances.                                        *)
EXTENDS CaptureShell, TLC

\* Callers are interchangeable.
CallerSymmetry == Permutations(Callers)
=============================================================================
