---------------------------- MODULE MCFileWrites -----------------------------
(* Two writes of Android apps, or one edit in the desktop editor; and an   *)
(* edit of one entry that may be made here or come from another device.    *)
EXTENDS FileWrites, TLC

CONSTANTS s0, w1, w2, d1, p1
=============================================================================
