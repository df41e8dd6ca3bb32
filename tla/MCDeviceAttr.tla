---------------------------- MODULE MCDeviceAttr -----------------------------
(* Threads, and files, are interchangeable in runs about safety alone.     *)
EXTENDS DeviceAttr, TLC

ThreadAndFileSymmetry == Permutations(Threads) \cup Permutations(Attributes)
==============================================================================
