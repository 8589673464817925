----------------------------- MODULE MCUsbfsAsync -----------------------------
(* Instances of UsbfsAsync for TLC.                                        *)
EXTENDS UsbfsAsync, TLC

\* The transfers of one kind are interchangeable.
Symmetry == Permutations(Xfers \ Bulk) \cup Permutations(Bulk)
=============================================================================
