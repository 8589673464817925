---------------------------- MODULE MCWinUsbHandle ----------------------------
(* Instances of WinUsbHandle for TLC.                                      *)
EXTENDS WinUsbHandle

\* Every handle of the device is freed once, Close leaves none but those a reset has
\* given a HID handle, and none is freed under a transfer.
HandlesSound == TypeOK /\ HandlesFreedOnce /\ CloseFreesAll /\ TransferOnLiveHandle

\* Close returns, and an AsyncBulkTransfer completes, unless a transfer without a
\* timeout keeps the lock.
CallsReturn == CloseReturns /\ AbCompletes
=============================================================================
