---------------------------- MODULE MCDeviceFeed ----------------------------
(* Instances of DeviceFeed: up to two devices, a few changes, and one        *)
(* connection or bridge that is lost.  Devices are interchangeable.          *)
EXTENDS DeviceFeed, TLC

Interchangeable == Permutations(Device)
=============================================================================
