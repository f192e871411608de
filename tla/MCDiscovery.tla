---------------------------- MODULE MCDiscovery -----------------------------
(***************************************************************************)
(* Small instances of Discovery.  COM1, COM3 and a device without a number *)
(* share five port numbers, so that the allocator has to fall back and to  *)
(* wrap; with one device, users select every port or only another one.     *)
(***************************************************************************)
EXTENDS Discovery

CONSTANTS scan, put

ThreeNames == <<1, 3, 0>>
OneName == <<3>>
AllOrOther == {{}, {9}}
=============================================================================
