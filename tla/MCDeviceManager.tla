-------------------------- MODULE MCDeviceManager --------------------------
(***************************************************************************)
(* DeviceManager for the safety runs: the managers are interchangeable,    *)
(* and where Lossy is all of Devices or empty, so are the devices.         *)
(***************************************************************************)
EXTENDS DeviceManager, TLC

ManagerSymmetry == Permutations(Managers)

Symmetry == Permutations(Devices) \cup ManagerSymmetry

=============================================================================
