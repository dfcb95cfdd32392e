------------------------ MODULE MCLaunchEnrollment ------------------------
(* Small instances of LaunchEnrollment: two overlapping scans of one       *)
(* launch, and one scan of two launches in batches.                        *)
EXTENDS LaunchEnrollment, TLC

ScannerSymmetry == Permutations(Scanners)
LaunchSymmetry == Permutations(Launches)
=============================================================================
