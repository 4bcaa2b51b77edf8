----------------------------- MODULE MCSession -----------------------------
(* Small sessions for TLC.                                                 *)
EXTENDS SessionProperties

Fresh(a, b) == [i \in 1 .. b - a + 1 |-> [time |-> a + i - 1, gen |-> 0]]
Holding(names) == [p \in Paths |->
  IF \E i \in DOMAIN names : names[i] = p THEN Fresh(p[1], p[2]) ELSE NoVolume]

(* Two sweeps of two rays, a file each.                                    *)
TwoFiles == <<<<1, 2>>, <<3, 4>>>>
InTwoFiles == Holding(TwoFiles)

(* A volume of two sweeps, alone and with a file of one sweep after it.    *)
Volume == <<<<1, 4>>>>
InVolume == Holding(Volume)
VolumeAndFile == <<<<1, 4>>, <<5, 6>>>>
InVolumeAndFile == Holding(VolumeAndFile)

(* A file before and after a volume; two volumes.                          *)
FileVolumeFile == <<<<1, 2>>, <<3, 6>>, <<7, 8>>>>
InFileVolumeFile == Holding(FileVolumeFile)
TwoVolumes == <<<<1, 4>>, <<5, 8>>>>
InTwoVolumes == Holding(TwoVolumes)

(* Frames that share everything, as at startup, and frames on their own.   *)
AllLinked == [f \in Frames |-> Frames]
NoneLinked == [f \in Frames |-> {f}]
=============================================================================
