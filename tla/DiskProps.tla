------------------------------ MODULE DiskProps ------------------------------
(***************************************************************************)
(* What the disk collector's metrics say of the volumes.                   *)
(***************************************************************************)
EXTENDS Disk

DiskTypeOK ==
  /\ mounted \subseteq MountPoints /\ << >> \in mounted
  /\ listed \subseteq MountPoints /\ steady \subseteq MountPoints
  /\ collecting \in BOOLEAN
  /\ metrics \subseteq [mount : MountPoints, volume : MountPoints, tag : Seq(Allowed) \ {<< >>}]

\* Of a virtual filesystem, or in a directory not worth reporting
Excluded(m) == m \in VirtualOnes \/ \E p \in MountPrefixes : IsPrefix(p, m)

\* disk.go:41-48 (a volume that is unavailable is skipped, "not the cycle"):
\* whatever is mounted, unmounted or unreadable meanwhile, Collect ends with a
\* metric of every volume that was there throughout, except for just those
\* that are excluded: /dev excludes /dev/shm, and not /devices.
EveryVolumeTold ==
  ~collecting => \A m \in steady : Excluded(m) <=> ~\E x \in metrics : x.mount = m

\* disk.go:45 (the usage is asked for after the listing): a metric gives the
\* usage of the volume that its name stands for, unless that was unmounted
\* before it was asked for, in which case it gives another volume's.
TellsItsVolume == \A x \in metrics : x.volume = x.mount \/ x.mount \notin steady

\* Made of lower-case letters and digits only
Plain(m) == \A i \in DOMAIN m : \A j \in DOMAIN m[i] : m[i][j] \in Allowed \ {Underscore}

\* disk.go:70-72 (a "metric-name-safe tag"): two volumes reported together
\* have different names, unless one's mount point has a character other than a
\* lower-case letter or a digit, or they are "/" and "/root".
PlainNamesDistinct ==
  \A x, y \in metrics :
    x.tag = y.tag /\ Plain(x.mount) /\ Plain(y.mount) =>
      x.mount = y.mount \/ {x.mount, y.mount} = {<< >>, << <<"r", "o", "o", "t">> >>}

\* disk.go:34-81: what Collect tells of the volumes, and under which names.
VolumesTold == EveryVolumeTold /\ TellsItsVolume /\ PlainNamesDistinct
=============================================================================
