-------------------------------- MODULE Disk --------------------------------
(***************************************************************************)
(* The disk collector, internal/collector/disk.go: Collect lists the       *)
(* mounted partitions and then asks for the usage of each, while volumes    *)
(* may come and go.  A mount point is the sequence of its parts ("/" has    *)
(* none), a part a sequence of characters; a volume, and its usage, is      *)
(* known by the place where it is mounted.                                  *)
(***************************************************************************)
EXTENDS Integers, SequencesExt

CONSTANTS
  MountPoints,  \* where volumes may be mounted, "/" among them
  VirtualOnes,  \* those whose filesystem type is one of virtualFSTypes
  MountPrefixes,     \* virtualMountPrefixes
  Lower,        \* Lower[ch]: the character in lower case
  Allowed       \* the characters a-z, 0-9 and _

Underscore == "_"

\* A place: a part is not empty, and ToLower gives each of its characters one in lower case.
Places == Seq(Seq(DOMAIN Lower) \ {<< >>})

ASSUME DiskAssumption ==
  /\ MountPoints \subseteq Places /\ << >> \in MountPoints
  /\ VirtualOnes \subseteq MountPoints \ {<< >>}
  /\ {Underscore, "r", "o", "t"} \subseteq Allowed
  /\ Allowed \subseteq DOMAIN Lower /\ \A ch \in Allowed : Lower[ch] = ch

VARIABLES
  mounted,     \* the mount points in use
  listed,      \* the partitions listed that the loop has not come to
  metrics,     \* the metrics so far: of which mount point and volume, the name's tag
  collecting,  \* whether Collect is in progress
  steady       \* history: the volumes mounted and readable ever since it was called

diskVars == <<mounted, listed, metrics, collecting, steady>>

----------------------------------------------------------------------------
\* What is reported, and under which name

\* Mutant: the prefix is compared without the slash that ends a part.
ShouldReportPrefix(mountpoint) ==
  /\ mountpoint \notin VirtualOnes
  /\ \A prefix \in MountPrefixes : ~IsPrefix(FlattenSeq(prefix), FlattenSeq(mountpoint))

ShouldReport(mountpoint) ==
  /\ mountpoint \notin VirtualOnes
  /\ \A prefix \in MountPrefixes : ~IsPrefix(prefix, mountpoint)

SanitizePart(part) ==
  [i \in DOMAIN part |-> IF Lower[part[i]] \in Allowed THEN Lower[part[i]] ELSE Underscore]

\* The parts with underscores between them, "root" if there are none
Sanitize(mountpoint) ==
  IF mountpoint = << >> THEN <<"r", "o", "o", "t">>
  ELSE Tail(FlattenSeq([i \in DOMAIN mountpoint |-> <<Underscore>> \o SanitizePart(mountpoint[i])]))

----------------------------------------------------------------------------
\* Collect.  When the listing fails it returns at once, which changes nothing.

DiskInit ==
  /\ mounted = {<< >>} /\ listed = {} /\ metrics = {}
  /\ collecting = FALSE /\ steady = {}

List ==
  /\ ~collecting
  /\ collecting' = TRUE /\ listed' = mounted /\ metrics' = {} /\ steady' = mounted
  /\ UNCHANGED mounted

PassOver(m) ==
  /\ m \in listed /\ ~ShouldReport(m)
  /\ listed' = listed \ {m}
  /\ UNCHANGED <<mounted, metrics, collecting, steady>>

\* What is at a path: the volume mounted there, or else the one it is a
\* directory of
VolumeAt(path) ==
  CHOOSE v \in mounted : /\ IsPrefix(v, path)
                         /\ \A w \in mounted : IsPrefix(w, path) => Len(w) <= Len(v)

Usage(m) ==
  /\ m \in listed /\ ShouldReport(m)
  /\ metrics' = metrics \cup {[mount |-> m, volume |-> VolumeAt(m), tag |-> Sanitize(m)]}
  /\ listed' = listed \ {m}
  /\ UNCHANGED <<mounted, collecting, steady>>

\* A volume that cannot be read is skipped.
UsageFails(m) ==
  /\ m \in listed /\ ShouldReport(m)
  /\ listed' = listed \ {m} /\ steady' = steady \ {m}
  /\ UNCHANGED <<mounted, metrics, collecting>>

Finish ==
  /\ collecting /\ listed = {}
  /\ collecting' = FALSE
  /\ UNCHANGED <<mounted, listed, metrics, steady>>

----------------------------------------------------------------------------
\* The machine: a volume with another one mounted in it stays.

Inside(m) == {n \in mounted : n # m /\ IsPrefix(m, n)}

Mount(m) ==
  /\ m \notin mounted /\ Inside(m) = {}
  /\ mounted' = mounted \cup {m}
  /\ UNCHANGED <<listed, metrics, collecting, steady>>

Unmount(m) ==
  /\ m \in mounted \ {<< >>} /\ Inside(m) = {}
  /\ mounted' = mounted \ {m}
  /\ steady' = IF collecting THEN steady \ {m} ELSE steady
  /\ UNCHANGED <<listed, metrics, collecting>>

DiskNext ==
  \/ List \/ Finish
  \/ \E m \in MountPoints :
       PassOver(m) \/ Usage(m) \/ UsageFails(m) \/ Mount(m) \/ Unmount(m)

DiskSpec == DiskInit /\ [][DiskNext]_diskVars
=============================================================================
