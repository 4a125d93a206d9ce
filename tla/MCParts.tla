------------------------------ MODULE MCParts ------------------------------
(***************************************************************************)
(* The parts that a single caller uses and that share nothing, for TLC:    *)
(* the backoff, the disk collector, the battery collector, the stateless   *)
(* sensors, and SendRaw with its server.  A behaviour is that of one part. *)
(***************************************************************************)
EXTENDS BackoffUse, Config, DiskProps, BatteryProps, ReadingsProps,
        ServerProps

----------------------------------------------------------------------------
\* The backoff, and the configurations that give its limits

\* Every pair of limits the assumption allows, the max below the min included
MCLimits == (1 .. MaxDuration \div 2) \X (0 .. MaxDuration \div 2)

\* Config files with a number of each kind: negative, zero, small, large
MCFiles ==
  {NoConfig} \cup
  [DeviceID : Texts, ServerURL : URLs, APIKey : Texts,
   IntervalSeconds : -1 .. 20, JitterSeconds : -1 .. 20, BufferPath : Texts,
   BufferMaxSizeMB : {-1, 0, 1, MaxInt}]

\* The accepted ones give the backoff limits of the kind assumed of it, and
\* the instance of PartsProofs!AcceptedIsUsable holds.
ASSUME ConfigsGiveLimits ==
  /\ MaxInt = MaxDuration
  /\ \E file \in MCFiles : Load(file) # NoConfig
  /\ \A file \in MCFiles :
       Load(file) # NoConfig /\ Representable(file) =>
         LET c == Load(file) IN
           /\ <<Second, IntervalOf(c)>> \in MCLimits
           /\ IntervalOf(c) = file.IntervalSeconds * Second /\ IntervalOf(c) >= Second
           /\ JitterOf(c) = file.JitterSeconds * Second
           /\ IntervalOf(c) + JitterOf(c) <= MaxInt
           /\ MaxBytesOf(c) >= MB

----------------------------------------------------------------------------
\* The disk collector

\* A small alphabet: "-" stands for the characters that no name may have.
Chars     == {"a", "A", "d", "r", "o", "t", "_", "-"}
MCAllowed == Chars \ {"A", "-"}
MCLower   == [ch \in Chars |-> IF ch = "A" THEN "a" ELSE ch]

\* "/", "/root", "/a/d", "/a_d", "/ad", "/A-", "/t", and with /d excluded "/d/t", "/dt"
MCMountPoints ==
  {<< >>, << <<"r", "o", "o", "t">> >>, << <<"a">>, <<"d">> >>, << <<"a", "_", "d">> >>,
   << <<"a", "d">> >>, << <<"A", "-">> >>, << <<"t">> >>, << <<"d">>, <<"t">> >>, << <<"d", "t">> >>}
MCMountPrefixes == {<< <<"d">> >>}
MCVirtualOnes == {<< <<"t">> >>}

----------------------------------------------------------------------------
\* The stateless sensors

\* Sequences of S of lengths m to n
Seqs(S, m, n) == UNION {[1 .. k -> S] : k \in m .. n}

Attrs == [id : {5, 190, 194}, raw : {1, 2}]
Disks == [ran : BOOLEAN, status : {"passed", "failed", "untold"}, table : Seqs(Attrs, 0, 2)]
OneDisk(d) == ("sda" :> d) @@ ("sdb" :> [ran |-> TRUE, status |-> "untold", table |-> << >>])

Temps == [reading : BOOLEAN, celsius : {-5, 40}]
\* A limit comes after the reading, if there is one.
TempSeqs == {t \in Seqs(Temps, 0, 2) : Len(t) = 2 => ~t[2].reading}

MCSources ==
  [disk_smart |-> [ran : BOOLEAN, scan : Seqs({"none", "sda", "sdb"}, 0, 2),
                   disks : {OneDisk(d) : d \in Disks}],
   gpu |-> [ran : BOOLEAN, rows : {<<r, <<7, 7, 7, 7, 7>> >> : r \in Seqs({1, 2, Unread}, 0, 6)}],
   linux_temperature |-> [ran : BOOLEAN, lines : Seqs([cpu : BOOLEAN, temps : TempSeqs], 0, 2)],
   darwin_temperature |-> [ran : BOOLEAN, lines : Seqs([cpu : BOOLEAN, celsius : {40, 50, Unread}], 0, 2)],
   darwin_energy |-> [ran : BOOLEAN, lines :
                        Seqs([label : {"package", "combined", "other"}, unit : {"W", "mW"},
                              number : {5, Unread}], 0, 2)],
   cpu |-> [ran : BOOLEAN, cores : Seqs({0, 50, 100}, 0, 2), load : BOOLEAN],
   memory |-> [ran : BOOLEAN, swap : BOOLEAN]]

----------------------------------------------------------------------------
\* A request to be recorded, and one to be refused for each reason there is
Good    == [fail |-> FALSE, post |-> TRUE, bearer |-> TRUE, decodes |-> TRUE]
MCKinds == {Good, [Good EXCEPT !.fail = TRUE], [Good EXCEPT !.post = FALSE],
            [Good EXCEPT !.bearer = FALSE], [Good EXCEPT !.decodes = FALSE]}

----------------------------------------------------------------------------

VARIABLE part  \* which of them it is

\* A part that is not in use keeps one value, which is one it can have.
ASSUME IdleAssumption ==
  /\ MaxDuration >= 2 /\ 1 \in Levels /\ 2 \in Designs
  /\ [ran |-> TRUE, swap |-> TRUE] \in Sources["memory"]

BackoffIdle == b = NewBackoff(1, 1) /\ given = 1 /\ calls = 0
BatteryIdle ==
  /\ onDarwin = FALSE /\ battery = [level |-> 1, plugged |-> TRUE, state |-> "full"]
  /\ design = 2 /\ step = "idle" /\ report = NoReport /\ during = {} /\ unread = FALSE
ReadIdle == sensor = "memory" /\ source = [ran |-> TRUE, swap |-> TRUE] /\ result = NotYet

MCInit ==
  /\ DiskInit /\ ServerInit
  /\ \/ part = "backoff"  /\ Init        /\ BatteryIdle /\ ReadIdle
     \/ part \in {"disk", "server"} /\ BackoffIdle /\ BatteryIdle /\ ReadIdle
     \/ part = "battery"  /\ BackoffIdle /\ BatteryInit /\ ReadIdle
     \/ part = "readings" /\ BackoffIdle /\ BatteryIdle /\ ReadInit

\* Bounds: at most two volumes besides "/"; the battery changes at most twice
\* during a call.
MCNext ==
  \/ /\ part = "backoff" /\ (Next \/ Reset)
     /\ UNCHANGED <<diskVars, batteryVars, readVars, serverVars, part>>
  \/ /\ part = "disk" /\ DiskNext /\ Cardinality(mounted') <= 3
     /\ UNCHANGED <<vars, batteryVars, readVars, serverVars, part>>
  \/ /\ part = "battery" /\ BatteryNext /\ Cardinality(during') <= 3
     /\ UNCHANGED <<vars, diskVars, readVars, serverVars, part>>
  \/ /\ part = "readings" /\ ReadNext
     /\ UNCHANGED <<vars, diskVars, batteryVars, serverVars, part>>
  \/ /\ part = "server" /\ ServerNext
     /\ UNCHANGED <<vars, diskVars, batteryVars, readVars, part>>

\* The type invariant of whichever part it is
PartsTypeOK == TypeOK /\ DiskTypeOK /\ BatteryTypeOK /\ ReadTypeOK /\ ServerTypeOK

MCSpec == /\ MCInit
          /\ [][MCNext]_<<vars, diskVars, batteryVars, readVars, serverVars, part>>
          /\ ServerFairness
=============================================================================
