------------------------------- MODULE Readings -------------------------------
(***************************************************************************)
(* The sensors that keep no state between two calls: disk_smart.go, gpu.go, *)
(* temperature*.go, energy_darwin.go, cpu.go and memory.go of              *)
(* internal/collector.  Collect turns what a command or a library tells     *)
(* into metrics, in one step: nothing it depends on changes meanwhile.      *)
(* Lines of text are reduced to what the parsers look for.                  *)
(***************************************************************************)
EXTENDS Integers, SequencesExt

CONSTANT
  Sources  \* Sources[s]: what sensor s may be told

Unread == -1  \* where there should be a number and is none

\* What smartctl tells of a disk, with whatever status it exits
IsDisk(disk) ==
  /\ disk.ran \in BOOLEAN /\ disk.status \in {"passed", "failed", "untold"}
  /\ disk.table \in Seq([id : Nat, raw : Int])

\* A line of sensors' output: a limit comes after the reading, if there is one.
IsLine(line) ==
  /\ line.cpu \in BOOLEAN /\ line.temps \in Seq([reading : BOOLEAN, celsius : Int])
  /\ \A k \in DOMAIN line.temps : line.temps[k].reading => k = 1

ASSUME SourcesAssumption ==
  /\ DOMAIN Sources = {"disk_smart", "gpu", "linux_temperature", "darwin_temperature",
                       "darwin_energy", "cpu", "memory"}
  /\ \A src \in Sources["disk_smart"] :
       /\ src.scan \in Seq(DOMAIN src.disks \cup {"none"})
       /\ \A d \in DOMAIN src.disks : IsDisk(src.disks[d])
  /\ \A src \in Sources["gpu"] : src.rows \in Seq(Seq(Int)) \ {<< >>}
  /\ \A src \in Sources["linux_temperature"] :
       /\ src.lines \in Seq(ToSet(src.lines))
       /\ \A line \in ToSet(src.lines) : IsLine(line)
  /\ \A src \in Sources["darwin_temperature"] :
       src.lines \in Seq([cpu : BOOLEAN, celsius : Int])
  /\ \A src \in Sources["darwin_energy"] :
       src.lines \in Seq([label : {"package", "combined", "other"}, unit : {"W", "mW"},
                          number : Nat \cup {Unread}])

Metrics(m) == [outcome |-> "metrics", metrics |-> m]
NoData     == [outcome |-> "nodata", metrics |-> << >>]
Failure    == [outcome |-> "error", metrics |-> << >>]
NotYet     == [outcome |-> "none", metrics |-> << >>]

VARIABLES
  sensor,  \* whose Collect is called
  source,  \* what it is told; where ran is FALSE, a command is missing, exits
           \* with another status than 0, or is killed at the deadline
  result   \* what Collect returns: the outcome, and the metrics by name

readVars == <<sensor, source, result>>

\* The first of a sequence to pass a test, and whether there is one
First(s, Test(_)) == s[SelectInSeq(s, Test)]
Some(s, Test(_))  == SelectInSeq(s, Test) # 0

----------------------------------------------------------------------------
\* disk_smart.go.  Attribute 5 stands for the five that are reported alike.

IsDevice(token) == token # "none"

\* The last occurrence of an attribute counts.
ByID(table, id) == table[SelectLastInSeq(table, LAMBDA attr : attr.id = id)].raw

\* smart_status.passed, which is false when there is no such key
ParseSmartctlJSON(disk) ==
  LET ids    == {disk.table[i].id : i \in DOMAIN disk.table}
      warmth == IF 194 \in ids THEN 194 ELSE 190
      names  == {"health_passed"} \cup (IF 5 \in ids THEN {"reallocated_sectors"} ELSE {})
                  \cup (IF warmth \in ids THEN {"temperature_celsius"} ELSE {})
  IN  [name \in names |->
         CASE name = "health_passed" -> (IF disk.status = "passed" THEN 1 ELSE 0)
           [] name = "reallocated_sectors" -> ByID(disk.table, 5)
           [] name = "temperature_celsius" -> ByID(disk.table, warmth)]

\* The scan, then the first device that it names
Smart(src) ==
  IF src.ran /\ Some(src.scan, IsDevice) /\ src.disks[First(src.scan, IsDevice)].ran
  THEN Metrics(ParseSmartctlJSON(src.disks[First(src.scan, IsDevice)])) ELSE NoData

----------------------------------------------------------------------------
\* gpu.go: a row for each GPU, a column for each of the five metrics

Gpu(src) ==
  IF src.ran /\ Len(src.rows[1]) >= 5 /\ \A i \in 1 .. 5 : src.rows[1][i] # Unread
  THEN Metrics(SubSeq(src.rows[1], 1, 5)) ELSE NoData

----------------------------------------------------------------------------
\* temperature_linux.go: a line has a label and any number of temperatures, of
\* which tempRe matches the first, without its sign.

HasTemp(line) == line.temps # << >>
CpuTemp(line) == HasTemp(line) /\ line.cpu
TempOf(line)  == LET c == line.temps[1].celsius IN IF c < 0 THEN -c ELSE c

LinuxTemp(src) ==
  IF ~src.ran \/ ~Some(src.lines, HasTemp) THEN NoData
  ELSE Metrics(<<TempOf(IF Some(src.lines, CpuTemp) THEN First(src.lines, CpuTemp)
                        ELSE First(src.lines, HasTemp))>>)

\* temperature_darwin.go: the first CPU line with a number
DarwinTemp(src) ==
  LET Numbered(line) == line.cpu /\ line.celsius # Unread IN
    IF ~src.ran \/ ~Some(src.lines, Numbered) THEN NoData
    ELSE Metrics(<<First(src.lines, Numbered).celsius>>)

----------------------------------------------------------------------------
\* energy_darwin.go, in milliwatts

\* Mutant: the W of "mW" is taken for the unit, and the m passed over.
WattsFromLineAnyW(line, unit) ==
  IF line.number = Unread THEN Unread
  ELSE IF unit = "W" THEN 1000 * line.number
  ELSE IF line.unit = "mW" THEN line.number ELSE Unread

\* The number right before the unit: before the W of "mW" there is none.
WattsFromLine(line, unit) ==
  IF line.number = Unread \/ line.unit # unit THEN Unread
  ELSE IF unit = "W" THEN 1000 * line.number ELSE line.number

\* The first line with either label decides.
DarwinPower(src) ==
  LET Labelled(line) == line.label \in {"package", "combined"}
      line  == First(src.lines, Labelled)
      power == WattsFromLine(line, IF line.label = "package" THEN "W" ELSE "mW")
  IN  IF ~src.ran \/ ~Some(src.lines, Labelled) THEN NoData
      ELSE IF power = Unread THEN NoData ELSE Metrics(<<power>>)

----------------------------------------------------------------------------
\* cpu.go, with the average as total and number; memory.go

Cpu(src) ==
  IF ~src.ran \/ src.cores = << >> THEN Failure
  ELSE Metrics([total |-> FoldLeft(+, 0, src.cores), cores |-> Len(src.cores),
                load |-> src.load])

Memory(src) == IF src.ran THEN Metrics([swap |-> src.swap]) ELSE Failure

----------------------------------------------------------------------------

ReadInit ==
  /\ sensor \in DOMAIN Sources /\ source \in Sources[sensor]
  /\ result = NotYet

Collect(s, r) ==
  /\ sensor = s /\ result = NotYet /\ result' = r
  /\ UNCHANGED <<sensor, source>>

ReadNext ==
  \/ Collect("disk_smart", Smart(source)) \/ Collect("gpu", Gpu(source))
  \/ Collect("linux_temperature", LinuxTemp(source))
  \/ Collect("darwin_temperature", DarwinTemp(source))
  \/ Collect("darwin_energy", DarwinPower(source))
  \/ Collect("cpu", Cpu(source)) \/ Collect("memory", Memory(source))

ReadSpec == ReadInit /\ [][ReadNext]_readVars
=============================================================================
