---------------------------- MODULE ReadingsProps ----------------------------
(***************************************************************************)
(* What the metrics of the stateless sensors say of their sources.         *)
(***************************************************************************)
EXTENDS Readings

\* Among others: a text that is not a number, such as nvidia-smi's [N/A], does
\* not become one (gpu.go:59-81 and the other ParseFloat calls).
ReadTypeOK ==
  /\ result.outcome \in {"none", "metrics", "nodata", "error"}
  /\ result.outcome # "metrics" => result.metrics = << >>
  /\ sensor \in {"gpu", "linux_temperature", "darwin_temperature", "darwin_energy"} =>
       Unread \notin ToSet(result.metrics)

Told(s) == sensor = s /\ result.outcome = "metrics"

\* The places of the device that the scan names first
FirstDevices ==
  {i \in DOMAIN source.scan :
     source.scan[i] # "none" /\ \A j \in 1 .. i - 1 : source.scan[j] = "none"}

\* disk_smart.go:73-76 (a health that is not told is false): the health and the
\* temperature are those of one disk, the first that the scan names; a health of 1
\* is that of a disk that passed its check, and a health of 0 that of any other.
SmartTold ==
  Told("disk_smart") =>
    \E i \in FirstDevices :
      LET disk == source.disks[source.scan[i]]
          last(id) == {k \in DOMAIN disk.table :
                         disk.table[k].id = id /\ \A l \in DOMAIN disk.table :
                                                   disk.table[l].id = id => l <= k}
      IN
      /\ result.metrics["health_passed"] = IF disk.status = "passed" THEN 1 ELSE 0
      /\ \A k \in IF last(194) # {} THEN last(194) ELSE last(190) :
           result.metrics["temperature_celsius"] = disk.table[k].raw

\* disk_smart_test.go:55-63 (the health of a failing disk is 0): a disk that failed
\* its check is told as such, whenever smartctl exits with 0 for it.
FailedDiskTold ==
  sensor = "disk_smart" /\ result # NotYet /\ source.ran =>
    \A i \in FirstDevices :
      LET disk == source.disks[source.scan[i]] IN
      disk.ran /\ disk.status = "failed" =>
        result.outcome = "metrics" /\ result.metrics["health_passed"] = 0

\* temperature_linux.go:25-27 (a line of the CPU's is preferred): the temperature
\* is on the first line of the CPU's with any, or on the first with any if none
\* is the CPU's; it is what the sensor reads.  Left open: what is told of a reading
\* below zero, whose sign tempRe does not match, and of a sensor that reads nothing.
TemperatureTold ==
  Told("linux_temperature") =>
    \E i \in DOMAIN source.lines :
      LET line == source.lines[i] IN
      /\ HasTemp(line)
      /\ line.cpu \/ ~\E j \in DOMAIN source.lines : CpuTemp(source.lines[j])
      /\ \A j \in 1 .. i - 1 : HasTemp(source.lines[j]) => line.cpu /\ ~source.lines[j].cpu
      /\ \A t \in ToSet(line.temps) :
           t.reading /\ t.celsius >= 0 => result.metrics[1] = t.celsius

\* energy_darwin.go:29-31 (watts on Intel, milliwatts on Apple silicon): a power
\* that is reported is the one on the first line with a label, in that line's
\* own unit, whichever the label is.
PowerInWatts ==
  Told("darwin_energy") =>
    \E i \in DOMAIN source.lines :
      LET line == source.lines[i] IN
      /\ line.label # "other" /\ \A j \in 1 .. i - 1 : source.lines[j].label = "other"
      /\ line.number # Unread
      /\ result.metrics[1] = IF line.unit = "W" THEN 1000 * line.number ELSE line.number

\* cpu.go:52-53, memory.go:32 (omit rather than fail), and the "never a failure" of
\* gpu.go, temperature.go, energy.go and disk_smart.go: Collect fails only
\* for the usage of the CPU or of the memory, which costs just its own metrics.
FailsForUsageOnly ==
  result.outcome = "error" =>
    sensor \in {"cpu", "memory"} /\ (~source.ran \/ (sensor = "cpu" /\ source.cores = << >>))

\* disk_smart.go, temperature_linux.go, energy_darwin.go, cpu.go, memory.go: what
\* is told is told of the thing that its name says, in its unit.
ReadingsTold ==
  SmartTold /\ FailedDiskTold /\ TemperatureTold /\ PowerInWatts /\ FailsForUsageOnly
=============================================================================
