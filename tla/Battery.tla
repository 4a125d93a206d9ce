------------------------------- MODULE Battery -------------------------------
(***************************************************************************)
(* The battery collector, internal/collector/battery.go with               *)
(* battery_linux.go and battery_darwin.go: Collect reads one file or runs   *)
(* one command after the other, and the battery goes on meanwhile.  Of the  *)
(* two optional metrics only the health is modelled, and of that only what *)
(* it is divided by; the cycle count is read like it.                       *)
(***************************************************************************)
EXTENDS Integers

CONSTANTS
  Levels,   \* charge levels
  Designs   \* design capacities that may be reported, 0 among them

ASSUME BatteryAssumption == Levels \subseteq Nat /\ Designs \subseteq Nat

\* What the battery may be doing; on a charger that is too weak it discharges.
States    == {"charging", "discharging", "full", "not charging", "finishing", "unknown"}
Batteries == {b \in [level : Levels, plugged : BOOLEAN, state : States] :
                b.plugged \/ b.state \in {"discharging", "unknown"}}

None == -1
NoReport ==
  [percent |-> None, charging |-> None, pluggedIn |-> None, healthOver |-> None]

VARIABLES
  onDarwin,  \* which of the two files is compiled in
  battery,   \* what the battery is doing
  design,    \* its design capacity
  step,      \* how far Collect has come; "idle" when it is not in progress
  report,    \* its metrics so far; NoReport also stands for ErrNoData
  during,    \* history: the states of the battery since it was called
  unread     \* history: the status file could not be read

batteryVars == <<onDarwin, battery, design, step, report, during, unread>>

----------------------------------------------------------------------------
\* batteryState

\* Only "Charging" contains "Charg", with the capital letter.
LinuxState(status) ==
  IF status = "charging" THEN <<1, 1>>
  ELSE IF status = "full" THEN <<0, 1>> ELSE <<0, 0>>

\* The words that the code looks for, of those in pmset's text
Words(b) ==
  (IF b.plugged THEN {"ac power"} ELSE {}) \cup
  CASE b.state = "discharging" -> {"discharging", "charging"}
    [] b.state \in {"charging", "not charging"} -> {"charging"}
    [] b.state = "full" -> {"charged"}
    [] OTHER -> {}

\* Mutant: "charging" is looked for first.
DarwinStateSwapped(words) ==
  LET ac == IF "ac power" \in words THEN 1 ELSE 0 IN
    IF "charging" \in words THEN <<1, 1>>
    ELSE IF words \cap {"charged", "full"} # {} THEN <<0, 1>> ELSE <<0, ac>>

DarwinState(words) ==
  LET ac == IF "ac power" \in words THEN 1 ELSE 0 IN
    IF "discharging" \in words THEN <<0, ac>>
    ELSE IF "charging" \in words THEN <<1, 1>>
    ELSE IF words \cap {"charged", "full"} # {} THEN <<0, 1>> ELSE <<0, ac>>

----------------------------------------------------------------------------
\* Collect

BatteryInit ==
  /\ onDarwin \in BOOLEAN /\ battery \in Batteries /\ design \in Designs
  /\ step = "idle" /\ report = NoReport /\ during = {} /\ unread = FALSE

Begin ==
  /\ step = "idle"
  /\ step' = IF onDarwin THEN "pmset" ELSE "capacity"
  /\ report' = NoReport /\ during' = {battery} /\ unread' = FALSE
  /\ UNCHANGED <<onDarwin, battery, design>>

Reports(here, there, r) ==
  /\ step = here /\ step' = there /\ report' = r
  /\ UNCHANGED <<onDarwin, battery, design, during>>

\* No battery, no tool, or no number where the level should be: ErrNoData
Unavailable ==
  /\ step \in {"capacity", "pmset"}
  /\ Reports(step, "idle", NoReport) /\ UNCHANGED unread

ReadCapacity ==
  /\ Reports("capacity", "status", [report EXCEPT !.percent = battery.level])
  /\ UNCHANGED unread

\* A status that cannot be read is the empty string.
ReadStatus(readable) ==
  LET told == LinuxState(IF readable THEN battery.state ELSE "") IN
    /\ Reports("status", "health", [report EXCEPT !.charging = told[1], !.pluggedIn = told[2]])
    /\ unread' = ~readable

\* pmset's output is of one moment.
RunPmset ==
  LET told == DarwinState(Words(battery)) IN
    /\ Reports("pmset", "health", [report EXCEPT !.percent = battery.level,
                                     !.charging = told[1], !.pluggedIn = told[2]])
    /\ UNCHANGED unread

\* Mutant: the design capacity is not looked at.
HealthUnguarded ==
  /\ Reports("health", "idle", [report EXCEPT !.healthOver = design])
  /\ UNCHANGED unread

\* The two capacities, from two files or from ioreg's output
Health ==
  /\ design > 0
  /\ Reports("health", "idle", [report EXCEPT !.healthOver = design])
  /\ UNCHANGED unread

\* Either cannot be read, or the design capacity is not positive.
NoHealth ==
  /\ Reports("health", "idle", report) /\ UNCHANGED unread

BatteryChanges ==
  /\ battery' \in Batteries
  /\ during' = IF step = "idle" THEN during ELSE during \cup {battery'}
  /\ UNCHANGED <<onDarwin, design, step, report, unread>>

BatteryNext ==
  \/ Begin \/ Unavailable \/ ReadCapacity \/ (\E readable \in BOOLEAN : ReadStatus(readable))
  \/ RunPmset \/ Health \/ NoHealth
  \/ BatteryChanges

BatterySpec == BatteryInit /\ [][BatteryNext]_batteryVars
=============================================================================
