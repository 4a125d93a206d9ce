----------------------------- MODULE BatteryProps -----------------------------
(***************************************************************************)
(* What the battery collector's metrics say of the battery.                *)
(***************************************************************************)
EXTENDS Battery

\* Among others: the health is over a design capacity that is not zero
\* (battery_linux.go:43, battery_darwin.go:97), which no JSON could hold.
BatteryTypeOK ==
  /\ onDarwin \in BOOLEAN /\ battery \in Batteries /\ design \in Designs
  /\ step \in {"idle", "capacity", "status", "pmset", "health"}
  /\ report.percent \in Levels \cup {None}
  /\ report.charging \in {0, 1, None} /\ report.pluggedIn \in {0, 1, None}
  /\ report.healthOver \in (Designs \ {0}) \cup {None}
  /\ during \subseteq Batteries /\ unread \in BOOLEAN

\* battery_linux.go:50-58 and battery_darwin.go:62-76 (three words that contain
\* one another): power is not made up.  When Collect says that the battery is
\* plugged in, or charging, it was so at some moment of the call, except that
\* on macOS a battery that is plugged in and "not charging" is said to charge.
PowerNotInvented ==
  /\ report.pluggedIn = 1 => \E b \in during : b.plugged
  /\ report.charging = 1 =>
       /\ report.pluggedIn = 1
       /\ \E b \in during :
            b.state = "charging" \/ (onDarwin /\ b.plugged /\ b.state = "not charging")

\* battery_linux.go:30 (an unreadable status is taken for one that says
\* nothing): power is not denied.  When Collect says that the battery is not
\* plugged in, or does not charge, it was so at some moment of the call, unless
\* on Linux its status could not be read, or said neither charging nor full.
PowerNotDenied ==
  /\ report.charging = 0 => unread \/ \E b \in during : b.state # "charging"
  /\ report.pluggedIn = 0 =>
       \/ unread
       \/ \E b \in during : ~b.plugged \/ (~onDarwin /\ b.state \notin {"charging", "full"})

\* battery_darwin.go:23-29 (one text for both): the level is the battery's at
\* some moment of the call, and on macOS the state that is told with it is of
\* that same moment.
LevelTold ==
  report.percent # None =>
    \E b \in during :
      /\ b.level = report.percent
      /\ onDarwin => /\ b.plugged <=> report.pluggedIn = 1
                     /\ b.state = "charging" => report.charging = 1

\* battery_linux.go and battery_darwin.go: what Collect tells of a battery that
\* changes meanwhile.
BatteryTold == PowerNotInvented /\ PowerNotDenied /\ LevelTold
=============================================================================
