------------------------------- MODULE Config -------------------------------
(***************************************************************************)
(* The configuration, internal/config, as main.go uses it: a file is read,  *)
(* defaults are filled in, the whole is validated, and the numbers become   *)
(* the interval, the jitter and the cap that the agent and its buffer run   *)
(* with.  Numbers are 64 bits wide in the code and wrap around; of a text    *)
(* only what the code asks of it is kept.                                   *)
(***************************************************************************)
EXTENDS Integers

CONSTANTS
  MaxInt,  \* the largest integer, 2^63 - 1
  Second,  \* a second in nanoseconds
  MB       \* a megabyte in bytes

ASSUME ConfigAssumption ==
  /\ MaxInt \in Nat /\ Second \in Nat \ {0} /\ MB \in Nat \ {0}
  /\ 50 * MB <= MaxInt

Ints  == -(MaxInt + 1) .. MaxInt
Texts == {"", "given"}
URLs  == {"", "http", "other"}  \* "http": a valid http(s) URL with a host

\* What a file that can be read and parsed says; a field it leaves out is zero.
Configs ==
  [DeviceID : Texts, ServerURL : URLs, APIKey : Texts,
   IntervalSeconds : Ints, JitterSeconds : Ints,
   BufferPath : Texts \cup {"agent-buffer.db"}, BufferMaxSizeMB : Ints]

\* A file that cannot be read or parsed; the error that Load returns
NoConfig == [error |-> TRUE]

applyDefaults(c) ==
  [c EXCEPT !.BufferPath = IF @ = "" THEN "agent-buffer.db" ELSE @,
            !.BufferMaxSizeMB = IF @ = 0 THEN 50 ELSE @]

Validate(c) ==
  /\ c.DeviceID # "" /\ c.APIKey # "" /\ c.ServerURL = "http"
  /\ c.IntervalSeconds > 0 /\ c.JitterSeconds >= 0 /\ c.BufferMaxSizeMB >= 0

\* An error of Load's ends the process.
Load(file) ==
  IF file # NoConfig /\ Validate(applyDefaults(file)) THEN applyDefaults(file) ELSE NoConfig

----------------------------------------------------------------------------
\* What main makes of an accepted configuration

Wrapped(n) == ((n + MaxInt + 1) % (2 * (MaxInt + 1))) - (MaxInt + 1)

IntervalOf(c) == Wrapped(c.IntervalSeconds * Second)
JitterOf(c)   == Wrapped(c.JitterSeconds * Second)
MaxBytesOf(c) == Wrapped(c.BufferMaxSizeMB * MB)

\* The numbers of the file fit their types with room for a doubled interval
\* and for the jitter on top of it; nothing in the code checks it.
Representable(file) ==
  /\ 2 * (file.IntervalSeconds * Second) <= MaxInt
  /\ 2 * (file.JitterSeconds * Second) <= MaxInt
  /\ file.BufferMaxSizeMB * MB <= MaxInt
=============================================================================
