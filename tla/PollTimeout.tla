---------------------------- MODULE PollTimeout ----------------------------
(***************************************************************************)
(* poll_(): the poll system call with its timeout, called again with the   *)
(* time that remains after each EINTR.  The clock ticks Tick times in a    *)
(* millisecond, the unit of poll's timeout and of remaining_duration.      *)
(* A thread runs again, or sees a signal, at most Late ticks after the     *)
(* timeout of the system call is over.  Nothing bounds the signals.        *)
(***************************************************************************)
EXTENDS Integers

CONSTANTS
  Durations,      \* the timeouts poll_ is called with; -1 is no timeout
  Tick,           \* clock ticks in a millisecond
  Late,           \* bound: ticks by which the kernel wakes the thread too late
  MaxInterrupts,  \* bound: where the count of signals stops (the signals do not)
  Horizon         \* bound: where the measured times stop (the clock does not)

ASSUME TickAssumption == Tick \in Nat \ {0}
ASSUME DurationsAssumption == Durations \subseteq {-1} \cup Nat
ASSUME BoundsAssumption ==
  /\ MaxInterrupts \in Nat /\ Horizon \in Nat /\ Late \in Nat
  /\ \A d \in Durations : d * Tick <= Horizon

VARIABLES
  pc,             \* "idle", "poll" while in the system call, "done"
  asked,          \* the duration poll_ was called with
  duration,       \* its variable of that name
  elapsed,        \* clock::now() - start; with a timeout start is also when the
                  \* current system call began
  waited,         \* history: the time since the call of poll_
  interrupts,     \* history: the number of EINTRs so far
  outcome         \* how poll_ ended

pollVars == <<pc, asked, duration, elapsed, waited, interrupts, outcome>>

\* The clock and the durations are integers, and poll's timeout is -1 or more.
PollTypeOK ==
  /\ pc \in {"idle", "poll", "done"}
  /\ asked \in Durations \cup {-1} /\ duration \in {-1} \cup Nat
  /\ elapsed \in Nat /\ waited \in 0 .. Horizon
  /\ interrupts \in 0 .. MaxInterrupts
  /\ outcome \in {"none", "timeout", "events", "throw"}

PollInit ==
  /\ pc = "idle"
  /\ asked = -1 /\ duration = -1
  /\ elapsed = 0 /\ waited = 0
  /\ interrupts = 0 /\ outcome = "none"

\* wait_for calls poll_, which sets start and enters the system call.
EnterPoll(d) ==
  /\ pc # "poll"
  /\ pc' = "poll"
  /\ asked' = d /\ duration' = d
  /\ elapsed' = 0 /\ waited' = 0
  /\ interrupts' = 0 /\ outcome' = "none"

Deadline == duration * Tick

\* One more, up to the bound.
CountTo(n, bound) == IF n < bound THEN n + 1 ELSE n

Advance ==
  /\ pc = "poll"
  /\ IF duration = -1
       THEN elapsed' = CountTo(elapsed, Horizon)
       ELSE elapsed < Deadline + Late /\ elapsed' = elapsed + 1
  /\ waited' = CountTo(waited, Horizon)
  /\ UNCHANGED <<pc, asked, duration, interrupts, outcome>>

\* Plausible mistakes in remaining_duration: no lower bound, rounding up the time
\* that went by, and not subtracting it.
RemainingUnbounded(d, since) == d - (since \div Tick)
RemainingRoundedUp(d, since) ==
  LET left == d - ((since + Tick - 1) \div Tick) IN IF left < 0 THEN 0 ELSE left
RemainingUnchanged(d, since) == d

\* remaining_duration(): the whole milliseconds since start are subtracted.
Remaining(d, since) ==
  LET left == d - (since \div Tick) IN IF left < 0 THEN 0 ELSE left

\* EINTR.  start becomes now, which drops the rest of the last millisecond.
Interrupted ==
  /\ pc = "poll"
  /\ interrupts' = CountTo(interrupts, MaxInterrupts)
  /\ IF duration > -1
       THEN duration' = Remaining(duration, elapsed) /\ elapsed' = 0
       ELSE UNCHANGED <<duration, elapsed>>
  /\ UNCHANGED <<pc, asked, waited, outcome>>

End(how) == /\ pc = "poll"
            /\ pc' = "done" /\ outcome' = how
            /\ UNCHANGED <<asked, duration, elapsed, waited, interrupts>>

Expire == duration > -1 /\ elapsed >= Deadline /\ End("timeout")
HasEvents == End("events")
PollFails == End("throw")

PollNext == \/ \E d \in Durations : EnterPoll(d)
            \/ Advance \/ Interrupted \/ Expire \/ HasEvents \/ PollFails

\* The clock runs, and poll() returns when its timeout is over.
PollFairness == WF_pollVars(Advance) /\ WF_pollVars(Expire)

PollSpec == PollInit /\ [][PollNext]_pollVars /\ PollFairness

-----------------------------------------------------------------------------
\* A timeout is never reported before the caller's interval is over, however the
\* interval is cut by signals: what remaining_duration returns is never too short.
NotEarly == outcome = "timeout" => waited >= asked * Tick

\* What one signal can add: the part of a millisecond that the truncation in
\* remaining_duration drops, or the lateness that its lower bound forgives.
Slack == IF Late < Tick THEN Tick - 1 ELSE Late

\* Each of the signals that cut the wait (those that are counted) lengthens it by
\* the slack and no more.
BoundedOvershoot ==
  asked > -1 /\ interrupts < MaxInterrupts =>
    waited <= asked * Tick + interrupts * Slack + Late

\* A wait with a timeout that never ends is one whose signals come, from some time
\* on, less than a millisecond apart: whenever a whole millisecond goes by between
\* two of them, remaining_duration makes the rest of the wait shorter.
OnlyDenseSignalsDelay ==
  <>[](pc = "poll" /\ asked > -1) => <>[](elapsed < Tick)

\* A wait with a timeout ends: the interval given to wait_for is the maximum time
\* to wait.
FiniteWaitEnds == (pc = "poll" /\ asked > -1) ~> (pc = "done")

=============================================================================
