------------------------------ MODULE Governor ------------------------------
(***************************************************************************)
(* The pacing of background merges (src/store/governor.rs) by the task     *)
(* that prepares them (src/daemon/actor.rs, start_merge): before each      *)
(* group of its plan it waits until the bytes it is about to read may be   *)
(* read, and after each it idles in proportion to the time it worked.      *)
(*                                                                         *)
(* Time is counted in ticks, a tick lets RATE bytes through.  A sleep      *)
(* lasts as long as was asked for, or longer.                              *)
(***************************************************************************)
EXTENDS Integers, Sequences

CONSTANTS CAPACITY,          \* bytes of a burst (a second's worth in the code)
          RATE,              \* bytes a tick lets through
          WORK, IDLE,        \* the duty cycle: IDLE ticks of rest for WORK of work
          POWER_BACKOFF,     \* the wait while a power signal is active
          MEMORY_PRESSURE_PERCENT,
          NoMeminfo,         \* a meminfo that cannot be read
          Reading,           \* what the system may say of its batteries and memory
          Plan,              \* the bytes of each group, for each plan there may be
          MaxTime            \* bound: ticks

\* What TokenBucket::new and DutyCycle::new see to, whatever is configured: no
\* burst, rate or share of work is nothing.
Sensible ==
    /\ {CAPACITY, RATE, WORK} \subseteq Nat \ {0}
    /\ {IDLE, POWER_BACKOFF} \subseteq Nat
    /\ Plan \subseteq Seq(Nat)

VARIABLES now,      \* the clock
          power,    \* the reading: power supplies, by name and status, and meminfo
          bucket,   \* TokenBucket: its tokens, and last_ms
          groups,   \* the groups that are not yet prepared
          phase,    \* what the task does
          until,    \* when its sleep, or the work it does, may end or began
          read,     \* history: bytes of the groups whose preparation began
          free,     \* history: bytes let through without asking the bucket
          worked,   \* history: ticks the task has worked
          done      \* history: groups it has prepared

paced == <<read, free, worked, done>>
vars == <<now, power, bucket, groups, phase, until, paced>>

Least(m, n) == IF m <= n THEN m ELSE n

\* Governor::new, as the task starts.
Init == /\ now = 0 /\ power \in Reading
        /\ bucket = [tokens |-> CAPACITY, last |-> 0]
        /\ groups \in Plan
        /\ phase = "planned" /\ until = 0
        /\ read = 0 /\ free = 0 /\ worked = 0 /\ done = 0

-----------------------------------------------------------------------------
(* TokenBucket and DutyCycle.                                               *)

refill(b, t) == [tokens |-> Least(b.tokens + (t - b.last) * RATE, CAPACITY), last |-> t]

\* What is left, and how long to wait for what is missing.
spend(b, t, bytes) ==
    LET full == refill(b, t)
        deficit == bytes - full.tokens
    IN  IF deficit <= 0
        THEN [bucket |-> [full EXCEPT !.tokens = @ - bytes], wait |-> 0]
        ELSE [bucket |-> [full EXCEPT !.tokens = 0], wait |-> (deficit + RATE - 1) \div RATE]

\* Rounded to the nearest tick.
idle_after(spent) == (2 * spent * IDLE + WORK) \div (2 * WORK)

-----------------------------------------------------------------------------
(* RealPowerSource (of Linux): what cannot be read is no signal.            *)

on_battery(supplies) ==
    \E supply \in supplies : supply.name = "BAT" /\ supply.status = "discharging"

memory_pressure(meminfo) ==
    /\ meminfo # NoMeminfo
    /\ meminfo.total > 0
    /\ LET used == meminfo.total - Least(meminfo.available, meminfo.total)
       IN  (used * 100) \div meminfo.total >= MEMORY_PRESSURE_PERCENT

-----------------------------------------------------------------------------
(* The task.                                                                *)

Throttle ==
    /\ phase = "planned" /\ groups # <<>>
    /\ IF on_battery(power.supplies) \/ memory_pressure(power.meminfo)
       THEN /\ until' = now + POWER_BACKOFF
            /\ free' = free + Head(groups)
            /\ UNCHANGED bucket
       ELSE LET spent == spend(bucket, now, Head(groups))
            IN  bucket' = spent.bucket /\ until' = now + spent.wait /\ UNCHANGED free
    /\ phase' = "waiting"
    /\ UNCHANGED <<now, power, groups, read, worked, done>>

BeginWork ==
    /\ phase = "waiting" /\ now >= until
    /\ phase' = "working" /\ until' = now
    /\ read' = read + Head(groups)
    /\ UNCHANGED <<now, power, bucket, groups, free, worked, done>>

\* The preparation, until now since it began, is over.
Worked ==
    /\ phase = "working"
    /\ worked' = worked + now - until
    /\ UNCHANGED <<now, power, bucket, read, free>>

EndWork ==
    /\ Worked
    /\ phase' = "resting" /\ until' = now + idle_after(now - until)
    /\ groups' = Tail(groups)
    /\ done' = done + 1

\* prepare_merge fails: the task discards what it has and gives up.
PrepareFails ==
    /\ Worked
    /\ phase' = "planned" /\ groups' = <<>>
    /\ UNCHANGED <<until, done>>

GoOn ==
    /\ phase = "resting" /\ now >= until
    /\ phase' = "planned"
    /\ UNCHANGED <<now, power, bucket, groups, until, paced>>

Tick == /\ now < MaxTime
        /\ now' = now + 1
        /\ UNCHANGED <<power, bucket, groups, phase, until, paced>>

PowerChanges == /\ power' \in Reading \ {power}
                /\ UNCHANGED <<now, bucket, groups, phase, until, paced>>

Next == Throttle \/ BeginWork \/ EndWork \/ PrepareFails \/ GoOn \/ Tick \/ PowerChanges

Spec == Init /\ [][Next]_vars

-----------------------------------------------------------------------------
\* The type of each variable.
TypeOK ==
    /\ now \in Nat /\ until \in Nat
    /\ power \in Reading
    /\ bucket \in [tokens : 0 .. CAPACITY, last : Nat]
    /\ groups \in Seq(Nat)
    /\ phase \in {"planned", "waiting", "working", "resting"}
    /\ {read, free, worked, done} \subseteq Nat

(* The bytes that are read stay below the burst and what the rate allows    *)
(* since the start ("a byte-rate cap on background IO, so a large merge     *)
(* doesn't saturate disk bandwidth", governor.rs:9).                        *)
ByteRateCapped == read <= CAPACITY + RATE * now

(* What holds instead: of the bytes that the bucket was asked for, no more  *)
(* are read than the burst and twice what the rate allows, over whatever    *)
(* groups and waits: a wait that was asked for is refilled, but only once   *)
(* (governor.rs, TokenBucket::spend).  What is let through while a power    *)
(* signal is active is not counted at all (Governor::throttle).             *)
TwiceTheRate == read - free <= CAPACITY + 2 * RATE * now

(* Whenever another group is due, the task has rested IDLE ticks for WORK   *)
(* of work, over all the groups so far and to half a tick for each, which   *)
(* rounding may cost ("a hard cap on indexer/merge CPU", governor.rs:10;    *)
(* DutyCycle::idle_after).                                                  *)
DutyCycleKept ==
    phase \in {"planned", "waiting"} /\ groups # <<>> =>
        2 * IDLE * worked <= 2 * WORK * (now - worked) + WORK * done
=============================================================================
