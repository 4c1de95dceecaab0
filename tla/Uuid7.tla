-------------------------------- MODULE Uuid7 --------------------------------
(***************************************************************************)
(* The process-wide generator behind the uuid7 strategies: threads that    *)
(* each read the system clock, then take a lock to turn what they read     *)
(* into the next (millisecond, counter) pair.  The clock may stand still,  *)
(* jump and run backwards.  An id is its pair: the two fields have fixed   *)
(* widths and come first, so ids sort as their pairs do, and the random    *)
(* tail never decides.                                                     *)
(***************************************************************************)
EXTENDS Integers

CONSTANTS
  Thread,
  Nobody,      \* holds the lock when no thread does
  CounterMax,  \* _COUNTER_MAX, 4095
  SeedMask,    \* _COUNTER_SEED_MASK, 2047
  MaxMs        \* bound: no call starts once the timestamp is past it

ASSUME Uuid7Assumption ==
  /\ Nobody \notin Thread
  /\ CounterMax \in Nat /\ SeedMask \in 0..CounterMax
  /\ MaxMs \in Nat

VARIABLES
  clock,   \* what the system clock reads, in milliseconds
  lastMs,  \* _last_ms
  counter, \* _counter
  lock,    \* the thread inside "with _lock"
  at,      \* at[t]: where thread t is
  now,     \* now[t]: the clock as thread t read it
  pair,    \* pair[t]: what the last call of thread t returns
  given,   \* history: the pair issued last, by any thread
  newest,  \* history: the greatest pair a finished call has returned
  floor    \* history, floor[t]: newest as it was when thread t's call began

globals == <<lastMs, counter, lock>>
history == <<given, newest, floor>>
vars    == <<clock, globals, at, now, pair, history>>

Point == {"idle", "clock", "acquire", "test", "seed", "zero", "release", "return"}

Pair == (Nat \cup {-1}) \X Nat

\* How ids compare.
Below(x, y) == x[1] < y[1] \/ (x[1] = y[1] /\ x[2] < y[2])
UpTo(x, y)  == x = y \/ Below(x, y)

Init ==
  /\ clock \in 0..MaxMs
  /\ lastMs = -1 /\ counter = 0 /\ lock = Nobody
  /\ at     = [t \in Thread |-> "idle"]
  /\ now    = [t \in Thread |-> 0]
  /\ given  = <<-1, 0>> /\ newest = given
  /\ pair   = [t \in Thread |-> given]
  /\ floor  = pair

Go(t, from, to) == at[t] = from /\ at' = [at EXCEPT ![t] = to]

\* The system clock is set, either way.
Tick ==
  /\ clock' \in 0..MaxMs
  /\ UNCHANGED <<globals, at, now, pair, history>>

-----------------------------------------------------------------------------
Call(t) ==
  /\ lastMs <= MaxMs
  /\ Go(t, "idle", "clock")
  /\ floor' = [floor EXCEPT ![t] = newest]
  /\ UNCHANGED <<clock, globals, now, pair, given, newest>>

\* The clock is read before the lock is taken, so it may be old by then.
ReadClock(t) ==
  /\ Go(t, "clock", "acquire")
  /\ now' = [now EXCEPT ![t] = clock]
  /\ UNCHANGED <<clock, globals, pair, history>>

MutantAcquire(t) ==   \* no lock
  /\ Go(t, "acquire", "test")
  /\ lock' = t
  /\ UNCHANGED <<clock, lastMs, counter, now, pair, history>>

Acquire(t) ==
  /\ Go(t, "acquire", "test")
  /\ lock = Nobody /\ lock' = t
  /\ UNCHANGED <<clock, lastMs, counter, now, pair, history>>

\* Under the lock: a new millisecond gets a new seed,
MutantNewMillisecond(t) ==   \* any other millisecond, an earlier one too
  /\ now[t] # lastMs
  /\ Go(t, "test", "seed")
  /\ lastMs' = now[t]
  /\ UNCHANGED <<clock, counter, lock, now, pair, history>>

NewMillisecond(t) ==
  /\ now[t] > lastMs
  /\ Go(t, "test", "seed")
  /\ lastMs' = now[t]
  /\ UNCHANGED <<clock, counter, lock, now, pair, history>>

Seed(t) ==
  /\ Go(t, "seed", "release")
  /\ counter' \in 0..SeedMask
  /\ UNCHANGED <<clock, lastMs, lock, now, pair, history>>

\* the same one, or an earlier one, counts on,
MutantCountUp(t) ==   \* one more than the counter's bits hold
  /\ now[t] <= lastMs /\ counter <= CounterMax
  /\ Go(t, "test", "release")
  /\ counter' = counter + 1
  /\ UNCHANGED <<clock, lastMs, lock, now, pair, history>>

CountUp(t) ==
  /\ now[t] <= lastMs /\ counter < CounterMax
  /\ Go(t, "test", "release")
  /\ counter' = counter + 1
  /\ UNCHANGED <<clock, lastMs, lock, now, pair, history>>

\* and a counter that is full borrows the next millisecond.
Borrow(t) ==
  /\ now[t] <= lastMs /\ counter >= CounterMax
  /\ Go(t, "test", "zero")
  /\ lastMs' = lastMs + 1
  /\ UNCHANGED <<clock, counter, lock, now, pair, history>>

Zero(t) ==
  /\ Go(t, "zero", "release")
  /\ counter' = 0
  /\ UNCHANGED <<clock, lastMs, lock, now, pair, history>>

MutantRelease(t) ==   \* an early return that leaves the lock taken
  /\ Go(t, "release", "return")
  /\ pair' = [pair EXCEPT ![t] = <<lastMs, counter>>]
  /\ given' = <<lastMs, counter>>
  /\ UNCHANGED <<clock, globals, now, newest, floor>>

Release(t) ==
  /\ Go(t, "release", "return")
  /\ lock' = Nobody
  /\ pair' = [pair EXCEPT ![t] = <<lastMs, counter>>]
  /\ given' = <<lastMs, counter>>
  /\ UNCHANGED <<clock, lastMs, counter, now, newest, floor>>

Return(t) ==
  /\ Go(t, "return", "idle")
  /\ newest' = IF Below(newest, pair[t]) THEN pair[t] ELSE newest
  /\ UNCHANGED <<clock, globals, now, pair, given, floor>>

Step(t) ==
  \/ ReadClock(t) \/ Acquire(t)
  \/ NewMillisecond(t) \/ Seed(t)
  \/ CountUp(t)
  \/ Borrow(t) \/ Zero(t)
  \/ Release(t) \/ Return(t)

Next == Tick \/ \E t \in Thread : Call(t) \/ Step(t)

\* A thread that can run is scheduled in the end.
Fairness == \A t \in Thread : WF_vars(Step(t))

Spec     == Init /\ [][Next]_vars
FairSpec == Spec /\ Fairness

-----------------------------------------------------------------------------
(* Properties                                                              *)

\* The counter always fits the bits the id keeps for it (uuid7.py:61-62): one
\* more would write over the version field.
TypeOK ==
  /\ clock \in Nat
  /\ lastMs \in Nat \cup {-1} /\ counter \in 0..CounterMax
  /\ lock \in Thread \cup {Nobody}
  /\ at \in [Thread -> Point]
  /\ now \in [Thread -> Nat]
  /\ given \in Pair /\ newest \in Pair
  /\ pair \in [Thread -> Pair] /\ floor \in [Thread -> Pair]

\* "The (millisecond, counter) pair for the next id, never repeating and never
\* going backwards -- including when the system clock does" (uuid7.py:25-26).
NeverBackwards == [][given' # given => Below(given, given')]_vars

\* "Ids sort in the order they were generated" (uuid7.py:52-54): an id is above
\* every id that was already returned, to any thread, when its call began.
SortsByCallOrder ==
  \A t \in Thread : at[t] = "return" => Below(floor[t], pair[t])

\* Every call of uuid7() returns.
CallsReturn == \A t \in Thread : at[t] # "idle" ~> at[t] = "idle"
=============================================================================
