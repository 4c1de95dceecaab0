----------------------------- MODULE Uuid7Proofs -----------------------------
(***************************************************************************)
(* What Uuid7 promises, for any number of threads, any counter width and   *)
(* any clock.  The invariant follows the pair being made: between calls    *)
(* the globals are the pair issued last, and inside the lock they are on   *)
(* their way above it.                                                     *)
(***************************************************************************)
EXTENDS Uuid7, TLAPS

Inside == {"test", "seed", "zero", "release"}

\* The thread that holds the lock is the one between Acquire and Release.
Exclusion == \A t \in Thread : at[t] \in Inside <=> lock = t

\* The globals hold the pair issued last, or one that is being made above it.
Settled ==
  /\ lastMs >= given[1]
  /\ lock = Nobody => <<lastMs, counter>> = given
  /\ \A t \in Thread :
       /\ at[t] = "test" => <<lastMs, counter>> = given
       /\ at[t] \in {"seed", "zero"} => lastMs > given[1]
       /\ at[t] = "release" => Below(given, <<lastMs, counter>>)

\* Nothing that was returned, or is about to be, is above the pair issued last.
NothingAbove ==
  /\ UpTo(newest, given)
  /\ \A t \in Thread : /\ UpTo(floor[t], given)
                       /\ at[t] = "return" => UpTo(pair[t], given)

IInv == TypeOK /\ Exclusion /\ Settled /\ NothingAbove /\ SortsByCallOrder

-----------------------------------------------------------------------------
\* Being below is transitive, on the pairs that ids are.
LEMMA Transitive ==
  ASSUME NEW x \in Pair, NEW y \in Pair, NEW z \in Pair,
         UpTo(x, y), Below(y, z)
  PROVE  Below(x, z)
  BY DEF Pair, UpTo, Below

\* The machine starts as if the pair <<-1, 0>> had been issued.
LEMMA InitSettled == Init => IInv
  BY Uuid7Assumption
  DEF Init, IInv, TypeOK, Exclusion, Settled, NothingAbove, SortsByCallOrder,
      Inside, Point, Pair, UpTo

\* The type invariant is inductive.
LEMMA TypeInductive == TypeOK /\ [Next]_vars => TypeOK'
  <1> SUFFICES ASSUME TypeOK, [Next]_vars PROVE TypeOK'
    OBVIOUS
  <1> USE Uuid7Assumption DEF TypeOK, globals, history, Point, Pair, Go
  <1>1. CASE Tick  BY <1>1 DEF Tick
  <1>2. ASSUME NEW t \in Thread, Call(t) PROVE TypeOK'
    BY <1>2 DEF Call
  <1>3. ASSUME NEW t \in Thread, ReadClock(t) PROVE TypeOK'
    BY <1>3 DEF ReadClock
  <1>4. ASSUME NEW t \in Thread, Acquire(t) PROVE TypeOK'
    BY <1>4 DEF Acquire
  <1>5. ASSUME NEW t \in Thread, NewMillisecond(t) PROVE TypeOK'
    BY <1>5 DEF NewMillisecond
  <1>6. ASSUME NEW t \in Thread, Seed(t) PROVE TypeOK'
    BY <1>6 DEF Seed
  <1>7. ASSUME NEW t \in Thread, CountUp(t) PROVE TypeOK'
    BY <1>7 DEF CountUp
  <1>8. ASSUME NEW t \in Thread, Borrow(t) PROVE TypeOK'
    BY <1>8 DEF Borrow
  <1>9. ASSUME NEW t \in Thread, Zero(t) PROVE TypeOK'
    BY <1>9 DEF Zero
  <1>10. ASSUME NEW t \in Thread, Release(t) PROVE TypeOK'
    BY <1>10 DEF Release
  <1>11. ASSUME NEW t \in Thread, Return(t) PROVE TypeOK'
    BY <1>11 DEF Return
  <1>12. CASE UNCHANGED vars  BY <1>12 DEF vars
  <1>13. QED
    BY <1>1, <1>2, <1>3, <1>4, <1>5, <1>6, <1>7, <1>8, <1>9, <1>10, <1>11,
       <1>12 DEF Next, Step

\* Every pair issued is above the one issued before it: only Release issues one,
\* and it issues what the globals hold.
LEMMA ReleaseIsAbove ==
  ASSUME IInv, NEW t \in Thread, Release(t)
  PROVE  Below(given, given')
  BY DEF IInv, Settled, Release, Go, Below

\* The whole invariant is inductive.
LEMMA Inductive == IInv /\ [Next]_vars => IInv'
  <1> SUFFICES ASSUME IInv, [Next]_vars PROVE IInv'
    OBVIOUS
  <1>0. TypeOK'  BY TypeInductive DEF IInv
  <1> DEFINE Rest == Exclusion /\ Settled /\ NothingAbove /\ SortsByCallOrder
  <1>a. TypeOK /\ Rest  BY DEF IInv
  <1> USE <1>a, Uuid7Assumption
      DEF TypeOK, Rest, Exclusion, Settled, NothingAbove, SortsByCallOrder,
          Inside, Pair, globals, history, Go
  <1>1. CASE Tick  BY <1>0, <1>1 DEF Tick, IInv
  <1>2. ASSUME NEW t \in Thread, Call(t) PROVE IInv'
    BY <1>0, <1>2 DEF Call, IInv
  <1>3. ASSUME NEW t \in Thread, ReadClock(t) PROVE IInv'
    BY <1>0, <1>3 DEF ReadClock, IInv
  <1>4. ASSUME NEW t \in Thread, Acquire(t) PROVE IInv'
    BY <1>0, <1>4 DEF Acquire, IInv
  <1>5. ASSUME NEW t \in Thread, NewMillisecond(t) PROVE IInv'
    BY <1>0, <1>5 DEF NewMillisecond, IInv
  <1>6. ASSUME NEW t \in Thread, Seed(t) PROVE IInv'
    BY <1>0, <1>6 DEF Seed, IInv, Below
  <1>7. ASSUME NEW t \in Thread, CountUp(t) PROVE IInv'
    BY <1>0, <1>7 DEF CountUp, IInv, Below
  <1>8. ASSUME NEW t \in Thread, Borrow(t) PROVE IInv'
    BY <1>0, <1>8 DEF Borrow, IInv
  <1>9. ASSUME NEW t \in Thread, Zero(t) PROVE IInv'
    BY <1>0, <1>9 DEF Zero, IInv, Below
  <1>10. ASSUME NEW t \in Thread, Release(t) PROVE IInv'
    <2>1. Below(given, given')  BY <1>10, ReleaseIsAbove
    <2>2. NothingAbove'
      <3>1. \A x \in Pair : UpTo(x, given) => UpTo(x, given')
        <4>1. given \in Pair /\ given' \in Pair  BY <1>0
        <4>2. QED  BY <2>1, <4>1, Transitive DEF UpTo
      <3>2. UpTo(newest', given')  BY <1>10, <3>1 DEF Release
      <3>3. ASSUME NEW u \in Thread PROVE UpTo(floor'[u], given')
        BY <1>10, <3>1 DEF Release
      <3>4. ASSUME NEW u \in Thread, at'[u] = "return"
            PROVE  UpTo(pair'[u], given')
        BY <1>10, <3>1, <3>4 DEF Release, UpTo
      <3>5. QED  BY <3>2, <3>3, <3>4
    <2>3. Exclusion' /\ Settled'
      BY <1>10 DEF Release
    <2>4. SortsByCallOrder'
      BY <1>10, <2>1, Transitive DEF Release
    <2>5. QED  BY <1>0, <2>2, <2>3, <2>4 DEF IInv
  <1>11. ASSUME NEW t \in Thread, Return(t) PROVE IInv'
    BY <1>0, <1>11 DEF Return, IInv
  <1>12. CASE UNCHANGED vars  BY <1>0, <1>12 DEF vars, IInv
  <1>13. QED
    BY <1>1, <1>2, <1>3, <1>4, <1>5, <1>6, <1>7, <1>8, <1>9, <1>10, <1>11,
       <1>12 DEF Next, Step

-----------------------------------------------------------------------------
\* The counter never leaves the bits the id has for it.
THEOREM CounterFits == Spec => []TypeOK
  <1>1. Init => TypeOK  BY InitSettled DEF IInv
  <1>2. QED  BY <1>1, TypeInductive, PTL DEF Spec

\* An id sorts above every id returned before its call began, whatever the
\* clock did and whichever threads asked.
THEOREM IdsSortByCallOrder == Spec => []SortsByCallOrder
  <1>1. IInv => SortsByCallOrder  BY DEF IInv
  <1>2. QED  BY <1>1, InitSettled, Inductive, PTL DEF Spec

\* No pair is issued twice, and none below one issued before.
THEOREM PairsOnlyGrow == Spec => NeverBackwards
  <1>1. IInv /\ [Next]_vars => [given' # given => Below(given, given')]_vars
    <2> SUFFICES ASSUME IInv, [Next]_vars, given' # given
                 PROVE  Below(given, given')
      BY DEF vars, history
    <2>1. \E t \in Thread : Release(t)
      BY DEF Next, Tick, Call, Step, ReadClock, Acquire, NewMillisecond, Seed,
             CountUp, Borrow, Zero, Return, vars, history
    <2>2. QED  BY <2>1, ReleaseIsAbove
  <1>2. QED  BY <1>1, InitSettled, Inductive, PTL DEF Spec, NeverBackwards
=============================================================================
