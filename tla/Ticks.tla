--------------------------------- MODULE Ticks ---------------------------------
(***************************************************************************)
(* Wrapping dates (src/src/common/ticks.h).  A tick is a 32-bit integer in *)
(* the code and a number of 0 .. N-1 here; the code compares two ticks by  *)
(* the sign of their difference, which is a comparison with N/2.           *)
(***************************************************************************)
EXTENDS Integers

CONSTANT N     \* number of ticks before the date wraps, 2^32 in the code

ASSUME TicksAssumption == N \in Nat /\ N > 2 /\ N % 2 = 0

Half == N \div 2
Tick == 0 .. N - 1

TICK_ETERNITY == 0

\* The tick as the signed int the C code sees.
Signed(t) == IF t >= Half THEN t - N ELSE t

tick_isset(t) == t # TICK_ETERNITY

\* 0 means eternity, so a sum that wraps to it is pushed by one.
tick_add(t, d) == LET u == (t + d) % N IN IF u = 0 THEN 1 ELSE u

tick_is_lt(t1, t2) == (t1 - t2) % N >= Half
tick_is_le(t1, t2) == t1 = t2 \/ tick_is_lt(t1, t2)

tick_is_expired(t, now) == tick_isset(t) /\ tick_is_le(t, now)

tick_first(t1, t2) ==
  CASE ~ tick_isset(t1)   -> t2
    [] ~ tick_isset(t2)   -> t1
    [] OTHER              -> IF tick_is_le(t1, t2) THEN t1 ELSE t2

tick_first_2nz(t1, t2) ==
  IF tick_isset(t1) /\ tick_is_le(t1, t2) THEN t1 ELSE t2

=============================================================================
