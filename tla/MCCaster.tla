------------------------------ MODULE MCCaster ------------------------------
(***************************************************************************)
(* Instances of Caster for TLC, with the default slots of 15 minutes.      *)
(***************************************************************************)
EXTENDS Caster

\* btcaster's clock is slow, by 20 minutes and 58 seconds.
AlmostTwentyOneMinutesBehind == -1258

At(y, d, m, s) == [year |-> y, day |-> d, minute |-> m, second |-> s]

\* First minutes, third minutes and last seconds of slots, over two days; the
\* first slot recurs.
TwoDays ==
  <<At(1, 1, 1410, 59), At(1, 1, 1412, 0), At(1, 1, 1424, 59), At(1, 1, 1425, 30),
    At(1, 2, 1410, 0), At(1, 2, 1412, 0)>>

\* Over New Year, with the slot of the first file coming round again.
NewYear == <<At(1, 365, 1415, 0), At(1, 365, 1430, 0), At(2, 1, 1420, 0)>>

\* Times in the middle of slots, but for the first.
OneDay == <<At(1, 1, 720, 0), At(1, 1, 725, 0), At(1, 1, 735, 0), At(1, 1, 740, 0)>>
=============================================================================
