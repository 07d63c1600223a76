------------------------------- MODULE Archive -------------------------------
(***************************************************************************)
(* What the file tree promises those who read it (btcaster, and who comes  *)
(* for the files later): a file only grows, at its end if it was opened    *)
(* once; and while the receiver's time does not go back, only the latest   *)
(* file there is is opened or written to.                                  *)
(***************************************************************************)
EXTENDS Naturals, Sequences, SequencesExt

CONSTANTS
  File,    \* the names of files
  Before   \* pairs of an earlier and a later one

VARIABLES
  contents,  \* of each file, as others see it
  opened,    \* how often each file was opened for writing
  ordered    \* time has not gone back

vars == <<contents, opened, ordered>>

Init ==
  /\ contents = [f \in File |-> << >>]
  /\ opened = [f \in File |-> 0]
  /\ ordered = TRUE

\* No file was opened yet that is later than f.
Newest(f) == \A g \in File : <<f, g>> \in Before => opened[g] = 0

Open(f) ==
  /\ ordered => Newest(f)
  /\ opened' = [opened EXCEPT ![f] = @ + 1]
  /\ UNCHANGED <<contents, ordered>>

\* More of what was written to f reaches the file system.
Save(f) ==
  /\ opened[f] > 0
  /\ ordered => Newest(f)
  /\ contents' = [contents EXCEPT ![f] = contents'[f]]
  /\ Len(contents'[f]) >= Len(contents[f])
  /\ opened[f] = 1 => IsPrefix(contents[f], contents'[f])
  /\ UNCHANGED <<opened, ordered>>

TimeGoesBack == ordered' = FALSE /\ UNCHANGED <<contents, opened>>

Next == TimeGoesBack \/ \E f \in File : Open(f) \/ Save(f)

Spec == Init /\ [][Next]_vars
=============================================================================
