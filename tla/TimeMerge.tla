------------------------------ MODULE TimeMerge ------------------------------
(***************************************************************************)
(* What cartographer's collator promises of the data it passes on: they    *)
(* are merged by time.  A datum leaves when it is the earliest of all that *)
(* the sources hold, and no source that has begun and not ended has        *)
(* nothing left, so that none of them can still come up with an earlier    *)
(* one.  Data are time stamps, and come sorted from each source.           *)
(***************************************************************************)
EXTENDS Integers, Sequences

CONSTANTS Source, Stamp

VARIABLES
  begun,    \* the sources that have begun
  ended,    \* those that have ended
  input,    \* the data of each
  output    \* for each datum that left, in order, whether it was passed on

Left(s) == Len(input[s]) > Len(output[s])
First(s) == input[s][Len(output[s]) + 1]

Init ==
  /\ begun = {} /\ ended = {}
  /\ input = [s \in Source |-> <<>>]
  /\ output = [s \in Source |-> <<>>]

\* Some sources begin together.
Begin(S) ==
  /\ S \cap begun = {}
  /\ begun' = begun \cup S
  /\ UNCHANGED <<ended, input, output>>

Come(s, t) ==
  /\ s \in begun \ ended
  /\ \A i \in DOMAIN input[s] : input[s][i] <= t
  /\ input' = [input EXCEPT ![s] = Append(@, t)]
  /\ UNCHANGED <<begun, ended, output>>

End(s) ==
  /\ s \in begun \ ended
  /\ ended' = ended \cup {s}
  /\ UNCHANGED <<begun, input, output>>

\* The earliest datum leaves; it may be dropped.
Leave(s, passedOn) ==
  /\ s \in begun /\ Left(s)
  /\ \A r \in begun : IF Left(r) THEN First(s) <= First(r) ELSE r \in ended
  /\ output' = [output EXCEPT ![s] = Append(@, passedOn)]
  /\ UNCHANGED <<begun, ended, input>>

Next ==
  \/ \E S \in SUBSET Source : Begin(S)
  \/ \E s \in Source, t \in Stamp : Come(s, t)
  \/ \E s \in Source : End(s)
  \/ \E s \in Source, passedOn \in BOOLEAN : Leave(s, passedOn)

Spec == Init /\ [][Next]_<<begun, ended, input, output>>
=============================================================================
