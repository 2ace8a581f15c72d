----------------------------- MODULE BoundedLog -----------------------------
(* What a ring buffer of Size entries promises: the last Size entries, in  *)
(* the order they were written.                                            *)
EXTENDS Naturals, Sequences

CONSTANTS Size, Values
VARIABLE log

Newest(s) == IF Len(s) > Size THEN SubSeq(s, Len(s) - Size + 1, Len(s)) ELSE s
Init == log = <<>>
Write(v) == log' = Newest(Append(log, v))
Next == \E v \in Values : Write(v)
Spec == Init /\ [][Next]_log
=============================================================================
