------------------------------ MODULE AuditLog ------------------------------
(* The audit ring buffer. A request stamps its entry and then records it   *)
(* under the ring's lock, so entries can be recorded out of time order.    *)
EXTENDS Naturals, Sequences, Subsequence

CONSTANTS Requests, Size, MaxTime

Times == 0..MaxTime
Entries == [id : Requests, at : Times]
Empty == [id |-> "", at |-> 0]

VARIABLES now, buf, head, count, stamped
vars == <<now, buf, head, count, stamped>>

Init == /\ now = 0
        /\ buf = [i \in 0..(Size - 1) |-> Empty]
        /\ head = 0 /\ count = 0
        /\ stamped = {}

Tick == /\ now < MaxTime /\ now' = now + 1
        /\ UNCHANGED <<buf, head, count, stamped>>

Stamp(r) == /\ \A e \in stamped : e.id # r
            /\ stamped' = stamped \cup {[id |-> r, at |-> now]}
            /\ UNCHANGED <<now, buf, head, count>>

Record(e) == /\ e \in stamped
             /\ buf' = [buf EXCEPT ![head] = e]
             /\ head' = (head + 1) % Size
             /\ count' = IF count < Size THEN count + 1 ELSE count
             /\ stamped' = stamped \ {e}
             /\ UNCHANGED now

Next == Tick \/ (\E r \in Requests : Stamp(r)) \/ (\E e \in stamped : Record(e))
Spec == Init /\ [][Next]_vars

\* Since reads from the oldest entry on and keeps those not before t. The mutant
\* starts at slot 0 even once the ring has wrapped.
StartAtZero == 0
Start == IF count = Size THEN head ELSE 0
Contents == [i \in 1..count |-> buf[(Start + i - 1) % Size]]
Since(t) == SelectAt(Contents, {i \in 1..count : Contents[i].at >= t})
-----------------------------------------------------------------------------
\* The ring implements a log of the last Size entries: Since(0) lists exactly
\* them, oldest first, before, at and after the wrap-around, whatever the order
\* in which concurrent requests stamp and record (Audit.Record, Audit.Since).
Log == INSTANCE BoundedLog WITH Values <- Entries, log <- Since(0)
ImplementsLog == Log!Spec
=============================================================================
