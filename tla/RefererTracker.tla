--------------------------- MODULE RefererTracker ---------------------------
(* The per-address window of Google referers. Observe finds the address's  *)
(* window under a read lock, creates it under the write lock if it was not *)
(* there, and then works on the window under the window's own lock.        *)
EXTENDS Integers, FiniteSets, Sequences

CONSTANTS Requests, Size, NoWindow

\* The alert threshold is 80 %, over at least five observations.
MinSeen == 5
Exceeds(hits, n) == n >= MinSeen /\ 100 * hits > 80 * n

VARIABLES pc, google, window,  \* each request: where it is, its referer, its window
          shared,              \* the tracker's window for the address
          buf, pos, filled,    \* each window object, named by the request that made it
          seen, said           \* history: the last Size referers; each request's answer is right
vars == <<pc, google, window, shared, buf, pos, filled, seen, said>>

Init == /\ pc = [r \in Requests |-> "idle"]
        /\ google = [r \in Requests |-> FALSE]
        /\ window = [r \in Requests |-> NoWindow]
        /\ shared = NoWindow
        /\ buf = [r \in Requests |-> [i \in 0..(Size - 1) |-> FALSE]]
        /\ pos = [r \in Requests |-> 0]
        /\ filled = [r \in Requests |-> FALSE]
        /\ seen = <<>> /\ said = TRUE

\* The map is read under the read lock.
Lookup(r) == /\ pc[r] = "idle"
             /\ pc' = [pc EXCEPT ![r] = IF shared = NoWindow THEN "create" ELSE "observe"]
             /\ \E g \in BOOLEAN : google' = [google EXCEPT ![r] = g]
             /\ window' = [window EXCEPT ![r] = shared]
             /\ UNCHANGED <<shared, buf, pos, filled, seen, said>>

\* The window is created under the write lock unless another request was first;
\* the mutant does not look again.
CreateAnyway(r) ==
  /\ pc[r] = "create"
  /\ shared' = r
  /\ window' = [window EXCEPT ![r] = r]
  /\ pc' = [pc EXCEPT ![r] = "observe"]
  /\ UNCHANGED <<google, buf, pos, filled, seen, said>>
Create(r) ==
  /\ pc[r] = "create"
  /\ shared' = IF shared = NoWindow THEN r ELSE shared
  /\ window' = [window EXCEPT ![r] = shared']
  /\ pc' = [pc EXCEPT ![r] = "observe"]
  /\ UNCHANGED <<google, buf, pos, filled, seen, said>>

Observe(r) ==
  LET w == window[r]
      b == [buf[w] EXCEPT ![pos[w]] = google[r]]
      full == filled[w] \/ pos[w] + 1 >= Size
      n == IF full THEN Size ELSE pos[w] + 1
      answer == Exceeds(Cardinality({i \in 0..(n - 1) : b[i]}), n)
      recent == IF Len(seen) = Size THEN Append(Tail(seen), google[r]) ELSE Append(seen, google[r])
  IN  /\ pc[r] = "observe"
      /\ buf' = [buf EXCEPT ![w] = b]
      /\ pos' = [pos EXCEPT ![w] = (@ + 1) % Size]
      /\ filled' = [filled EXCEPT ![w] = full]
      /\ pc' = [pc EXCEPT ![r] = "idle"]
      /\ google' = [google EXCEPT ![r] = FALSE]
      /\ window' = [window EXCEPT ![r] = NoWindow]
      /\ seen' = recent
      /\ said' = (answer = Exceeds(Cardinality({i \in DOMAIN recent : recent[i]}), Len(recent)))
      /\ UNCHANGED shared

Next == \E r \in Requests : Lookup(r) \/ Create(r) \/ Observe(r)
Spec == Init /\ [][Next]_vars
-----------------------------------------------------------------------------
\* Every answer of Observe is the answer over the last Size referers of the
\* address: no observation goes to a window that another request's creation
\* replaced, and the ring counts exactly the slots in use before and after it wraps.
AnswersCountLastRequests == said
=============================================================================
