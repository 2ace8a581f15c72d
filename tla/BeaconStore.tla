---------------------------- MODULE BeaconStore ----------------------------
(* The behaviour-beacon store: two sliding windows, by session and by      *)
(* address, written by HandleBeacon and read when a session or a request   *)
(* is scored. Each method holds the store's mutex throughout, so each is   *)
(* one step. Beacons carry when they were stored and, in "last", a record  *)
(* of the newest beacon ever stored under each key.                        *)
EXTENDS Integers, Sequences, Subsequence

CONSTANTS Sessions, Addresses, Beacons,
          MaxPerKey,         \* beaconMaxPerKey
          MaxAge, MaxTime    \* beaconMaxAge; bound of the clock

ASSUME BeaconAssumption ==
  MaxPerKey \in Nat \ {0} /\ MaxAge \in Nat \ {0} /\ MaxTime \in Nat
  /\ Sessions \cap Addresses = {}

Keys == Sessions \cup Addresses
Times == 0..MaxTime
Entries == [beacon : Beacons, storedAt : Times]

VARIABLES now,
          window,  \* the entries under each key of both indexes, oldest first
          last     \* history: <<the newest entry ever stored under the key>>, or <<>>
vars == <<now, window, last>>

Init == /\ now = 0
        /\ window = [k \in Keys |-> <<>>]
        /\ last = [k \in Keys |-> <<>>]

Tick == /\ now < MaxTime /\ now' = now + 1
        /\ UNCHANGED <<window, last>>

\* pruneBeaconMap on one key: entries stored after the cutoff stay, in order.
\* The mutant drops a window whose oldest entry is over age.
PruneAll(entries) == IF entries # <<>> /\ entries[1].storedAt <= now - MaxAge
                     THEN <<>> ELSE entries
Prune(entries) == SelectAt(entries, {i \in 1..Len(entries) : entries[i].storedAt > now - MaxAge})

\* push: append, then keep the newest MaxPerKey entries; the mutant trims one
\* entry too few.
PushOver(entries, e) ==
  LET all == Append(entries, e)
  IN  IF Len(all) > MaxPerKey + 1 THEN Tail(all) ELSE all
Push(entries, e) ==
  LET all == Append(entries, e)
  IN  IF Len(all) > MaxPerKey THEN SubSeq(all, Len(all) - MaxPerKey + 1, Len(all)) ELSE all

\* An entry carries the time it was stored.
Entry(b) == [beacon |-> b, storedAt |-> now]

\* A write prunes every key of both indexes, then pushes under its own keys.
Write(keys, b) ==
  /\ window' = [k \in Keys |-> IF k \in keys THEN Push(Prune(window[k]), Entry(b))
                               ELSE Prune(window[k])]
  /\ last' = [k \in Keys |-> IF k \in keys THEN <<Entry(b)>> ELSE last[k]]
  /\ UNCHANGED now

\* HandleBeacon stores under the session the body names and the peer's address.
IngestFromRequest(s, a, b) == Write({s, a}, b)
\* Ingest, for a store that is not given the request.
Ingest(s, b) == Write({s}, b)

Next == \/ Tick
        \/ \E s \in Sessions, b \in Beacons :
             Ingest(s, b) \/ \E a \in Addresses : IngestFromRequest(s, a, b)
Spec == Init /\ [][Next]_vars

\* GetBySession and GetByIP: the newest entry, or none. Reads do not prune.
Get(k) == IF window[k] = <<>> THEN <<>> ELSE <<window[k][Len(window[k])]>>
-----------------------------------------------------------------------------
\* A window never holds more than beaconMaxPerKey entries, and holds them in the
\* order they were stored, whatever mix of pruning and trimming shaped it.
WindowsBoundedAndOrdered ==
  \A k \in Keys :
    /\ Len(window[k]) <= MaxPerKey
    /\ \A i, j \in DOMAIN window[k] :
         i < j => window[k][i].storedAt <= window[k][j].storedAt

\* The store answers with the newest beacon of the key for as long as that beacon
\* is younger than beaconMaxAge: writes under other keys, which prune every
\* window, never take it away, and no older one ever surfaces again.
NewestIsServed ==
  \A k \in Keys :
    /\ Get(k) # <<>> => Get(k) = last[k]
    /\ (last[k] # <<>> /\ now - last[k][1].storedAt < MaxAge) => Get(k) = last[k]
=============================================================================
