----------------------------- MODULE MCWindows -----------------------------
(* The gateway's shared in-memory tables in one run: the beacon store, the *)
(* audit ring, the referer tracker and the ClientHello captures. They      *)
(* share no state, so a behaviour of the run is one of one of them.        *)
EXTENDS BeaconStore

CONSTANTS Requests, AuditSize, WindowSize, NoWindow,
          Conns, Peers, NoConn, Cap, MaxRecord, MaxExtra
ASSUME WindowsAssumption ==
  AuditSize \in Nat \ {0} /\ WindowSize \in Nat \ {0}
  /\ Cap \in Nat /\ MaxRecord \in Nat \ {0} /\ MaxExtra \in Nat /\ NoConn \notin Conns
  /\ NoWindow \notin Requests

VARIABLES part, buf, head, count, stamped
VARIABLES pc, google, own, shared, rings, pos, filled, seen, said
VARIABLES phase, peer, record, sent, raw, captures, pending, served
audit == <<buf, head, count, stamped>>
tracker == <<pc, google, own, shared, rings, pos, filled, seen, said>>
hellos == <<phase, peer, record, sent, raw, captures, pending, served>>

A == INSTANCE AuditLog WITH Size <- AuditSize
T == INSTANCE RefererTracker WITH Size <- WindowSize, buf <- rings, window <- own
C == INSTANCE Connections

MCInit == /\ part \in {"beacons", "audit", "tracker", "connections"}
          /\ Init /\ A!Init /\ T!Init /\ C!Init
          /\ part # "connections" => /\ peer = [c \in Conns |-> CHOOSE p \in Peers : TRUE]
                                     /\ record = [c \in Conns |-> 1]
AllGone == \A c \in Conns : phase[c] = "gone" /\ ~pending[c]
MCNext == /\ UNCHANGED part
          /\ \/ part = "beacons" /\ Next /\ UNCHANGED <<audit, tracker, hellos>>
             \/ part = "audit" /\ A!Next /\ UNCHANGED <<window, last, tracker, hellos>>
             \/ part = "tracker" /\ T!Next /\ UNCHANGED <<vars, audit, hellos>>
             \/ part = "connections" /\ C!Next /\ UNCHANGED <<vars, audit, tracker>>
             \/ part = "connections" /\ AllGone /\ UNCHANGED <<vars, audit, tracker, hellos>>
MCSpec == MCInit /\ [][MCNext]_<<part, vars, audit, tracker, hellos>>
-----------------------------------------------------------------------------
\* The audit ring is a log of the last Size entries: Since(0) lists exactly them,
\* oldest first, before, at and after the wrap-around, whatever the order in
\* which concurrent requests stamp and record (Audit.Record, Audit.Since).
AuditImplementsLog == A!ImplementsLog

\* Every answer of RefererTracker.Observe counts the last Size referers of the
\* address: none goes to a window that another request's creation replaced.
RefererAnswersRight == T!AnswersCountLastRequests

\* An open connection's request is given its own ClientHello, none when the late
\* hook of an earlier connection at its address took it away, or that of one whose
\* socket was closed in its handshake and whose callback ran late.
OwnHelloOrNone == C!OwnHelloOrNone

\* The capture table holds no entry of an address nobody serves or is closing.
CapturesReclaimed == C!CapturesReclaimed

\* A capture is the whole first record and nothing else, up to the cap.
CapturesWholeRecord == C!CapturesWholeRecord
=============================================================================
