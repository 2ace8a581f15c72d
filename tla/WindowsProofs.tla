--------------------------- MODULE WindowsProofs ---------------------------
(* Proofs about the gateway's shared in-memory tables.                     *)
EXTENDS MCWindows, FiniteSetTheorems, WellFoundedInduction, TLAPS

\* The provers get more than their usual time.
USE SMTT(60)

(***************************************************************************)
(* The ClientHello captures.                                               *)
(***************************************************************************)
Phases == {"new", "handshake", "cut", "serving", "hijacked", "closed", "gone"}
CTypeOK ==
  /\ phase \in [Conns -> Phases] /\ peer \in [Conns -> Peers] /\ record \in [Conns -> Nat]
  /\ sent \in [Conns -> Nat] /\ raw \in [Conns -> Nat] /\ pending \in [Conns -> BOOLEAN]

\* A socket holds its address alone.
OneOwner == \A c, d \in Conns : C!Open(c) /\ C!Open(d) /\ peer[c] = peer[d] => c = d

\* What was recorded of a connection is what was read, up to the cap.
RecordedIsSent == \A c \in Conns : raw[c] = IF sent[c] <= Cap THEN sent[c] ELSE Cap

\* An entry of the table was captured by a connection of that address whose
\* removal is still to come, and holds its whole first record. One that was stored
\* late is of a closed connection.
EntriesOwned ==
  \A p \in DOMAIN captures :
    /\ captures[p].conn \in Conns /\ peer[captures[p].conn] = p
    /\ phase[captures[p].conn] \in {"serving", "closed"}
    /\ captures[p].late => phase[captures[p].conn] = "closed"
    /\ captures[p].raw = IF record[captures[p].conn] <= Cap
                         THEN record[captures[p].conn] ELSE Cap

\* The late hook of an earlier connection at c's address.
TakenAway(c) == \E d \in Conns \ {c} : peer[d] = peer[c] /\ phase[d] = "gone"

\* While a connection serves, the entry of its address is its own, was taken away or
\* was replaced by a late one. A request that is not served yet is of such a connection or of a closed one.
OwnEntry ==
  \A c \in Conns : phase[c] = "serving" =>
    IF peer[c] \in DOMAIN captures
    THEN captures[peer[c]].conn = c \/ captures[peer[c]].late
    ELSE TakenAway(c)
PendingServed == \A c \in Conns : pending[c] => phase[c] \in {"serving", "closed", "gone"}

CInv == CTypeOK /\ OneOwner /\ RecordedIsSent /\ EntriesOwned /\ OwnEntry /\ PendingServed
        /\ C!OwnHelloOrNone

\* A connection that is closed stays closed, and one that is gone stays gone.
LEMMA GoneStays ==
  ASSUME CTypeOK, C!Next \/ UNCHANGED C!vars
  PROVE  /\ peer' = peer /\ record' = record
         /\ \A d \in Conns : phase[d] = "gone" => phase'[d] = "gone"
         /\ \A d \in Conns : phase[d] = "closed" => phase'[d] \in {"closed", "gone"}
         /\ \A c \in Conns : TakenAway(c) => TakenAway(c)'
<1>1. /\ peer' = peer /\ record' = record
      /\ \A d \in Conns : phase[d] = "gone" => phase'[d] = "gone"
      /\ \A d \in Conns : phase[d] = "closed" => phase'[d] \in {"closed", "gone"}
  BY Zenon DEF C!Next, C!vars, C!conns, CTypeOK, C!Accept, C!Read, C!Capture, C!Handshaken,
         C!Handshaking, C!Request, C!CaptureMiddleware, C!Hijack, C!Close, C!ConnState, C!Open
<1> QED BY <1>1 DEF TakenAway

LEMMA AcceptInductive == ASSUME NEW c \in Conns, CInv, C!Accept(c) PROVE CInv'
<1> USE DEF CInv, CTypeOK, C!Accept
<1>1. CTypeOK'
  BY DEF Phases
<1>2. OneOwner'
  BY DEF OneOwner, C!Open
<1>3. RecordedIsSent' /\ PendingServed' /\ EntriesOwned'
  BY DEF RecordedIsSent, PendingServed, EntriesOwned
<1>4. OwnEntry'
  BY DEF OwnEntry, TakenAway
<1>5. C!OwnHelloOrNone'
  BY DEF C!OwnHelloOrNone
<1> QED BY <1>1, <1>2, <1>3, <1>4, <1>5

LEMMA ReadInductive == ASSUME NEW c \in Conns, CInv, C!Read(c) PROVE CInv'
<1> USE DEF CInv, CTypeOK
<1>1. PICK n \in 1..(record[c] + MaxExtra - sent[c]) :
        /\ sent' = [sent EXCEPT ![c] = @ + n]
        /\ raw' = [raw EXCEPT ![c] = C!Recorded(@, n)]
  BY Zenon DEF C!Read
<1>2. n \in Nat /\ Cap \in Nat
  BY WindowsAssumption
<1>3. UNCHANGED <<phase, peer, record, captures, pending, served>>
  BY DEF C!Read
<1>4. CTypeOK'
  BY <1>1, <1>2, <1>3 DEF C!Recorded
<1>5. RecordedIsSent'
  BY <1>1, <1>2, <1>3 DEF RecordedIsSent, C!Recorded
<1>6. OneOwner' /\ PendingServed' /\ EntriesOwned' /\ OwnEntry' /\ C!OwnHelloOrNone'
  BY <1>3 DEF OneOwner, C!Open, PendingServed, EntriesOwned, OwnEntry, TakenAway, C!OwnHelloOrNone
<1> QED BY <1>4, <1>5, <1>6

LEMMA CaptureInductive == ASSUME NEW c \in Conns, CInv, C!Capture(c) PROVE CInv'
<1> USE DEF CInv
<1> DEFINE late == ~C!Open(c)
<1>1. /\ UNCHANGED <<peer, record, sent, raw, pending, served>>
      /\ DOMAIN captures' = DOMAIN captures \cup {peer[c]}
      /\ captures'[peer[c]] = C!Captured(c, C!RawClientHello(c), late)
      /\ \A p \in DOMAIN captures \ {peer[c]} : captures'[p] = captures[p]
  BY DEF C!Capture, C!Handshaken
<1>2. \/ /\ phase[c] = "handshake" /\ phase' = [phase EXCEPT ![c] = "serving"] /\ ~late
      \/ /\ phase[c] = "cut" /\ phase' = [phase EXCEPT ![c] = "closed"] /\ late
  <2>1. /\ phase[c] \in {"handshake", "cut"}
        /\ phase' = [phase EXCEPT ![c] = IF phase[c] = "cut" THEN "closed" ELSE "serving"]
    BY DEF C!Capture, C!Handshaken, C!Handshaking
  <2>2. CASE phase[c] = "handshake"
    BY <2>1, <2>2 DEF C!Open
  <2>3. CASE phase[c] = "cut"
    BY <2>1, <2>3 DEF C!Open
  <2> QED BY <2>1, <2>2, <2>3
<1> HIDE DEF late
<1>3. CTypeOK'
  BY <1>1, <1>2 DEF CTypeOK, Phases
<1>4. OneOwner'
  BY <1>1, <1>2 DEF OneOwner, C!Open, CTypeOK
<1>5. RecordedIsSent' /\ PendingServed'
  BY <1>1, <1>2 DEF RecordedIsSent, PendingServed, CTypeOK
<1>6. C!RawClientHello(c) = IF record[c] <= Cap THEN record[c] ELSE Cap
  BY WindowsAssumption DEF C!RawClientHello, C!Capture, C!Handshaken, RecordedIsSent, CTypeOK
<1>7. EntriesOwned'
  <2> SUFFICES ASSUME NEW p \in DOMAIN captures'
               PROVE  LET d == captures'[p].conn
                      IN  /\ d \in Conns /\ peer[d] = p
                          /\ phase'[d] \in {"serving", "closed"}
                          /\ captures'[p].late => phase'[d] = "closed"
                          /\ captures'[p].raw = IF record[d] <= Cap THEN record[d] ELSE Cap
    BY <1>1 DEF EntriesOwned
  <2>1. CASE p = peer[c]
    BY <1>1, <1>2, <1>6, <2>1 DEF C!Captured, CTypeOK
  <2>2. CASE p # peer[c]
    BY <1>1, <1>2, <2>2 DEF EntriesOwned, CTypeOK
  <2> QED BY <2>1, <2>2
<1>8. OwnEntry'
  <2> SUFFICES ASSUME NEW d \in Conns, phase'[d] = "serving"
               PROVE  IF peer[d] \in DOMAIN captures'
                      THEN captures'[peer[d]].conn = d \/ captures'[peer[d]].late
                      ELSE TakenAway(d)'
    BY <1>1 DEF OwnEntry
  <2>1. CASE d = c
    BY <1>1, <2>1 DEF C!Captured
  <2>2. CASE d # c /\ peer[d] = peer[c]
    <3>1. phase[d] = "serving"
      BY <1>2, <2>2 DEF CTypeOK
    <3>2. late
      BY <1>2, <2>2, <3>1 DEF OneOwner, C!Open
    <3> QED BY <1>1, <2>2, <3>2 DEF C!Captured
  <2>3. CASE peer[d] # peer[c]
    <3>1. phase[d] = "serving"
      BY <1>2, <2>3 DEF CTypeOK
    <3>2. TakenAway(d) => TakenAway(d)'
      BY GoneStays DEF C!Next
    <3> QED BY <1>1, <2>3, <3>1, <3>2 DEF OwnEntry
  <2> QED BY <2>1, <2>2, <2>3
<1>9. C!OwnHelloOrNone'
  BY <1>1, <1>2 DEF C!OwnHelloOrNone, CTypeOK
<1> QED BY <1>3, <1>4, <1>5, <1>7, <1>8, <1>9

LEMMA RequestInductive == ASSUME NEW c \in Conns, CInv, C!Request(c) PROVE CInv'
<1> USE DEF CInv, CTypeOK, C!Request, C!conns
<1>1. CTypeOK' /\ PendingServed'
  BY DEF PendingServed
<1>2. OneOwner' /\ RecordedIsSent' /\ EntriesOwned' /\ OwnEntry' /\ C!OwnHelloOrNone'
  BY DEF OneOwner, C!Open, RecordedIsSent, EntriesOwned, OwnEntry, TakenAway, C!OwnHelloOrNone
<1> QED BY <1>1, <1>2

LEMMA MiddlewareInductive == ASSUME NEW c \in Conns, CInv, C!CaptureMiddleware(c) PROVE CInv'
<1> USE DEF CInv, CTypeOK, C!CaptureMiddleware, C!conns
<1>1. CTypeOK' /\ PendingServed'
  BY DEF PendingServed
<1>2. OneOwner' /\ RecordedIsSent' /\ EntriesOwned' /\ OwnEntry'
  BY DEF OneOwner, C!Open, RecordedIsSent, EntriesOwned, OwnEntry, TakenAway
<1>3. C!OwnHelloOrNone'
  <2> SUFFICES ASSUME C!Open(c)
               PROVE  \/ served'.hello.conn = c
                      \/ served'.hello = C!Nothing /\ TakenAway(c)
                      \/ /\ served'.hello.late /\ served'.hello.conn \in Conns \ {c}
                         /\ peer[served'.hello.conn] = peer[c]
                         /\ phase[served'.hello.conn] = "closed"
    BY DEF C!OwnHelloOrNone, TakenAway
  <2>1. phase[c] = "serving"
    BY DEF PendingServed, C!Open
  <2> QED BY <2>1 DEF OwnEntry, EntriesOwned
<1> QED BY <1>1, <1>2, <1>3

LEMMA DeleteInductive ==
  ASSUME NEW c \in Conns, CInv, C!Hijack(c) \/ C!ConnState(c) PROVE CInv'
<1> USE DEF CInv
<1>1. /\ UNCHANGED <<peer, record, sent, raw, pending, served>>
      /\ DOMAIN captures' = DOMAIN captures \ {peer[c]}
      /\ \A p \in DOMAIN captures' : captures'[p] = captures[p]
      /\ \/ /\ phase[c] = "serving" /\ ~pending[c]
            /\ phase' = [phase EXCEPT ![c] = "hijacked"]
         \/ phase[c] \in {"cut", "closed"} /\ phase' = [phase EXCEPT ![c] = "gone"]
  BY DEF C!Hijack, C!ConnState, C!Delete
<1>2. CTypeOK' /\ RecordedIsSent'
  BY <1>1 DEF CTypeOK, Phases, RecordedIsSent
<1>3. OneOwner'
  BY <1>1 DEF OneOwner, C!Open, CTypeOK
<1>4. PendingServed'
  BY <1>1 DEF PendingServed, CTypeOK
<1>5. EntriesOwned'
  BY <1>1 DEF EntriesOwned, CTypeOK
<1>6. OwnEntry'
  <2> SUFFICES ASSUME NEW d \in Conns, phase'[d] = "serving"
               PROVE  IF peer[d] \in DOMAIN captures'
                      THEN captures'[peer[d]].conn = d \/ captures'[peer[d]].late
                      ELSE TakenAway(d)'
    BY <1>1 DEF OwnEntry
  <2>1. phase[d] = "serving" /\ d # c
    BY <1>1 DEF CTypeOK
  <2>2. TakenAway(d) => TakenAway(d)'
    BY GoneStays DEF C!Next
  <2>3. CASE peer[d] = peer[c]
    <3>1. phase'[c] = "gone"
      BY <1>1, <2>1, <2>3 DEF OneOwner, C!Open, CTypeOK
    <3> QED BY <1>1, <2>1, <2>3, <3>1 DEF TakenAway
  <2>4. CASE peer[d] # peer[c]
    BY <1>1, <2>1, <2>2, <2>4 DEF OwnEntry
  <2> QED BY <2>3, <2>4
<1>7. C!OwnHelloOrNone'
  BY <1>1 DEF C!OwnHelloOrNone, CTypeOK
<1> QED BY <1>2, <1>3, <1>4, <1>5, <1>6, <1>7

LEMMA CloseInductive == ASSUME NEW c \in Conns, CInv, C!Close(c) PROVE CInv'
<1> USE DEF CInv
<1>1. UNCHANGED <<peer, record, sent, raw, captures, pending, served>>
  BY DEF C!Close
<1>2. \/ phase[c] = "hijacked" /\ phase' = [phase EXCEPT ![c] = "gone"]
      \/ phase[c] = "handshake" /\ phase' = [phase EXCEPT ![c] = "cut"]
      \/ phase[c] = "serving" /\ phase' = [phase EXCEPT ![c] = "closed"]
  <2>1. phase[c] \in {"handshake", "serving", "hijacked"}
    BY DEF C!Close, C!Open
  <2>2. CASE phase[c] = "handshake"
    BY <2>2 DEF C!Close
  <2>3. CASE phase[c] = "serving"
    BY <2>3 DEF C!Close
  <2>4. CASE phase[c] = "hijacked"
    BY <2>4 DEF C!Close
  <2> QED BY <2>1, <2>2, <2>3, <2>4
<1>3. CTypeOK' /\ RecordedIsSent'
  BY <1>1, <1>2 DEF CTypeOK, Phases, RecordedIsSent
<1>4. OneOwner'
  BY <1>1, <1>2 DEF OneOwner, CTypeOK, C!Open
<1>5. PendingServed' /\ EntriesOwned'
  BY <1>1, <1>2 DEF PendingServed, EntriesOwned, CTypeOK
<1>6. OwnEntry'
  BY <1>1, <1>2 DEF OwnEntry, TakenAway, CTypeOK
<1>7. C!OwnHelloOrNone'
  BY <1>1, <1>2 DEF C!OwnHelloOrNone, CTypeOK
<1> QED BY <1>3, <1>4, <1>5, <1>6, <1>7

\* The capture table stays sound however connections that share an address
\* follow one another and however late the hook of an earlier one runs.
THEOREM CapturesAreSound == C!Spec => []CInv
<1>1. C!Init => CInv
  BY WindowsAssumption
     DEF C!Init, CInv, CTypeOK, Phases, OneOwner, RecordedIsSent, EntriesOwned, OwnEntry,
         PendingServed, C!OwnHelloOrNone, C!Open
<1>2. CInv /\ [C!Next]_(C!vars) => CInv'
  <2> SUFFICES ASSUME CInv, [C!Next]_(C!vars) PROVE CInv'
    OBVIOUS
  <2>1. CASE UNCHANGED C!vars
    BY <2>1 DEF C!vars, C!conns, CInv, CTypeOK, OneOwner, RecordedIsSent, EntriesOwned, OwnEntry,
                TakenAway, PendingServed, C!OwnHelloOrNone, C!Open
  <2> QED
    BY <2>1, AcceptInductive, ReadInductive, CaptureInductive, RequestInductive,
       MiddlewareInductive, DeleteInductive, CloseInductive DEF C!Next
<1> QED
  BY <1>1, <1>2, PTL DEF C!Spec

\* While its connection is open a request is given its own ClientHello, none because
\* the late hook of an earlier connection at the address took it away, or the one an
\* earlier connection at the address stored after it was closed in its handshake,
\* for any number of connections and addresses (CaptureCallback, captureForRequest,
\* connState).
THEOREM HelloIsOwn == C!Spec => []OwnHelloOrNone
<1>1. CInv => OwnHelloOrNone
  BY DEF CInv, OwnHelloOrNone
<1> QED BY <1>1, CapturesAreSound, PTL

\* Every entry of the capture table is of an address some connection serves or
\* whose closing is still to be reported (connState).
THEOREM TableIsReclaimed == C!Spec => []CapturesReclaimed
<1>1. CInv => CapturesReclaimed
  BY DEF CInv, EntriesOwned, CapturesReclaimed, C!CapturesReclaimed
<1> QED BY <1>1, CapturesAreSound, PTL

\* A capture is the whole first record and nothing else, up to the cap, however
\* the reads split the client's bytes (WrappedConn.record, RawClientHello).
THEOREM RecordIsWhole == C!Spec => []CapturesWholeRecord
<1>1. CInv => CapturesWholeRecord
  BY DEF CInv, EntriesOwned, CapturesWholeRecord, C!CapturesWholeRecord
<1> QED BY <1>1, CapturesAreSound, PTL

(***************************************************************************)
(* Sequences, entry by entry.                                              *)
(***************************************************************************)
\* Sequences with the same entries are the same.
LEMMA SeqEqual ==
  ASSUME NEW V, NEW s \in Seq(V), NEW t \in Seq(V), Len(s) = Len(t),
         \A i \in 1..Len(s) : s[i] = t[i]
  PROVE  s = t
OBVIOUS

\* What Append, Tail and SubSeq return.
LEMMA AppendEach ==
  ASSUME NEW V, NEW s \in Seq(V), NEW e \in V
  PROVE  /\ Append(s, e) \in Seq(V) /\ Len(Append(s, e)) = Len(s) + 1
         /\ \A i \in 1..Len(s) : Append(s, e)[i] = s[i]
         /\ Append(s, e)[Len(s) + 1] = e
OBVIOUS

LEMMA TailEach ==
  ASSUME NEW V, NEW s \in Seq(V), s # <<>>
  PROVE  /\ Head(s) \in V /\ Tail(s) \in Seq(V) /\ Len(Tail(s)) = Len(s) - 1
         /\ \A i \in 1..Len(Tail(s)) : Tail(s)[i] = s[i + 1]
OBVIOUS

LEMMA PartEach ==
  ASSUME NEW V, NEW s, NEW m \in Int, NEW n \in Int, \A i \in m..n : s[i] \in V
  PROVE  /\ SubSeq(s, m, n) \in Seq(V) /\ Len(SubSeq(s, m, n)) = IF m <= n THEN n - m + 1 ELSE 0
         /\ \A i \in 1..(n - m + 1) : SubSeq(s, m, n)[i] = s[m + i - 1]
OBVIOUS

(***************************************************************************)
(* Subsequences.                                                           *)
(***************************************************************************)
\* A set of naturals has a least element.
LEMMA LeastElement ==
  ASSUME NEW D \in SUBSET Nat, D # {}
  PROVE  \E x \in D : \A y \in D : x <= y
<1> DEFINE R == OpToRel(<, Nat)
<1>1. IsWellFoundedOn(R, Nat)
  BY NatLessThanWellFounded, Zenon
<1>2. \A x, y \in Nat : y < x => <<y, x>> \in R
  BY DEF OpToRel
<1> HIDE DEF R
<1>3. PICK x \in D : \A y \in D : ~(<<y, x>> \in R)
  BY <1>1, WFMin, Zenon
<1>4. ASSUME NEW y \in D PROVE x <= y
  <2>1. x \in Nat /\ y \in Nat /\ ~(<<y, x>> \in R)
    BY <1>3
  <2>2. ~(y < x)
    BY <1>2, <2>1
  <2> QED BY <2>1, <2>2
<1> QED BY <1>4

\* The j-th smallest of an interval.
LEMMA NthOfInterval ==
  ASSUME NEW m \in Nat, NEW n \in Nat, NEW j \in 1..(n - m + 1)
  PROVE  Nth(m..n, j) = m + j - 1
<1>1. ASSUME NEW i \in m..n PROVE Cardinality({k \in m..n : k <= i}) = i - m + 1
  <2>1. {k \in m..n : k <= i} = m..i
    OBVIOUS
  <2>2. m \in Int /\ i \in Int /\ ~(m > i)
    OBVIOUS
  <2> QED BY <2>1, <2>2, FS_Interval, Zenon
<1>2. m + j - 1 \in m..n
  OBVIOUS
<1>3. \A i \in m..n : Cardinality({k \in m..n : k <= i}) = j <=> i = m + j - 1
  BY <1>1
<1> QED BY <1>2, <1>3 DEF Nth

\* A suffix of a sequence, and the same entries selected by their positions.
LEMMA SuffixLemma ==
  ASSUME NEW S, NEW s \in Seq(S), NEW m \in 1..(Len(s) + 1)
  PROVE  /\ SubSeq(s, m, Len(s)) \in Seq(S) /\ Len(SubSeq(s, m, Len(s))) = Len(s) - m + 1
         /\ \A j \in 1..(Len(s) - m + 1) : SubSeq(s, m, Len(s))[j] = s[m + j - 1]
         /\ SelectAt(s, m..Len(s)) = SubSeq(s, m, Len(s))
<1> DEFINE n == Len(s)
           t == SubSeq(s, m, n)
           u == SelectAt(s, m..n)
<1>1. n \in Nat /\ m \in Nat /\ m >= 1 /\ m <= n + 1 /\ n - m + 1 \in Nat
  OBVIOUS
<1>2. \A i \in m..n : s[i] \in S
  BY <1>1
<1> HIDE DEF n
<1>3. /\ t \in Seq(S) /\ Len(t) = IF m <= n THEN n - m + 1 ELSE 0
      /\ \A j \in 1..(n - m + 1) : t[j] = s[m + j - 1]
  BY <1>1, <1>2, PartEach
<1> HIDE DEF t
<1>4. Len(t) = n - m + 1
  BY <1>1, <1>3
<1>5. Cardinality(m..n) = n - m + 1
  <2>1. Cardinality(m..n) = IF m > n THEN 0 ELSE n - m + 1
    BY <1>1, FS_Interval
  <2> QED BY <1>1, <2>1
<1>6. u = [j \in 1..(n - m + 1) |-> s[m + j - 1]]
  BY <1>1, <1>5, NthOfInterval DEF SelectAt
<1>7. u \in Seq(S) /\ Len(u) = n - m + 1 /\ \A j \in 1..(n - m + 1) : u[j] = t[j]
  <2> DEFINE k == n - m + 1
  <2>1. \A j \in 1..k : m + j - 1 \in m..n
    BY <1>1
  <2> HIDE DEF k
  <2>2. u \in [1..k -> S] /\ \A j \in 1..k : u[j] = s[m + j - 1]
    BY <1>2, <1>6, <2>1, Zenon DEF k
  <2> HIDE DEF u
  <2>3. u \in Seq(S) /\ Len(u) = k
    BY <1>1, <2>2 DEF k
  <2> QED BY <1>3, <2>2, <2>3 DEF k
<1> HIDE DEF u
<1>8. u = t
  BY <1>3, <1>4, <1>7, SeqEqual, Zenon
<1> QED BY <1>3, <1>4, <1>8 DEF t, u, n

\* Positions that include every later one are those of a suffix.
LEMMA UpwardClosed ==
  ASSUME NEW n \in Nat, NEW K \in SUBSET (1..n), \A i \in K, j \in 1..n : i < j => j \in K
  PROVE  \E m \in 1..(n + 1) : K = m..n
<1>1. CASE K = {}
  <2>1. n + 1 \in 1..(n + 1) /\ K = (n + 1)..n
    BY <1>1
  <2> QED BY <2>1
<1>2. CASE K # {}
  <2>1. K \subseteq Nat
    OBVIOUS
  <2>2. PICK m \in K : \A y \in K : m <= y
    BY <1>2, <2>1, LeastElement
  <2>3. m \in 1..n /\ \A i \in K : i \in m..n
    BY <2>2
  <2>4. \A i \in m..n : i = m \/ (i \in 1..n /\ m < i)
    BY <2>3
  <2>5. \A i \in m..n : i \in K
    BY <2>2, <2>4
  <2>6. K = m..n
    BY <2>3, <2>5, Zenon
  <2>7. m \in 1..(n + 1)
    BY <2>3
  <2> QED BY <2>6, <2>7
<1> QED BY <1>1, <1>2
(***************************************************************************)
(* The beacon store.                                                       *)
(***************************************************************************)
Stored == [beacon : Beacons, storedAt : Nat]
Ordered(s) == \A i, j \in 1..Len(s) : i < j => s[i].storedAt <= s[j].storedAt

\* Pruning a window that is in order drops a part at its old end.
LEMMA PruneSuffixOf ==
  ASSUME now \in Nat, NEW s \in Seq(Stored), Ordered(s)
  PROVE  \E m \in 1..(Len(s) + 1) :
           /\ Prune(s) = SubSeq(s, m, Len(s))
           /\ \A i \in 1..(m - 1) : s[i].storedAt <= now - MaxAge
<1> DEFINE K == {i \in 1..Len(s) : s[i].storedAt > now - MaxAge}
<1>1. MaxAge \in Nat /\ Len(s) \in Nat /\ \A i \in 1..Len(s) : s[i].storedAt \in Nat
  <2>1. MaxAge \in Nat
    BY BeaconAssumption
  <2>2. Len(s) \in Nat /\ \A i \in 1..Len(s) : s[i] \in Stored
    OBVIOUS
  <2>3. \A e \in Stored : e.storedAt \in Nat
    BY DEF Stored
  <2> QED BY <2>1, <2>2, <2>3
<1>2. \A i \in K, j \in 1..Len(s) : i < j => j \in K
  BY <1>1 DEF Ordered
<1>3. PICK m \in 1..(Len(s) + 1) : K = m..Len(s)
  BY <1>1, <1>2, UpwardClosed, Zenon
<1>4. Prune(s) = SelectAt(s, K)
  BY DEF Prune
<1>5. Prune(s) = SubSeq(s, m, Len(s))
  BY <1>3, <1>4, SuffixLemma, Zenon
<1>6. ASSUME NEW i \in 1..(m - 1) PROVE s[i].storedAt <= now - MaxAge
  <2>1. i \in 1..Len(s) /\ i \notin m..Len(s)
    BY <1>1
  <2>2. ~(s[i].storedAt > now - MaxAge)
    BY <1>3, <2>1
  <2> QED BY <1>1, <2>1, <2>2
<1> QED BY <1>5, <1>6

\* What a suffix of a window in order has of it.
SuffixOf(t, s, m) ==
  /\ t \in Seq(Stored) /\ Ordered(t) /\ Len(t) = Len(s) - m + 1
  /\ \A j \in 1..Len(t) : t[j] = s[m + j - 1]
  /\ t # <<>> => s # <<>> /\ t[Len(t)] = s[Len(s)]
  /\ t = <<>> => m = Len(s) + 1
LEMMA SuffixKeeps ==
  ASSUME NEW s \in Seq(Stored), Ordered(s), NEW m \in 1..(Len(s) + 1)
  PROVE  SuffixOf(SubSeq(s, m, Len(s)), s, m)
<1> DEFINE t == SubSeq(s, m, Len(s))
<1>1. /\ t \in Seq(Stored) /\ Len(t) = Len(s) - m + 1
      /\ \A j \in 1..Len(t) : t[j] = s[m + j - 1]
  BY SuffixLemma
<1> HIDE DEF t
<1>2. Len(s) \in Nat /\ Len(t) \in Nat
  BY <1>1
<1>3. ASSUME NEW i \in 1..Len(t), NEW j \in 1..Len(t), i < j
      PROVE  t[i].storedAt <= t[j].storedAt
  <2>1. m + i - 1 \in 1..Len(s) /\ m + j - 1 \in 1..Len(s) /\ m + i - 1 < m + j - 1
    BY <1>1, <1>2, <1>3
  <2>2. s[m + i - 1].storedAt <= s[m + j - 1].storedAt
    BY <2>1 DEF Ordered
  <2> QED BY <1>1, <2>2
<1>4. Ordered(t)
  BY <1>3 DEF Ordered
<1>5. ASSUME t # <<>> PROVE s # <<>> /\ t[Len(t)] = s[Len(s)]
  <2>1. Len(t) # 0
    BY <1>1, <1>5
  <2>2. Len(t) \in 1..Len(t) /\ m + Len(t) - 1 = Len(s) /\ Len(s) # 0
    BY <1>1, <1>2, <2>1
  <2>3. t[Len(t)] = s[m + Len(t) - 1]
    BY <1>1, <2>2
  <2> QED BY <2>2, <2>3
<1>6. t = <<>> => m = Len(s) + 1
  BY <1>1, <1>2
<1> QED BY <1>1, <1>4, <1>5, <1>6 DEF SuffixOf, t

\* A push keeps a suffix of the window and the new entry, within the limit.
LEMMA PushSuffixOf ==
  ASSUME NEW s, NEW e, NEW n \in Nat, Len(Append(s, e)) = n + 1,
         SubSeq(Append(s, e), 1, n + 1) = Append(s, e)
  PROVE  \E m \in 1..(n + 1) : /\ Push(s, e) = SubSeq(Append(s, e), m, n + 1)
                               /\ n + 1 - m + 1 <= MaxPerKey
<1> DEFINE all == Append(s, e)
<1>1. MaxPerKey \in Nat \ {0}
  BY BeaconAssumption
<1>2. Push(s, e) = IF Len(all) > MaxPerKey THEN SubSeq(all, Len(all) - MaxPerKey + 1, Len(all))
                   ELSE all
  BY DEF Push
<1> HIDE DEF all
<1>3. Len(all) = n + 1 /\ SubSeq(all, 1, n + 1) = all
  BY DEF all
<1>4. CASE n + 1 > MaxPerKey
  <2> DEFINE m == n + 1 - MaxPerKey + 1
  <2>1. m \in 1..(n + 1) /\ n + 1 - m + 1 <= MaxPerKey
    BY <1>1, <1>4
  <2>2. Len(all) > MaxPerKey /\ Len(all) - MaxPerKey + 1 = m
    BY <1>1, <1>3, <1>4
  <2> HIDE DEF m
  <2>3. Push(s, e) = SubSeq(all, m, n + 1)
    BY <1>2, <1>3, <2>2, Zenon
  <2> QED BY <2>1, <2>3, Zenon DEF all
<1>5. CASE ~(n + 1 > MaxPerKey)
  <2>1. 1 \in 1..(n + 1) /\ n + 1 - 1 + 1 <= MaxPerKey
    BY <1>1, <1>5
  <2>2. Push(s, e) = SubSeq(all, 1, n + 1)
    BY <1>2, <1>3, <1>5
  <2> QED BY <2>1, <2>2 DEF all
<1> QED BY <1>4, <1>5, Zenon

\* The new entry joins a window in order when none of it is younger.
LEMMA AppendKeeps ==
  ASSUME NEW s \in Seq(Stored), Ordered(s), NEW e \in Stored,
         \A i \in 1..Len(s) : s[i].storedAt <= e.storedAt
  PROVE  /\ Append(s, e) \in Seq(Stored) /\ Ordered(Append(s, e))
         /\ Len(Append(s, e)) = Len(s) + 1 /\ Append(s, e)[Len(s) + 1] = e
         /\ \A i \in 1..(Len(s) + 1) : Append(s, e)[i].storedAt <= e.storedAt
<1> DEFINE all == Append(s, e)
           n == Len(s)
<1>1. /\ all \in Seq(Stored) /\ Len(all) = n + 1 /\ all[n + 1] = e /\ n \in Nat
      /\ \A i \in 1..n : all[i] = s[i]
  BY AppendEach
<1> HIDE DEF all
<1>2. \A i \in 1..(n + 1) : i \in 1..n \/ i = n + 1
  BY <1>1
<1>3. e.storedAt \in Nat
  BY DEF Stored
<1>4. \A i \in 1..(n + 1) : all[i].storedAt <= e.storedAt
  BY <1>1, <1>2, <1>3
<1>5. Ordered(all)
  <2> SUFFICES ASSUME NEW i \in 1..(n + 1), NEW j \in 1..(n + 1), i < j
               PROVE  all[i].storedAt <= all[j].storedAt
    BY <1>1 DEF Ordered
  <2>1. CASE j = n + 1
    BY <1>1, <1>4, <2>1
  <2>2. CASE j \in 1..n
    <3>1. i \in 1..n
      BY <1>1, <2>2
    <3> QED BY <1>1, <2>2, <3>1 DEF Ordered
  <2> QED BY <1>2, <2>1, <2>2
<1> QED BY <1>1, <1>4, <1>5 DEF all

\* A push keeps the window in order and within its limit, and ends it in the new entry.
LEMMA PushKeeps ==
  ASSUME NEW s \in Seq(Stored), Ordered(s), NEW e \in Stored,
         \A i \in 1..Len(s) : s[i].storedAt <= e.storedAt
  PROVE  /\ Push(s, e) \in Seq(Stored) /\ Ordered(Push(s, e)) /\ Len(Push(s, e)) <= MaxPerKey
         /\ Push(s, e) # <<>> /\ Push(s, e)[Len(Push(s, e))] = e
         /\ \A i \in 1..Len(Push(s, e)) : Push(s, e)[i].storedAt <= e.storedAt
<1> DEFINE all == Append(s, e)
           n == Len(s)
           p == Push(s, e)
<1>1. /\ all \in Seq(Stored) /\ Ordered(all) /\ Len(all) = n + 1 /\ all[n + 1] = e
      /\ \A i \in 1..(n + 1) : all[i].storedAt <= e.storedAt
  BY AppendKeeps
<1>2. n \in Nat
  OBVIOUS
<1> HIDE DEF all, n
<1>3. SubSeq(all, 1, n + 1) = all
  BY <1>1, <1>2
<1>4. PICK m \in 1..(n + 1) : p = SubSeq(all, m, n + 1) /\ n + 1 - m + 1 <= MaxPerKey
  BY <1>1, <1>2, <1>3, PushSuffixOf, Zenon DEF all
<1> HIDE DEF p
<1>5. m \in 1..(Len(all) + 1) /\ p = SubSeq(all, m, Len(all))
  BY <1>1, <1>2, <1>4
<1>6. /\ p \in Seq(Stored) /\ Ordered(p) /\ Len(p) = Len(all) - m + 1
      /\ \A j \in 1..Len(p) : p[j] = all[m + j - 1]
      /\ p # <<>> => p[Len(p)] = all[Len(all)]
      /\ p = <<>> => m = Len(all) + 1
  <2>1. all \in Seq(Stored) /\ Ordered(all)
    BY <1>1
  <2>2. SuffixOf(SubSeq(all, m, Len(all)), all, m)
    BY <1>5, <2>1, SuffixKeeps
  <2>3. SuffixOf(p, all, m)
    BY <1>5, <2>2
  <2> QED BY <2>3 DEF SuffixOf
<1>7. p # <<>> /\ Len(p) <= MaxPerKey
  BY <1>1, <1>2, <1>4, <1>6
<1>8. p[Len(p)] = e
  BY <1>1, <1>6, <1>7
<1>9. ASSUME NEW i \in 1..Len(p) PROVE p[i].storedAt <= e.storedAt
  <2>1. m + i - 1 \in 1..(n + 1)
    BY <1>1, <1>2, <1>6
  <2> QED BY <1>1, <1>6, <2>1
<1> QED BY <1>6, <1>7, <1>8, <1>9 DEF p

\* The store: every window is in order, within its limit and of the past, and ends
\* in the newest entry ever stored under its key; a window is empty only when
\* nothing was stored or what was is over age.
WindowOK(w) ==
  /\ w \in Seq(Stored) /\ Len(w) <= MaxPerKey /\ Ordered(w)
  /\ \A i \in 1..Len(w) : w[i].storedAt <= now
Newest(w, l) == IF w # <<>> THEN l = <<w[Len(w)]>>
                ELSE l = <<>> \/ (l[1].storedAt \in Nat /\ now - l[1].storedAt >= MaxAge)
BInv ==
  /\ now \in Nat
  /\ window \in [Keys -> Seq(Stored)] /\ DOMAIN last = Keys
  /\ \A k \in Keys : WindowOK(window[k]) /\ Newest(window[k], last[k])

\* Pruning keeps a window sound and its newest entry as long as it is not over age.
LEMMA PruneKeeps ==
  ASSUME now \in Nat, NEW w, WindowOK(w), NEW l, Newest(w, l)
  PROVE  WindowOK(Prune(w)) /\ Newest(Prune(w), l)
<1> USE DEF WindowOK
<1>1. PICK m \in 1..(Len(w) + 1) :
        /\ Prune(w) = SubSeq(w, m, Len(w))
        /\ \A i \in 1..(m - 1) : w[i].storedAt <= now - MaxAge
  BY PruneSuffixOf
<1> DEFINE p == Prune(w)
<1>2. /\ p \in Seq(Stored) /\ Ordered(p) /\ Len(p) = Len(w) - m + 1
      /\ \A j \in 1..Len(p) : p[j] = w[m + j - 1]
      /\ p # <<>> => w # <<>> /\ p[Len(p)] = w[Len(w)]
      /\ p = <<>> => m = Len(w) + 1
  BY <1>1, SuffixKeeps DEF SuffixOf
<1> HIDE DEF p
<1>3. MaxPerKey \in Nat /\ MaxAge \in Nat /\ Len(w) \in Nat /\ Len(p) \in Nat
  BY <1>2, BeaconAssumption
<1>4. ASSUME NEW i \in 1..Len(p) PROVE p[i].storedAt <= now
  <2>1. m + i - 1 \in 1..Len(w)
    BY <1>2, <1>3
  <2> QED BY <1>2, <2>1
<1>5. Len(p) <= MaxPerKey
  BY <1>2, <1>3
<1>6. Newest(p, l)
  <2>1. CASE p # <<>>
    BY <1>2, <2>1 DEF Newest
  <2>2. CASE p = <<>> /\ w = <<>>
    BY <2>2 DEF Newest
  <2>3. CASE p = <<>> /\ w # <<>>
    <3>1. Len(w) \in 1..(m - 1) /\ Len(w) \in 1..Len(w)
      BY <1>2, <1>3, <2>3
    <3>2. w[Len(w)] \in Stored /\ w[Len(w)].storedAt <= now - MaxAge
      BY <1>1, <3>1
    <3>3. w[Len(w)].storedAt \in Nat
      BY <3>2 DEF Stored
    <3>4. now - w[Len(w)].storedAt >= MaxAge
      BY <1>3, <3>2, <3>3
    <3>5. l = <<w[Len(w)]>>
      BY <2>3 DEF Newest
    <3>6. l[1] = w[Len(w)]
      BY <3>5
    <3> QED BY <2>3, <3>3, <3>4, <3>6 DEF Newest
  <2> QED BY <2>1, <2>2, <2>3
<1> QED BY <1>2, <1>4, <1>5, <1>6 DEF p

\* Storing under a key keeps its window sound and makes the entry its newest.
LEMMA StoreKeeps ==
  ASSUME now \in Nat, NEW w, WindowOK(w), NEW b \in Beacons
  PROVE  WindowOK(Push(w, Entry(b))) /\ Newest(Push(w, Entry(b)), <<Entry(b)>>)
<1>1. Entry(b) \in Stored /\ Entry(b).storedAt = now
  BY DEF Entry, Stored
<1> DEFINE p == Push(w, Entry(b))
<1>2. /\ p \in Seq(Stored) /\ Ordered(p) /\ Len(p) <= MaxPerKey
      /\ p # <<>> /\ p[Len(p)] = Entry(b)
      /\ \A i \in 1..Len(p) : p[i].storedAt <= Entry(b).storedAt
  BY <1>1, PushKeeps DEF WindowOK
<1> HIDE DEF p
<1>3. WindowOK(p)
  BY <1>1, <1>2 DEF WindowOK
<1>4. Newest(p, <<Entry(b)>>)
  BY <1>2 DEF Newest
<1> QED BY <1>3, <1>4 DEF p

LEMMA WriteInductive ==
  ASSUME BInv, NEW keys \in SUBSET Keys, NEW b \in Beacons, Write(keys, b)
  PROVE  BInv'
<1> USE DEF BInv
<1>1. now' = now
  BY DEF Write
<1>2. ASSUME NEW k \in Keys
      PROVE  window'[k] \in Seq(Stored) /\ WindowOK(window'[k]) /\ Newest(window'[k], last'[k])
  <2>1. WindowOK(Prune(window[k])) /\ Newest(Prune(window[k]), last[k])
    BY PruneKeeps
  <2>a. now \in Nat
    OBVIOUS
  <2> HIDE DEF BInv
  <2>2. /\ WindowOK(Push(Prune(window[k]), Entry(b)))
        /\ Newest(Push(Prune(window[k]), Entry(b)), <<Entry(b)>>)
    BY <2>1, <2>a, StoreKeeps, Zenon
  <2>3. CASE k \in keys
    <3>1. window'[k] = Push(Prune(window[k]), Entry(b)) /\ last'[k] = <<Entry(b)>>
      BY <2>3 DEF Write
    <3>2. WindowOK(window'[k]) /\ Newest(window'[k], last'[k])
      BY <2>2, <3>1, Zenon
    <3> QED BY <3>2, Zenon DEF WindowOK
  <2>4. CASE k \notin keys
    <3>1. window'[k] = Prune(window[k]) /\ last'[k] = last[k]
      BY <2>4 DEF Write
    <3>2. WindowOK(window'[k]) /\ Newest(window'[k], last'[k])
      BY <2>1, <3>1, Zenon
    <3> QED BY <3>2, Zenon DEF WindowOK
  <2> QED BY <2>3, <2>4
<1>3. DOMAIN window' = Keys /\ window' = [k \in Keys |-> window'[k]] /\ DOMAIN last' = Keys
  BY DEF Write
<1>4. window' \in [Keys -> Seq(Stored)]
  BY <1>2, <1>3
<1>5. \A k \in Keys : (WindowOK(window[k]) /\ Newest(window[k], last[k]))'
  <2> SUFFICES ASSUME NEW k \in Keys PROVE (WindowOK(window[k]) /\ Newest(window[k], last[k]))'
    BY Zenon
  <2> HIDE DEF BInv
  <2>1. WindowOK(window'[k]) /\ Newest(window'[k], last'[k])
    BY <1>2, Zenon
  <2> QED BY <1>1, <2>1, Zenon DEF WindowOK, Newest
<1> QED BY <1>1, <1>3, <1>4, <1>5

LEMMA TickInductive == ASSUME BInv, Tick PROVE BInv'
<1> USE DEF BInv, Tick
<1>1. now' \in Nat /\ now' = now + 1 /\ window' = window /\ last' = last /\ MaxAge \in Nat
  BY BeaconAssumption
<1>2. ASSUME NEW k \in Keys PROVE WindowOK(window[k])' /\ Newest(window[k], last[k])'
  <2>1. WindowOK(window[k]) /\ Newest(window[k], last[k])
    OBVIOUS
  <2>2. \A i \in 1..Len(window[k]) : window[k][i] \in Stored
    BY <2>1 DEF WindowOK
  <2>3. \A e \in Stored : e.storedAt \in Nat
    BY DEF Stored
  <2>4. \A i \in 1..Len(window[k]) : window[k][i].storedAt <= now + 1
    BY <2>1, <2>2, <2>3 DEF WindowOK
  <2>5. WindowOK(window[k])'
    BY <1>1, <2>1, <2>4 DEF WindowOK
  <2>6. Newest(window[k], last[k])'
    BY <1>1, <2>1 DEF Newest
  <2> QED BY <2>5, <2>6
<1> QED BY <1>1, <1>2

\* The store stays sound under every mix of writes and time.
THEOREM StoreIsSound == Spec => []BInv
<1>1. Init => BInv
  <2> SUFFICES ASSUME Init PROVE BInv
    OBVIOUS
  <2>1. \A k \in Keys : window[k] = <<>> /\ last[k] = <<>>
    BY DEF Init
  <2>2. WindowOK(<<>>) /\ Newest(<<>>, <<>>)
    BY BeaconAssumption DEF WindowOK, Newest, Ordered
  <2>3. \A k \in Keys : WindowOK(window[k]) /\ Newest(window[k], last[k])
    BY <2>1, <2>2
  <2> QED BY <2>3 DEF Init, BInv
<1>2. BInv /\ [Next]_vars => BInv'
  <2> SUFFICES ASSUME BInv, [Next]_vars PROVE BInv'
    OBVIOUS
  <2>1. CASE UNCHANGED vars
    BY <2>1 DEF vars, BInv, WindowOK, Newest
  <2>2. ASSUME NEW s \in Sessions, NEW b \in Beacons, Ingest(s, b) PROVE BInv'
    BY <2>2, WriteInductive DEF Ingest, Keys
  <2>3. ASSUME NEW s \in Sessions, NEW b \in Beacons, NEW a \in Addresses,
               IngestFromRequest(s, a, b)
        PROVE  BInv'
    BY <2>3, WriteInductive DEF IngestFromRequest, Keys
  <2> QED BY <2>1, <2>2, <2>3, TickInductive DEF Next
<1> QED
  BY <1>1, <1>2, PTL DEF Spec

\* No window is over beaconMaxPerKey or out of order, for every limit and any
\* number of sessions and addresses (push, pruneBeaconMap).
THEOREM WindowsStayBounded == Spec => []WindowsBoundedAndOrdered
<1>1. BInv => WindowsBoundedAndOrdered
  BY DEF BInv, WindowOK, Ordered, WindowsBoundedAndOrdered
<1> QED BY <1>1, StoreIsSound, PTL

\* The newest beacon under a key is what the store answers with while it is
\* younger than beaconMaxAge, and no older one ever is (GetBySession, GetByIP).
THEOREM NewestStaysServed == Spec => []NewestIsServed
<1>1. BInv => NewestIsServed
  <2> SUFFICES ASSUME BInv, NEW k \in Keys
               PROVE  /\ Get(k) # <<>> => Get(k) = last[k]
                      /\ (last[k] # <<>> /\ now - last[k][1].storedAt < MaxAge) => Get(k) = last[k]
    BY DEF NewestIsServed
  <2>1. Newest(window[k], last[k]) /\ now \in Nat /\ MaxAge \in Nat
    BY BeaconAssumption DEF BInv
  <2>2. CASE window[k] # <<>>
    BY <2>1, <2>2 DEF Newest, Get
  <2>3. CASE window[k] = <<>>
    BY <2>1, <2>3 DEF Newest, Get
  <2> QED BY <2>2, <2>3
<1> QED BY <1>1, StoreIsSound, PTL

(***************************************************************************)
(* The audit ring.                                                         *)
(***************************************************************************)
\* What a ring b of N slots with its next write at h and c entries holds, oldest
\* first.
Ring(N, b, h, c) == [i \in 1..c |-> b[((IF c = N THEN h ELSE 0) + i - 1) % N]]

\* A ring's position wraps around once at most.
LEMMA Wrap ==
  ASSUME NEW N \in Nat \ {0}, NEW x \in 0..(2 * N - 1)
  PROVE  x % N = IF x < N THEN x ELSE x - N
<1>1. x = N * (x \div N) + (x % N) /\ x % N \in 0..(N - 1) /\ x \div N \in Nat
  OBVIOUS
<1>2. x \div N < 2
  BY <1>1
<1>3. x \div N = 0 \/ x \div N = 1
  BY <1>1, <1>2
<1> QED BY <1>1, <1>3

LEMMA Turn ==
  ASSUME NEW N \in Nat \ {0}, NEW h \in 0..(N - 1)
  PROVE  (h + 1) % N = IF h + 1 < N THEN h + 1 ELSE 0
<1> DEFINE x == h + 1
<1>1. x \in 0..(2 * N - 1) /\ (~(x < N) => x - N = 0)
  OBVIOUS
<1> HIDE DEF x
<1>2. x % N = IF x < N THEN x ELSE x - N
  BY <1>1, Wrap
<1>3. x % N = IF x < N THEN x ELSE 0
  BY <1>1, <1>2
<1> QED BY <1>3 DEF x

\* The entries of a ring, by their slots.
IsRing(r, N, V, b, h, c) ==
  /\ r \in Seq(V) /\ Len(r) = c
  /\ \A i \in 1..c : r[i] =
       IF c < N THEN b[i - 1] ELSE IF h + i - 1 < N THEN b[h + i - 1] ELSE b[h + i - 1 - N]
LEMMA RingType ==
  ASSUME NEW N \in Nat \ {0}, NEW V, NEW b \in [0..(N - 1) -> V],
         NEW h \in 0..(N - 1), NEW c \in 0..N
  PROVE  IsRing(Ring(N, b, h, c), N, V, b, h, c)
<1> DEFINE r == Ring(N, b, h, c)
<1>1. ASSUME NEW i \in 1..c
      PROVE  ((IF c = N THEN h ELSE 0) + i - 1) % N
               = IF c < N THEN i - 1 ELSE IF h + i - 1 < N THEN h + i - 1 ELSE h + i - 1 - N
  <2> DEFINE x == (IF c = N THEN h ELSE 0) + i - 1
  <2>1. x \in 0..(2 * N - 1)
    OBVIOUS
  <2>2. x = IF c < N THEN i - 1 ELSE h + i - 1
    OBVIOUS
  <2> HIDE DEF x
  <2>3. x % N = IF x < N THEN x ELSE x - N
    BY <2>1, Wrap, Zenon
  <2>4. x % N = IF c < N THEN i - 1 ELSE IF h + i - 1 < N THEN h + i - 1 ELSE h + i - 1 - N
    BY <2>2, <2>3
  <2> QED BY <2>4 DEF x
<1>2. ASSUME NEW i \in 1..c
      PROVE  (IF c < N THEN i - 1 ELSE IF h + i - 1 < N THEN h + i - 1 ELSE h + i - 1 - N)
               \in 0..(N - 1)
  OBVIOUS
<1>3. /\ r = [i \in 1..c |-> b[((IF c = N THEN h ELSE 0) + i - 1) % N]]
      /\ c \in Nat
  BY DEF Ring
<1>4. \A i \in 1..c : b[((IF c = N THEN h ELSE 0) + i - 1) % N] \in V
  BY <1>1, <1>2
<1>5. r \in [1..c -> V]
  BY <1>3, <1>4
<1>6. r \in Seq(V) /\ Len(r) = c
  BY <1>3, <1>5
<1>7. \A i \in 1..c : r[i] =
         b[IF c < N THEN i - 1 ELSE IF h + i - 1 < N THEN h + i - 1 ELSE h + i - 1 - N]
  BY <1>1, <1>3, Zenon
<1> HIDE DEF r
<1>8. \A i \in 1..c : r[i] =
         IF c < N THEN b[i - 1] ELSE IF h + i - 1 < N THEN b[h + i - 1] ELSE b[h + i - 1 - N]
  BY <1>7
<1> QED BY <1>6, <1>8 DEF r, IsRing

\* A write to a ring that is not full adds an entry at the end.
LEMMA RingGrows ==
  ASSUME NEW N \in Nat \ {0}, NEW V, NEW b \in [0..(N - 1) -> V], NEW e \in V,
         NEW c \in 0..(N - 1)
  PROVE  Ring(N, [b EXCEPT ![c] = e], (c + 1) % N, c + 1) = Append(Ring(N, b, c, c), e)
<1> DEFINE d == [b EXCEPT ![c] = e]
           h == (c + 1) % N
           r == Ring(N, b, c, c)
           q == Ring(N, d, h, c + 1)
           a == Append(r, e)
<1>1. h = IF c + 1 < N THEN c + 1 ELSE 0
  BY Turn
<1> HIDE DEF h
<1>2. /\ h \in 0..(N - 1) /\ c + 1 \in 0..N /\ c \in 0..N /\ c \in 0..(N - 1)
      /\ c \in Nat /\ c < N
  BY <1>1
<1>3. d \in [0..(N - 1) -> V] /\ d[c] = e /\ \A i \in 0..(N - 1) : i # c => d[i] = b[i]
  OBVIOUS
<1> HIDE DEF d
<1>4. /\ r \in Seq(V) /\ Len(r) = c
      /\ \A i \in 1..c : r[i] =
           IF c < N THEN b[i - 1] ELSE IF c + i - 1 < N THEN b[c + i - 1] ELSE b[c + i - 1 - N]
  <2>1. IsRing(r, N, V, b, c, c)
    BY <1>2, RingType
  <2> HIDE DEF r
  <2> QED BY <2>1 DEF IsRing
<1>5. /\ q \in Seq(V) /\ Len(q) = c + 1
      /\ \A i \in 1..(c + 1) : q[i] =
           IF c + 1 < N THEN d[i - 1] ELSE IF h + i - 1 < N THEN d[h + i - 1] ELSE d[h + i - 1 - N]
  <2>1. IsRing(q, N, V, d, h, c + 1)
    BY <1>2, <1>3, RingType
  <2> HIDE DEF q
  <2> QED BY <2>1 DEF IsRing
<1> HIDE DEF r, q
<1>6. /\ a \in Seq(V) /\ Len(a) = c + 1 /\ a[c + 1] = e
      /\ \A i \in 1..c : a[i] = r[i]
  BY <1>4, AppendEach
<1> HIDE DEF a
<1>7. ASSUME NEW i \in 1..(c + 1) PROVE q[i] = a[i]
  <2>1. q[i] = d[i - 1]
    <3>1. CASE c + 1 < N
      BY <1>5, <3>1
    <3>2. CASE ~(c + 1 < N)
      <4>1. h = 0 /\ i - 1 < N /\ h + i - 1 = i - 1
        BY <1>1, <1>2, <3>2
      <4> QED BY <1>5, <3>2, <4>1
    <3> QED BY <3>1, <3>2
  <2>2. CASE i = c + 1
    <3>1. i - 1 = c
      BY <1>2, <2>2
    <3> QED BY <1>3, <1>6, <2>1, <2>2, <3>1
  <2>3. CASE i # c + 1
    <3>1. i \in 1..c /\ i - 1 \in 0..(N - 1) /\ i - 1 # c
      BY <1>2, <2>3
    <3> QED BY <1>2, <1>3, <1>4, <1>6, <2>1, <3>1
  <2> QED BY <2>2, <2>3
<1>8. q = a
  BY <1>5, <1>6, <1>7, SeqEqual
<1> QED BY <1>8, Zenon DEF q, a, r, d, h

\* A write to a full ring drops its oldest entry and adds one at the end.
LEMMA RingTurns ==
  ASSUME NEW N \in Nat \ {0}, NEW V, NEW b \in [0..(N - 1) -> V], NEW e \in V,
         NEW h \in 0..(N - 1)
  PROVE  Ring(N, [b EXCEPT ![h] = e], (h + 1) % N, N)
           = SubSeq(Append(Ring(N, b, h, N), e), 2, N + 1)
<1> DEFINE d == [b EXCEPT ![h] = e]
           g == (h + 1) % N
           r == Ring(N, b, h, N)
           q == Ring(N, d, g, N)
           a == Append(r, e)
           t == SubSeq(a, 2, N + 1)
<1>1. g = IF h + 1 < N THEN h + 1 ELSE 0
  BY Turn
<1> HIDE DEF g
<1>2. g \in 0..(N - 1) /\ N \in 0..N /\ ~(N < N)
  BY <1>1
<1>3. d \in [0..(N - 1) -> V] /\ d[h] = e /\ \A i \in 0..(N - 1) : i # h => d[i] = b[i]
  OBVIOUS
<1> HIDE DEF d
<1>4. /\ r \in Seq(V) /\ Len(r) = N
      /\ \A i \in 1..N : r[i] =
           IF N < N THEN b[i - 1] ELSE IF h + i - 1 < N THEN b[h + i - 1] ELSE b[h + i - 1 - N]
  <2>1. IsRing(r, N, V, b, h, N)
    BY <1>2, RingType
  <2> HIDE DEF r
  <2> QED BY <2>1 DEF IsRing
<1>5. /\ q \in Seq(V) /\ Len(q) = N
      /\ \A i \in 1..N : q[i] =
           IF N < N THEN d[i - 1] ELSE IF g + i - 1 < N THEN d[g + i - 1] ELSE d[g + i - 1 - N]
  <2>1. IsRing(q, N, V, d, g, N)
    BY <1>2, <1>3, RingType
  <2> HIDE DEF q
  <2> QED BY <2>1 DEF IsRing
<1> HIDE DEF r, q
<1>6. /\ a \in Seq(V) /\ Len(a) = N + 1 /\ a[N + 1] = e
      /\ \A i \in 1..N : a[i] = r[i]
  <2>1. r \in Seq(V) /\ Len(r) = N
    BY <1>4
  <2>2. /\ a \in Seq(V) /\ Len(a) = Len(r) + 1 /\ a[Len(r) + 1] = e
        /\ \A i \in 1..Len(r) : a[i] = r[i]
    BY <2>1, AppendEach
  <2> HIDE DEF a
  <2> QED BY <2>1, <2>2
<1> HIDE DEF a
<1>7. t \in Seq(V) /\ Len(t) = N /\ \A i \in 1..N : t[i] = a[i + 1]
  <2>1. 2 \in Int /\ N + 1 \in Int /\ \A i \in 2..(N + 1) : a[i] \in V
    BY <1>6
  <2>2. /\ t \in Seq(V) /\ Len(t) = IF 2 <= N + 1 THEN (N + 1) - 2 + 1 ELSE 0
        /\ \A i \in 1..((N + 1) - 2 + 1) : t[i] = a[2 + i - 1]
    BY <2>1, PartEach
  <2> HIDE DEF t
  <2>3. (N + 1) - 2 + 1 = N /\ 2 <= N + 1 /\ \A i \in 1..N : 2 + i - 1 = i + 1
    OBVIOUS
  <2> QED BY <2>2, <2>3
<1> HIDE DEF t
<1>8. ASSUME NEW i \in 1..N PROVE q[i] = t[i]
  <2>1. CASE i = N
    <3>1. q[i] = d[h]
      <4>1. CASE h + 1 < N
        <5>1. ~(g + i - 1 < N) /\ g + i - 1 - N = h
          BY <1>1, <2>1, <4>1
        <5> QED BY <1>2, <1>5, <5>1
      <4>2. CASE ~(h + 1 < N)
        <5>1. g + i - 1 < N /\ g + i - 1 = h
          BY <1>1, <2>1, <4>2
        <5> QED BY <1>2, <1>5, <5>1, Zenon
      <4> QED BY <4>1, <4>2
    <3>2. t[i] = a[N + 1]
      BY <1>7, <2>1
    <3> QED BY <1>3, <1>6, <3>1, <3>2
  <2>2. CASE i # N
    <3>1. i + 1 \in 1..N /\ i \in 1..N
      BY <2>2
    <3>2. t[i] = r[i + 1]
      BY <1>6, <1>7, <3>1
    <3>3. CASE h + i < N
      <4>1. h + (i + 1) - 1 < N /\ h + (i + 1) - 1 = h + i /\ g + i - 1 < N /\ g + i - 1 = h + i
        BY <1>1, <3>1, <3>3
      <4>2. h + i \in 0..(N - 1) /\ h + i # h
        BY <3>1, <3>3
      <4>3. r[i + 1] = b[h + i]
        BY <1>2, <1>4, <3>1, <4>1
      <4>4. q[i] = d[h + i]
        BY <1>2, <1>5, <3>1, <4>1, Zenon
      <4> QED BY <1>3, <3>2, <4>2, <4>3, <4>4
    <3>4. CASE ~(h + i < N)
      <4> DEFINE k == h + i - N
      <4>1. ~(h + (i + 1) - 1 < N) /\ h + (i + 1) - 1 - N = k
        BY <3>1, <3>4
      <4>2. k \in 0..(N - 1) /\ k # h
        BY <2>2, <3>1, <3>4
      <4>3. r[i + 1] = b[k]
        BY <1>2, <1>4, <3>1, <4>1
      <4>4. q[i] = d[k]
        <5>1. CASE h + 1 < N
          <6>1. ~(g + i - 1 < N) /\ g + i - 1 - N = k
            BY <1>1, <3>1, <3>4, <5>1
          <6> QED BY <1>2, <1>5, <3>1, <6>1
        <5>2. CASE ~(h + 1 < N)
          <6>1. g + i - 1 < N /\ g + i - 1 = k
            BY <1>1, <3>1, <3>4, <5>2
          <6> QED BY <1>2, <1>5, <3>1, <6>1
        <5> QED BY <5>1, <5>2
      <4> HIDE DEF k
      <4> QED BY <1>3, <3>2, <4>2, <4>3, <4>4
    <3> QED BY <3>3, <3>4
  <2> QED BY <2>1, <2>2
<1>9. q = t
  BY <1>5, <1>7, <1>8, SeqEqual
<1> QED BY <1>9, ZenonT(40) DEF q, t, a, r, d, g

\* The ring's slots, the places its counters can be at, and what waits to be written.
Slots == A!Entries \cup {A!Empty}
AInv ==
  /\ now \in 0..MaxTime /\ stamped \subseteq A!Entries
  /\ buf \in [0..(AuditSize - 1) -> Slots]
  /\ head \in 0..(AuditSize - 1) /\ count \in 0..AuditSize
  /\ count < AuditSize => head = count

LEMMA AuditInductive == AInv /\ [A!Next]_(A!vars) => AInv'
<1> SUFFICES ASSUME AInv, [A!Next]_(A!vars) PROVE AInv'
  OBVIOUS
<1> USE DEF AInv
<1>1. AuditSize \in Nat \ {0} /\ MaxTime \in Nat
  BY WindowsAssumption, BeaconAssumption
<1>2. CASE A!Tick
  BY <1>1, <1>2 DEF A!Tick
<1>3. ASSUME NEW r \in Requests, A!Stamp(r) PROVE AInv'
  BY <1>1, <1>3 DEF A!Stamp, A!Entries, A!Times
<1>4. ASSUME NEW e \in stamped, A!Record(e) PROVE AInv'
  <2>1. head' = IF head + 1 < AuditSize THEN head + 1 ELSE 0
    BY <1>1, <1>4, Turn, Zenon DEF A!Record
  <2>2. head' \in 0..(AuditSize - 1) /\ count' \in 0..AuditSize /\ (count' < AuditSize => head' = count')
    BY <1>1, <1>4, <2>1 DEF A!Record
  <2>3. buf' \in [0..(AuditSize - 1) -> Slots]
    BY <1>4 DEF A!Record, Slots
  <2> QED BY <1>4, <2>2, <2>3 DEF A!Record
<1>5. CASE UNCHANGED A!vars
  BY <1>5 DEF A!vars
<1> QED BY <1>2, <1>3, <1>4, <1>5 DEF A!Next

\* Nothing is older than the beginning of time.
LEMMA AllSince ==
  ASSUME NEW r \in Seq(Slots)
  PROVE  SelectAt(r, {i \in 1..Len(r) : r[i].at >= 0}) = r
<1>1. MaxTime \in Nat /\ Len(r) \in Nat
  BY BeaconAssumption
<1>2. \A e \in Slots : e.at \in 0..MaxTime
  <2>1. \A e \in A!Entries : e.at \in 0..MaxTime
    BY DEF A!Entries, A!Times
  <2>2. A!Empty.at \in 0..MaxTime
    BY <1>1 DEF A!Empty
  <2> QED BY <2>1, <2>2 DEF Slots
<1>3. \A i \in 1..Len(r) : r[i] \in Slots
  OBVIOUS
<1>4. \A i \in 1..Len(r) : r[i].at >= 0
  BY <1>1, <1>2, <1>3
<1>5. {i \in 1..Len(r) : r[i].at >= 0} = 1..Len(r)
  BY <1>4
<1>6. SelectAt(r, 1..Len(r)) = SubSeq(r, 1, Len(r))
  <2>1. 1 \in 1..(Len(r) + 1)
    BY <1>1
  <2> QED BY <2>1, SuffixLemma
<1>7. SubSeq(r, 1, Len(r)) = r
  OBVIOUS
<1> QED BY <1>5, <1>6, <1>7, Zenon

\* What Since(0) lists is what the ring holds.
LEMMA SinceIsRing ==
  ASSUME NEW b \in [0..(AuditSize - 1) -> Slots], NEW h \in 0..(AuditSize - 1),
         NEW c \in 0..AuditSize
  PROVE  LET r == Ring(AuditSize, b, h, c)
         IN  SelectAt(r, {i \in 1..c : r[i].at >= 0}) = r /\ r \in Seq(Slots) /\ Len(r) = c
<1>1. AuditSize \in Nat \ {0}
  BY WindowsAssumption
<1> DEFINE r == Ring(AuditSize, b, h, c)
<1>2. IsRing(r, AuditSize, Slots, b, h, c)
  BY <1>1, RingType
<1> HIDE DEF r
<1>3. r \in Seq(Slots) /\ Len(r) = c
  BY <1>2 DEF IsRing
<1>4. SelectAt(r, {i \in 1..c : r[i].at >= 0}) = r
  BY <1>3, AllSince
<1> QED BY <1>3, <1>4, Zenon DEF r

LEMMA SameCardinality == \A K : A!Cardinality(K) = Cardinality(K) /\ T!Cardinality(K) = Cardinality(K)
BY DEF A!Cardinality, T!Cardinality, Cardinality

LEMMA SameSelection == \A s, K : A!SelectAt(s, K) = SelectAt(s, K)
BY DEF A!SelectAt, SelectAt, A!Nth, Nth, A!Cardinality, Cardinality

LEMMA ListedIsRing ==
  ASSUME AInv, AInv'
  PROVE  /\ A!Since(0) = Ring(AuditSize, buf, head, count)
         /\ A!Since(0)' = Ring(AuditSize, buf', head', count')
<1> DEFINE r == Ring(AuditSize, buf, head, count)
           q == Ring(AuditSize, buf', head', count')
<1>1. A!Contents = r /\ A!Contents' = q
  BY DEF A!Contents, A!Start, Ring
<1>2. /\ SelectAt(r, {i \in 1..count : r[i].at >= 0}) = r
      /\ SelectAt(q, {i \in 1..count' : q[i].at >= 0}) = q
  BY SinceIsRing DEF AInv
<1> HIDE DEF r, q
<1>3. A!Since(0) = r
  BY <1>1, <1>2, SameSelection DEF A!Since
<1>4. A!Since(0)' = q
  BY <1>1, <1>2, SameSelection DEF A!Since
<1> QED BY <1>3, <1>4 DEF r, q

\* One write to the ring is one write to the log.
LEMMA RecordWrites ==
  ASSUME NEW b \in [0..(AuditSize - 1) -> Slots], NEW h \in 0..(AuditSize - 1),
         NEW c \in 0..AuditSize, c < AuditSize => h = c, NEW e \in Slots
  PROVE  Ring(AuditSize, [b EXCEPT ![h] = e], (h + 1) % AuditSize,
              IF c < AuditSize THEN c + 1 ELSE c)
           = A!Log!Newest(Append(Ring(AuditSize, b, h, c), e))
<1>1. AuditSize \in Nat \ {0}
  BY WindowsAssumption
<1> DEFINE r == Ring(AuditSize, b, h, c)
           a == Append(r, e)
<1>2. r \in Seq(Slots) /\ Len(r) = c
  BY SinceIsRing, Zenon
<1>3. Len(a) = c + 1
  BY <1>2
<1>4. CASE c < AuditSize
  <2>1. h = c /\ c \in 0..(AuditSize - 1) /\ ~(c + 1 > AuditSize)
    BY <1>1, <1>4
  <2>2. Ring(AuditSize, [b EXCEPT ![c] = e], (c + 1) % AuditSize, c + 1)
          = Append(Ring(AuditSize, b, c, c), e)
    BY <1>1, <2>1, RingGrows, Zenon
  <2>3. Ring(AuditSize, [b EXCEPT ![h] = e], (h + 1) % AuditSize, c + 1) = a
    BY <2>1, <2>2, Zenon
  <2> HIDE DEF a
  <2>4. A!Log!Newest(a) = a
    BY <1>3, <2>1 DEF A!Log!Newest
  <2> QED BY <1>4, <2>3, <2>4, Zenon DEF a
<1>5. CASE ~(c < AuditSize)
  <2>1. c = AuditSize
    BY <1>1, <1>5
  <2>2. Ring(AuditSize, [b EXCEPT ![h] = e], (h + 1) % AuditSize, c) = SubSeq(a, 2, AuditSize + 1)
    BY <1>1, <2>1, RingTurns, Zenon
  <2> HIDE DEF a
  <2>3. Len(a) > AuditSize /\ Len(a) - AuditSize + 1 = 2 /\ Len(a) = AuditSize + 1
    BY <1>1, <1>3, <2>1
  <2>4. A!Log!Newest(a) = SubSeq(a, 2, AuditSize + 1)
    BY <2>3 DEF A!Log!Newest
  <2> QED BY <1>5, <2>2, <2>4, Zenon DEF a
<1> QED BY <1>4, <1>5

\* The audit ring implements the log of the last entries: what Since lists changes
\* by one entry at a time, at the end, and loses only the oldest, for every size
\* of the ring (Audit.Record, Audit.Since).
THEOREM RingImplementsLog == A!Spec => AuditImplementsLog
<1>1. A!Init => AInv
  BY WindowsAssumption, BeaconAssumption DEF A!Init, AInv, Slots
<1>2. A!Init => A!Log!Init
  <2> SUFFICES ASSUME A!Init PROVE A!Since(0) = <<>>
    BY DEF A!Log!Init
  <2>1. AInv /\ count = 0
    BY <1>1 DEF A!Init
  <2>2. A!Contents = <<>>
    BY <2>1 DEF A!Contents
  <2>3. {i \in 1..count : A!Contents[i].at >= 0} = {}
    BY <2>1
  <2> QED BY <2>3, SameSelection, FS_EmptySet DEF A!Since, SelectAt
<1>3. AInv /\ AInv' /\ [A!Next]_(A!vars) => [A!Log!Next]_(A!Since(0))
  <2> SUFFICES ASSUME AInv, AInv', [A!Next]_(A!vars)
               PROVE  A!Log!Next \/ A!Since(0)' = A!Since(0)
    OBVIOUS
  <2>1. /\ A!Since(0) = Ring(AuditSize, buf, head, count)
        /\ A!Since(0)' = Ring(AuditSize, buf', head', count')
    BY ListedIsRing
  <2>3. CASE A!Tick \/ (\E r \in Requests : A!Stamp(r)) \/ UNCHANGED A!vars
    <3>1. UNCHANGED <<buf, head, count>>
      BY <2>3 DEF A!Tick, A!Stamp, A!vars
    <3> QED BY <2>1, <3>1
  <2>4. ASSUME NEW e \in stamped, A!Record(e) PROVE A!Log!Next
    <3>1. e \in A!Entries /\ e \in Slots
      BY DEF AInv, Slots
    <3>2. /\ buf' = [buf EXCEPT ![head] = e] /\ head' = (head + 1) % AuditSize
          /\ count' = IF count < AuditSize THEN count + 1 ELSE count
      BY <2>4 DEF A!Record
    <3>3. Ring(AuditSize, [buf EXCEPT ![head] = e], (head + 1) % AuditSize,
               IF count < AuditSize THEN count + 1 ELSE count)
            = A!Log!Newest(Append(Ring(AuditSize, buf, head, count), e))
      BY <3>1, RecordWrites, ZenonT(40) DEF AInv
    <3>4. A!Since(0)' = A!Log!Newest(Append(A!Since(0), e))
      BY <2>1, <3>2, <3>3
    <3> QED BY <3>1, <3>4 DEF A!Log!Next, A!Log!Write
  <2> QED BY <2>3, <2>4 DEF A!Next
<1> QED
  BY <1>1, <1>2, <1>3, AuditInductive, PTL
  DEF A!Spec, AuditImplementsLog, A!ImplementsLog, A!Log!Spec

(***************************************************************************)
(* The referer tracker.                                                    *)
(***************************************************************************)
\* Dropping the head and appending is appending and dropping the head.
LEMMA TailAppend ==
  ASSUME NEW V, NEW N \in Nat \ {0}, NEW s \in Seq(V), Len(s) = N, NEW e \in V
  PROVE  SubSeq(Append(s, e), 2, N + 1) = Append(Tail(s), e)
<1> DEFINE a == Append(s, e)
           t == SubSeq(a, 2, N + 1)
           u == Tail(s)
           v == Append(u, e)
<1>1. /\ a \in Seq(V) /\ Len(a) = Len(s) + 1 /\ a[Len(s) + 1] = e
      /\ \A i \in 1..Len(s) : a[i] = s[i]
  BY AppendEach
<1> HIDE DEF a
<1>2. /\ a \in Seq(V) /\ Len(a) = N + 1 /\ a[N + 1] = e
      /\ \A i \in 1..N : a[i] = s[i]
  BY <1>1
<1>3. t \in Seq(V) /\ Len(t) = N /\ \A i \in 1..N : t[i] = a[i + 1]
  <2>1. 2 \in Int /\ N + 1 \in Int /\ \A i \in 2..(N + 1) : a[i] \in V
    BY <1>2
  <2>2. /\ t \in Seq(V) /\ Len(t) = IF 2 <= N + 1 THEN (N + 1) - 2 + 1 ELSE 0
        /\ \A i \in 1..((N + 1) - 2 + 1) : t[i] = a[2 + i - 1]
    BY <2>1, PartEach
  <2> HIDE DEF t
  <2>3. (N + 1) - 2 + 1 = N /\ 2 <= N + 1 /\ \A i \in 1..N : 2 + i - 1 = i + 1
    OBVIOUS
  <2> QED BY <2>2, <2>3
<1>4. u \in Seq(V) /\ Len(u) = N - 1 /\ \A i \in 1..(N - 1) : u[i] = s[i + 1]
  <2>1. s # <<>>
    OBVIOUS
  <2>2. u \in Seq(V) /\ Len(u) = Len(s) - 1 /\ \A i \in 1..Len(u) : u[i] = s[i + 1]
    BY <2>1, TailEach
  <2> HIDE DEF u
  <2> QED BY <2>2
<1> HIDE DEF t, u
<1>5. /\ v \in Seq(V) /\ Len(v) = Len(u) + 1 /\ v[Len(u) + 1] = e
      /\ \A i \in 1..Len(u) : v[i] = u[i]
  BY <1>4, AppendEach
<1> HIDE DEF v
<1>6. Len(v) = N /\ v[N] = e /\ \A i \in 1..(N - 1) : v[i] = s[i + 1]
  BY <1>4, <1>5
<1>7. ASSUME NEW i \in 1..N PROVE t[i] = v[i]
  <2>1. CASE i = N
    BY <1>2, <1>3, <1>6, <2>1
  <2>2. CASE i # N
    <3>1. i \in 1..(N - 1) /\ i + 1 \in 1..N
      BY <2>2
    <3> QED BY <1>2, <1>3, <1>6, <3>1
  <2> QED BY <2>1, <2>2
<1>8. t = v
  BY <1>3, <1>5, <1>6, <1>7, SeqEqual
<1> QED BY <1>8 DEF t, v, u, a

\* A ring of hits and misses has as many hits as its slots in use.
LEMMA RingHits ==
  ASSUME NEW N \in Nat \ {0}, NEW b \in [0..(N - 1) -> BOOLEAN], NEW h \in 0..(N - 1),
         NEW c \in 0..N, NEW r, IsRing(r, N, BOOLEAN, b, h, c)
  PROVE  Cardinality({i \in 0..(c - 1) : b[i]}) = Cardinality({i \in DOMAIN r : r[i]})
<1> DEFINE S == {i \in 1..c : r[i]}
           D == {i \in 0..(c - 1) : b[i]}
           slot(i) == IF c < N THEN i - 1 ELSE IF h + i - 1 < N THEN h + i - 1 ELSE h + i - 1 - N
           item(j) == IF c < N THEN j + 1 ELSE IF j >= h THEN j - h + 1 ELSE j - h + 1 + N
           f == [i \in S |-> slot(i)]
<1>1. \A i \in 1..c : slot(i) \in 0..(c - 1) /\ item(slot(i)) = i
  OBVIOUS
<1>2. \A j \in 0..(c - 1) : item(j) \in 1..c /\ slot(item(j)) = j
  OBVIOUS
<1>3. DOMAIN r = 1..c /\ \A i \in 1..c : r[i] = b[slot(i)]
  BY DEF IsRing
<1> HIDE DEF slot, item
<1>4. \A i \in S : slot(i) \in D
  BY <1>1, <1>3
<1>5. \A j \in D : item(j) \in S
  BY <1>2, <1>3
<1>6. f \in [S -> D]
  BY <1>4
<1>7. ASSUME NEW x \in S, NEW y \in S, f[x] = f[y] PROVE x = y
  <2>1. slot(x) = slot(y) /\ x \in 1..c /\ y \in 1..c
    BY <1>7
  <2> QED BY <1>1, <2>1
<1>8. ASSUME NEW j \in D PROVE \E i \in S : f[i] = j
  <2>1. item(j) \in S /\ f[item(j)] = slot(item(j)) /\ j \in 0..(c - 1)
    BY <1>5
  <2> QED BY <1>2, <2>1
<1>9. ExistsBijection(S, D)
  <2> HIDE DEF f, S, D
  <2>1. DOMAIN f = S /\ f \in Injection(S, D)
    BY <1>6, <1>7 DEF Injection, IsInjective
  <2>2. f \in Surjection(S, D)
    BY <1>6, <1>8 DEF Surjection
  <2> QED BY <2>1, <2>2 DEF ExistsBijection, Bijection
<1>10. IsFiniteSet(S)
  <2>1. IsFiniteSet(1..c)
    BY FS_Interval
  <2> QED BY <2>1, FS_Subset
<1>11. Cardinality(D) = Cardinality(S)
  BY <1>9, <1>10, FS_Bijection
<1> QED BY <1>3, <1>11, Zenon

\* The tracker: whoever observes works on the window all share, every other window
\* is as it was made, and the shared one holds the last referers. So far every
\* answer was right.
Filled(w) == IF filled[w] THEN WindowSize ELSE pos[w]
TInv ==
  /\ pc \in [Requests -> {"idle", "create", "observe"}] /\ google \in [Requests -> BOOLEAN]
  /\ own \in [Requests -> Requests \cup {NoWindow}] /\ shared \in Requests \cup {NoWindow}
  /\ rings \in [Requests -> [0..(WindowSize - 1) -> BOOLEAN]]
  /\ pos \in [Requests -> 0..(WindowSize - 1)] /\ filled \in [Requests -> BOOLEAN]
  /\ \A r \in Requests : pc[r] = "observe" => shared # NoWindow /\ own[r] = shared
  /\ \A w \in Requests : w # shared => pos[w] = 0 /\ filled[w] = FALSE
  /\ seen = IF shared = NoWindow THEN <<>>
            ELSE Ring(WindowSize, rings[shared], pos[shared], Filled(shared))
  /\ said = TRUE

\* RingGrows, as a fact about the window, the place and the value.
Grown(N, b, p, g) == Ring(N, [b EXCEPT ![p] = g], (p + 1) % N, p + 1) = Append(Ring(N, b, p, p), g)
LEMMA OneMore ==
  ASSUME NEW N \in Nat \ {0}, NEW V, NEW b \in [0..(N - 1) -> V], NEW e \in V,
         NEW c \in 0..(N - 1)
  PROVE  Grown(N, b, c, e)
BY RingGrows, ZenonT(40) DEF Grown

\* One observation: the window and the last referers move on together, and the
\* window's count is theirs.
Observed(N, b, p, f, g) ==
  LET c == IF f THEN N ELSE p
      s == Ring(N, b, p, c)
      d == [b EXCEPT ![p] = g]
      full == f \/ p + 1 >= N
      n == IF full THEN N ELSE p + 1
      recent == IF Len(s) = N THEN Append(Tail(s), g) ELSE Append(s, g)
  IN  /\ recent = Ring(N, d, (p + 1) % N, n)
      /\ n = IF full THEN N ELSE (p + 1) % N
      /\ Len(recent) = n
      /\ Cardinality({i \in 0..(n - 1) : d[i]}) = Cardinality({i \in DOMAIN recent : recent[i]})

LEMMA ObserveOnce ==
  ASSUME NEW N \in Nat \ {0}, NEW b \in [0..(N - 1) -> BOOLEAN], NEW p \in 0..(N - 1),
         NEW f \in BOOLEAN, NEW g \in BOOLEAN
  PROVE  Observed(N, b, p, f, g)
<1> DEFINE c == IF f THEN N ELSE p
           s == Ring(N, b, p, c)
           d == [b EXCEPT ![p] = g]
           full == f \/ p + 1 >= N
           n == IF full THEN N ELSE p + 1
           recent == IF Len(s) = N THEN Append(Tail(s), g) ELSE Append(s, g)
           q == (p + 1) % N
<1>1. q = IF p + 1 < N THEN p + 1 ELSE 0
  BY Turn
<1> HIDE DEF q
<1>2. c \in 0..N /\ n \in 0..N /\ q \in 0..(N - 1) /\ n = IF full THEN N ELSE q
  BY <1>1
<1>3. d \in [0..(N - 1) -> BOOLEAN]
  OBVIOUS
<1>4. IsRing(s, N, BOOLEAN, b, p, c)
  BY <1>2, RingType
<1>5. s \in Seq(BOOLEAN) /\ Len(s) = c
  BY <1>4 DEF IsRing
<1>6. recent = Ring(N, d, q, n)
  <2>1. CASE f
    <3>1. c = N /\ n = N
      BY <2>1
    <3> HIDE DEF c, n
    <3>2. recent = Append(Tail(s), g)
      BY <1>5, <3>1
    <3>3. Ring(N, d, q, N) = SubSeq(Append(s, g), 2, N + 1)
      BY <3>1, RingTurns, Zenon DEF q
    <3>4. SubSeq(Append(s, g), 2, N + 1) = Append(Tail(s), g)
      <4> HIDE DEF s
      <4> QED BY <1>5, <3>1, TailAppend
    <3> QED BY <3>1, <3>2, <3>3, <3>4, ZenonT(40)
  <2>2. CASE ~f
    <3>1. c = p /\ n = p + 1 /\ c # N
      BY <2>2
    <3> HIDE DEF c, n
    <3>2. recent = Append(s, g)
      BY <1>5, <3>1
    <3>3. Ring(N, d, q, p + 1) = Append(Ring(N, b, p, p), g)
      <4>1. Grown(N, b, p, g)
        BY OneMore, Zenon
      <4> QED BY <4>1, ZenonT(40) DEF Grown, q
    <3> QED BY <3>1, <3>2, <3>3, Zenon
  <2> QED BY <2>1, <2>2
<1> HIDE DEF s, d, recent, c, n
<1>7. IsRing(recent, N, BOOLEAN, d, q, n)
  BY <1>2, <1>3, <1>6, RingType
<1>8. Len(recent) = n
  BY <1>7 DEF IsRing
<1>9. Cardinality({i \in 0..(n - 1) : d[i]}) = Cardinality({i \in DOMAIN recent : recent[i]})
  BY <1>2, <1>3, <1>7, RingHits
<1> QED BY <1>2, <1>6, <1>8, <1>9 DEF s, d, recent, c, n, q, Observed

LEMMA TrackerInductive == TInv /\ [T!Next]_(T!vars) => TInv'
<1> SUFFICES ASSUME TInv, [T!Next]_(T!vars) PROVE TInv'
  OBVIOUS
<1>1. WindowSize \in Nat \ {0} /\ NoWindow \notin Requests
  BY WindowsAssumption
<1>2. ASSUME NEW r \in Requests, T!Lookup(r) PROVE TInv'
  <2>1. UNCHANGED <<shared, rings, pos, filled, seen, said>>
    BY <1>2 DEF T!Lookup
  <2>2. /\ pc' = [pc EXCEPT ![r] = IF shared = NoWindow THEN "create" ELSE "observe"]
        /\ own' = [own EXCEPT ![r] = shared] /\ \E g \in BOOLEAN : google' = [google EXCEPT ![r] = g]
    BY <1>2, Zenon DEF T!Lookup
  <2> QED BY <2>1, <2>2 DEF TInv, Filled
<1>3. ASSUME NEW r \in Requests, T!Create(r) PROVE TInv'
  <2>1. UNCHANGED <<google, rings, pos, filled, seen, said>>
    BY <1>3 DEF T!Create
  <2>2. /\ pc' = [pc EXCEPT ![r] = "observe"] /\ own' = [own EXCEPT ![r] = shared']
        /\ shared' = IF shared = NoWindow THEN r ELSE shared
    BY <1>3 DEF T!Create
  <2>3. CASE shared # NoWindow
    BY <2>1, <2>2, <2>3 DEF TInv, Filled
  <2>4. CASE shared = NoWindow
    <3>1. pos[r] = 0 /\ filled[r] = FALSE /\ seen = <<>> /\ rings[r] \in [0..(WindowSize - 1) -> BOOLEAN]
      BY <1>1, <2>4 DEF TInv
    <3>2. Filled(r) = 0 /\ Filled(r)' = 0
      BY <2>1, <3>1, ZenonT(40) DEF Filled
    <3>3. Ring(WindowSize, rings[r], pos[r], Filled(r)) = <<>>
      BY <3>2 DEF Ring
    <3>4. shared' = r /\ r # NoWindow
      BY <1>1, <2>2, <2>4
    <3>5. seen' = Ring(WindowSize, rings'[r], pos'[r], Filled(r)')
      BY <2>1, <3>1, <3>2, <3>3
    <3>6. \A q \in Requests : pc'[q] = "observe" => own'[q] = r
      BY <2>2, <2>4, <3>4 DEF TInv
    <3>7. \A w \in Requests : pos'[w] = 0 /\ filled'[w] = FALSE
      BY <1>1, <2>1, <2>4 DEF TInv
    <3> QED BY <2>1, <2>2, <3>4, <3>5, <3>6, <3>7, ZenonT(40) DEF TInv, Filled
  <2> QED BY <2>3, <2>4
<1>4. ASSUME NEW r \in Requests, T!Observe(r) PROVE TInv'
  <2> DEFINE w == own[r]
             N == WindowSize
             b == rings[w]
             p == pos[w]
             f == filled[w]
             g == google[r]
             c == IF f THEN N ELSE p
             d == [b EXCEPT ![p] = g]
             full == f \/ p + 1 >= N
             n == IF full THEN N ELSE p + 1
             recent == IF Len(seen) = N THEN Append(Tail(seen), g) ELSE Append(seen, g)
  <2>1. pc[r] = "observe" /\ w = shared /\ w \in Requests /\ shared # NoWindow
    BY <1>1, <1>4, ZenonT(40) DEF TInv, T!Observe
  <2>2. /\ b \in [0..(N - 1) -> BOOLEAN] /\ p \in 0..(N - 1) /\ f \in BOOLEAN /\ g \in BOOLEAN
        /\ seen = Ring(N, b, p, c)
    BY <2>1 DEF TInv, Filled
  <2>3. /\ rings' = [rings EXCEPT ![w] = d] /\ pos' = [pos EXCEPT ![w] = (p + 1) % N]
        /\ filled' = [filled EXCEPT ![w] = full] /\ pc' = [pc EXCEPT ![r] = "idle"]
        /\ google' = [google EXCEPT ![r] = FALSE] /\ own' = [own EXCEPT ![r] = NoWindow]
        /\ seen' = recent /\ shared' = shared
    BY <1>4, <2>1, ZenonT(40) DEF T!Observe, TInv
  <2>4. said' = (T!Exceeds(Cardinality({i \in 0..(n - 1) : d[i]}), n)
                   = T!Exceeds(Cardinality({i \in DOMAIN recent : recent[i]}), Len(recent)))
    BY <1>4, SameCardinality, Zenon DEF T!Observe
  <2>5. /\ recent = Ring(N, d, (p + 1) % N, n)
        /\ n = IF full THEN N ELSE (p + 1) % N
        /\ Len(recent) = n
        /\ Cardinality({i \in 0..(n - 1) : d[i]}) = Cardinality({i \in DOMAIN recent : recent[i]})
    <3>1. Observed(N, b, p, f, g)
      <4> HIDE DEF b, p, f, g
      <4> QED BY <1>1, <2>2, ObserveOnce
    <3> HIDE DEF b, p, f, g, w
    <3> QED BY <2>2, <3>1, Zenon DEF Observed
  <2>6. (p + 1) % N \in 0..(N - 1) /\ d \in [0..(N - 1) -> BOOLEAN] /\ full \in BOOLEAN
    <3> HIDE DEF b, p, f, g, w
    <3>1. (p + 1) % N = IF p + 1 < N THEN p + 1 ELSE 0
      BY <1>1, <2>2, Turn
    <3>2. (p + 1) % N \in 0..(N - 1)
      BY <1>1, <2>2, <3>1
    <3>3. d \in [0..(N - 1) -> BOOLEAN]
      BY <2>2
    <3> QED BY <3>2, <3>3
  <2> HIDE DEF d, full, n, recent, b, p, f, g, c, w
  <2>7. said' = TRUE
    BY <2>4, <2>5, ZenonT(40)
  <2>8. rings'[w] = d /\ pos'[w] = (p + 1) % N /\ filled'[w] = full
    BY <2>1, <2>3 DEF TInv
  <2>9. seen' = Ring(N, rings'[w], pos'[w], IF filled'[w] THEN N ELSE pos'[w])
    BY <2>3, <2>5, <2>8
  <2>10. /\ rings' \in [Requests -> [0..(N - 1) -> BOOLEAN]] /\ pos' \in [Requests -> 0..(N - 1)]
         /\ filled' \in [Requests -> BOOLEAN]
    BY <2>1, <2>3, <2>6 DEF TInv
  <2>11. \A v \in Requests : v # shared => pos'[v] = 0 /\ filled'[v] = FALSE
    BY <2>1, <2>3 DEF TInv
  <2>12. /\ pc' \in [Requests -> {"idle", "create", "observe"}] /\ google' \in [Requests -> BOOLEAN]
         /\ own' \in [Requests -> Requests \cup {NoWindow}]
         /\ \A q \in Requests : pc'[q] = "observe" => own'[q] = shared
    BY <2>1, <2>3 DEF TInv
  <2> QED BY <2>1, <2>3, <2>7, <2>9, <2>10, <2>11, <2>12, ZenonT(40) DEF TInv, Filled
<1>5. CASE UNCHANGED T!vars
  BY <1>5 DEF T!vars, TInv, Filled
<1> QED BY <1>2, <1>3, <1>4, <1>5 DEF T!Next

\* Every answer of Observe counts the last referers of the address, for every size
\* of the window and any number of requests at once: whoever loses the race to
\* create the window works on the winner's (RefererTracker.Observe).
THEOREM AnswersAreRight == T!Spec => []RefererAnswersRight
<1>1. T!Init => TInv
  BY WindowsAssumption DEF T!Init, TInv
<1>2. TInv => RefererAnswersRight
  BY DEF TInv, RefererAnswersRight, T!AnswersCountLastRequests
<1> QED
  BY <1>1, <1>2, TrackerInductive, PTL DEF T!Spec
=============================================================================
