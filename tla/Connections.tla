---------------------------- MODULE Connections ----------------------------
(* The ClientHello captures of the TLS listener: a table shared by all     *)
(* connections and keyed by their addresses, filled by the handshake       *)
(* callback, read by the middleware of every request and emptied by the    *)
(* connection-state hook. A socket may be closed at any time; the          *)
(* goroutine that serves it goes on, finishes the callback it was about to *)
(* run and reports the closing last, when the kernel may already have      *)
(* given the addresses to a new connection.                                *)
EXTENDS Integers

CONSTANTS Conns, Peers,   \* connections; remote addresses (the local one is fixed)
          NoConn,
          Cap,            \* maxClientHelloBytes
          MaxRecord,      \* bounds: length of a ClientHello record ...
          MaxExtra        \* ... and bytes the client sends behind it

VARIABLES phase, peer,
          record,     \* the length of the connection's ClientHello record
          sent,       \* bytes read from the socket so far
          raw,        \* bytes of them recorded
          captures,   \* the shared table: peer -> [conn, raw, late]
          pending,    \* a request of the connection is ahead of the middleware
          served      \* the last request the middleware passed on, and what it was given
conns == <<phase, peer, record, sent, raw>>
vars == <<conns, captures, pending, served>>

\* An entry; `late`, which the code does not keep, says that the socket was closed
\* when the entry was stored.
Captured(c, n, l) == [conn |-> c, raw |-> n, late |-> l]
Nothing == Captured(NoConn, 0, FALSE)

Init == /\ phase = [c \in Conns |-> "new"]
        /\ peer \in [Conns -> Peers]
        /\ record \in [Conns -> 1..MaxRecord]
        /\ sent = [c \in Conns |-> 0] /\ raw = [c \in Conns |-> 0]
        /\ captures = << >>
        /\ pending = [c \in Conns |-> FALSE]
        /\ served = [conn |-> NoConn, open |-> FALSE, hello |-> Nothing]

\* A socket holds its address from Accept until it is closed. It is "cut" when it
\* is closed while its goroutine is in the handshake.
Open(c) == phase[c] \in {"handshake", "serving", "hijacked"}
Accept(c) == /\ phase[c] = "new"
             /\ \A d \in Conns : Open(d) => peer[d] # peer[c]
             /\ phase' = [phase EXCEPT ![c] = "handshake"]
             /\ UNCHANGED <<peer, record, sent, raw, captures, pending, served>>

\* record: what no longer fits is cut off; the mutant drops a read that does not fit.
RecordedWhole(have, n) == IF have + n > Cap THEN have ELSE have + n
Recorded(have, n) == IF have + n > Cap THEN Cap ELSE have + n
Handshaking(c) == phase[c] \in {"handshake", "cut"}
Read(c) == /\ Handshaking(c)
           /\ \E n \in 1..(record[c] + MaxExtra - sent[c]) :
                /\ sent' = [sent EXCEPT ![c] = @ + n]
                /\ raw' = [raw EXCEPT ![c] = Recorded(@, n)]
           /\ UNCHANGED <<phase, peer, record, captures, pending, served>>

\* RawClientHello: the first record when all of it was recorded, otherwise what was.
RawClientHello(c) == IF raw[c] >= record[c] THEN record[c] ELSE raw[c]

\* GetConfigForClient, once the whole ClientHello was read, whatever has become of
\* the socket since: the callback does not touch it. The mutant keeps an entry that
\* is already there.
Handshaken(c) == /\ Handshaking(c) /\ sent[c] >= record[c]
                 /\ phase' = [phase EXCEPT ![c] = IF @ = "cut" THEN "closed" ELSE "serving"]
                 /\ UNCHANGED <<peer, record, sent, raw, pending, served>>
CaptureFirst(c) == /\ Handshaken(c)
                   /\ captures' = [q \in DOMAIN captures \cup {peer[c]} |->
                                   IF q \in DOMAIN captures THEN captures[q]
                                   ELSE Captured(c, RawClientHello(c), ~Open(c))]
Capture(c) == /\ Handshaken(c)
              /\ captures' = [q \in DOMAIN captures \cup {peer[c]} |->
                              IF q = peer[c] THEN Captured(c, RawClientHello(c), ~Open(c))
                              ELSE captures[q]]

\* A request's handler goroutine; over HTTP/2 it may start late, even after the
\* connection is closed.
Request(c) == /\ phase[c] = "serving" /\ ~pending[c]
              /\ pending' = [pending EXCEPT ![c] = TRUE]
              /\ UNCHANGED <<conns, captures, served>>
CaptureMiddleware(c) ==
  /\ pending[c]
  /\ pending' = [pending EXCEPT ![c] = FALSE]
  /\ served' = [conn |-> c, open |-> Open(c),
                hello |-> IF peer[c] \in DOMAIN captures THEN captures[peer[c]] ELSE Nothing]
  /\ UNCHANGED <<conns, captures>>

Delete(p) == captures' = [q \in DOMAIN captures \ {p} |-> captures[q]]

\* The handler takes the connection over (a proxied protocol upgrade): the hook
\* runs at once, and the socket stays open.
Hijack(c) == /\ phase[c] = "serving" /\ ~pending[c]
             /\ phase' = [phase EXCEPT ![c] = "hijacked"]
             /\ Delete(peer[c])
             /\ UNCHANGED <<peer, record, sent, raw, pending, served>>

\* The socket is closed, by either side and at any time; then, as a step of its
\* own, net/http reports StateClosed (not for a connection that was hijacked).
Close(c) == /\ Open(c)
            /\ phase' = [phase EXCEPT ![c] = CASE @ = "hijacked" -> "gone"
                                               [] @ = "handshake" -> "cut"
                                               [] @ = "serving" -> "closed"]
            /\ UNCHANGED <<peer, record, sent, raw, captures, pending, served>>

\* connState, after the callback or after a handshake that fails without it; the
\* mutant handles StateHijacked only.
ConnStateHijacked(c) ==
  /\ phase[c] \in {"cut", "closed"}
  /\ phase' = [phase EXCEPT ![c] = "gone"]
  /\ UNCHANGED <<peer, record, sent, raw, captures, pending, served>>
ConnState(c) ==
  /\ phase[c] \in {"cut", "closed"}
  /\ phase' = [phase EXCEPT ![c] = "gone"]
  /\ Delete(peer[c])
  /\ UNCHANGED <<peer, record, sent, raw, pending, served>>

Next == \E c \in Conns : \/ Accept(c) \/ Read(c) \/ Capture(c) \/ Request(c)
                         \/ CaptureMiddleware(c) \/ Hijack(c) \/ Close(c) \/ ConnState(c)
Spec == Init /\ [][Next]_vars
-----------------------------------------------------------------------------
\* Although addresses are reused, and captures are stored and deleted late, a
\* request on an open connection is given that connection's own ClientHello, with
\* two exceptions (CaptureCallback, captureForRequest, connState). It is given
\* none only when an earlier connection of the same address was reported closed.
\* It is given another's only when that one, of the same address, was closed in
\* its handshake and its callback ran after that; a connection that was served is
\* never taken for its successor.
OwnHelloOrNone ==
  LET earlier == {d \in Conns \ {served.conn} : /\ peer[d] = peer[served.conn]
                                                /\ phase[d] \in {"closed", "gone"}}
  IN  served.open =>
        \/ served.hello.conn = served.conn
        \/ served.hello = Nothing /\ \E d \in earlier : phase[d] = "gone"
        \/ served.hello.late /\ served.hello.conn \in earlier

\* No capture outlives its connections: every entry of the table is of an address
\* some connection still serves or whose StateClosed is still to be reported, so
\* the table does not grow with failed handshakes, upgrades and closed connections.
CapturesReclaimed ==
  \A p \in DOMAIN captures :
    \E c \in Conns : peer[c] = p /\ phase[c] \in {"serving", "closed"}

\* A capture holds the first record, no byte less and none of what follows it,
\* however the reads split and join the client's bytes; only a record longer than
\* maxClientHelloBytes is cut (WrappedConn.record, RawClientHello).
CapturesWholeRecord ==
  \A p \in DOMAIN captures :
    LET c == captures[p].conn
    IN  captures[p].raw = IF record[c] <= Cap THEN record[c] ELSE Cap
=============================================================================
