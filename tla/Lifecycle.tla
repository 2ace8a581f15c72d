----------------------------- MODULE Lifecycle -----------------------------
(* The daemon's process: main builds its parts, starts three servers in    *)
(* goroutines of their own, declares itself ready, waits for a signal or   *)
(* for a server to end, and stops the servers one after the other under    *)
(* one deadline. net/http's Serve and Shutdown are modelled from how       *)
(* server.go uses them.                                                    *)
EXTENDS Naturals, FiniteSets

CONSTANT MaxActive   \* bound on the connections in service at a server
Servers == {"main", "metrics", "admin"}

\* Which Stop follows which; after the last one the cache is closed.
StopOrder == [main |-> "metrics", metrics |-> "admin", admin |-> "close"]

VARIABLES pc,       \* main: where it is; in the stop phase, the server it stops
          srv,      \* each Start goroutine
          shut,     \* the servers whose Shutdown has been called
          active,   \* connections Shutdown waits for, per server
          ended,    \* the servers whose result was sent to serveErrs
          signal,   \* a signal was delivered to sigCh
          ready, expired, cache
vars == <<pc, srv, shut, active, ended, signal, ready, expired, cache>>

Stopping == Servers \cup {"close"}
Exited == pc \in {"exited", "failed", "killed"}

Init == /\ pc = "load"
        /\ srv = [s \in Servers |-> "new"]
        /\ shut = {} /\ active = [s \in Servers |-> 0] /\ ended = {}
        /\ signal = FALSE /\ ready = FALSE /\ expired = FALSE /\ cache = "none"

\* loadConfig and buildDeps either succeed or end the process.
Load == /\ pc = "load" /\ pc' \in {"build", "failed"}
        /\ UNCHANGED <<srv, shut, active, ended, signal, ready, expired, cache>>
Build == /\ pc = "build"
         /\ \/ pc' = "spawn" /\ cache' = "open"
            \/ pc' = "failed" /\ UNCHANGED cache
         /\ UNCHANGED <<srv, shut, active, ended, signal, ready, expired>>

\* The three goroutines are started; nothing waits for their listeners.
Spawn == /\ pc = "spawn" /\ pc' = "ready"
         /\ srv' = [s \in Servers |-> "started"]
         /\ UNCHANGED <<shut, active, ended, signal, ready, expired, cache>>
SetReady == /\ pc = "ready" /\ pc' = "notify" /\ ready' = TRUE
            /\ UNCHANGED <<srv, shut, active, ended, signal, expired, cache>>
Notify == /\ pc = "notify" /\ pc' = "wait"
          /\ UNCHANGED <<srv, shut, active, ended, signal, ready, expired, cache>>

\* A termination signal kills the process until signal.Notify has run.
Signal == /\ ~Exited
          /\ IF pc \in {"load", "build", "spawn", "ready", "notify"}
             THEN pc' = "killed" /\ ready' = FALSE /\ UNCHANGED signal
             ELSE ~signal /\ signal' = TRUE /\ UNCHANGED <<pc, ready>>
          /\ UNCHANGED <<srv, shut, active, ended, expired, cache>>

\* The select, and SetReady(false).
Wake == /\ pc = "wait" /\ (signal \/ ended # {})
        /\ pc' = "main" /\ ready' = FALSE
        /\ UNCHANGED <<srv, shut, active, ended, signal, expired, cache>>

\* The 15 s deadline runs from here on and is shared by the three Stops.
Expire == /\ pc \in Stopping /\ ~expired /\ expired' = TRUE
          /\ UNCHANGED <<pc, srv, shut, active, ended, signal, ready, cache>>

\* Stop: Shutdown closes the listener at once, then waits for the handlers or
\* the deadline. One mutant ignores the deadline, one does not wait.
Shutdown(s) == /\ pc = s /\ s \notin shut
               /\ shut' = shut \cup {s}
               /\ UNCHANGED <<pc, srv, active, ended, signal, ready, expired, cache>>
StopForever(s) == /\ pc = s /\ s \in shut /\ active[s] = 0
                  /\ pc' = StopOrder[s]
                  /\ UNCHANGED <<srv, shut, active, ended, signal, ready, expired, cache>>
StopAtOnce(s) == /\ pc = s /\ s \in shut
                 /\ pc' = StopOrder[s]
                 /\ UNCHANGED <<srv, shut, active, ended, signal, ready, expired, cache>>
StopReturns(s) == /\ pc = s /\ s \in shut
                  /\ active[s] = 0 \/ expired
                  /\ pc' = StopOrder[s]
                  /\ UNCHANGED <<srv, shut, active, ended, signal, ready, expired, cache>>

CloseCache == /\ pc = "close" /\ cache = "open" /\ cache' = "closed"
              /\ UNCHANGED <<pc, srv, shut, active, ended, signal, ready, expired>>
Exit == /\ pc = "close" /\ cache = "closed" /\ pc' = "exited"
        /\ UNCHANGED <<srv, shut, active, ended, signal, ready, expired, cache>>

\* Start, in its goroutine: the listener opens or fails, and Serve runs until it
\* fails or Shutdown is called (before it too). Its result goes to serveErrs,
\* whose three places make the send never block.
Running == ~Exited
Return(s) == /\ srv' = [srv EXCEPT ![s] = "ended"] /\ ended' = ended \cup {s}
Listen(s) == /\ Running /\ srv[s] = "started"
             /\ \/ srv' = [srv EXCEPT ![s] = "listening"] /\ UNCHANGED ended
                \/ Return(s)
             /\ UNCHANGED <<pc, shut, active, signal, ready, expired, cache>>
Serve(s) == /\ Running /\ srv[s] = "listening"
            /\ \/ s \notin shut /\ srv' = [srv EXCEPT ![s] = "serving"] /\ UNCHANGED ended
               \/ Return(s)
            /\ UNCHANGED <<pc, shut, active, signal, ready, expired, cache>>
ServeReturns(s) == /\ Running /\ srv[s] = "serving"
                   /\ Return(s)
                   /\ UNCHANGED <<pc, shut, active, signal, ready, expired, cache>>

\* A connection is accepted while the listener is open; its handler may start later
\* and go on after Serve has returned.
Accept(s) == /\ Running /\ srv[s] = "serving" /\ s \notin shut
             /\ active[s] < MaxActive
             /\ active' = [active EXCEPT ![s] = @ + 1]
             /\ UNCHANGED <<pc, srv, shut, ended, signal, ready, expired, cache>>
Finish(s) == /\ Running /\ active[s] > 0
             /\ active' = [active EXCEPT ![s] = @ - 1]
             /\ UNCHANGED <<pc, srv, shut, ended, signal, ready, expired, cache>>

MainStep == \/ Load \/ Build \/ Spawn \/ SetReady \/ Notify \/ Wake
            \/ CloseCache \/ Exit
            \/ \E s \in Servers : Shutdown(s) \/ StopReturns(s)
Goroutine(s) == Listen(s) \/ Serve(s) \/ Accept(s) \/ Finish(s) \/ ServeReturns(s)
Next == MainStep \/ Signal \/ Expire \/ \E s \in Servers : Goroutine(s)

\* main runs on, and the deadline's timer fires; handlers and signals owe nothing.
Spec == Init /\ [][Next]_vars /\ WF_vars(MainStep) /\ WF_vars(Expire)
-----------------------------------------------------------------------------
\* The readiness gate is down before the first listener is closed, so that a
\* balancer that polls it can turn away before connections are refused; and the
\* decision cache is closed under a running handler, or the process leaves one
\* behind, only when the shutdown deadline has passed.
ShutsDownInOrder ==
  /\ ready => shut = {}
  /\ cache = "closed" => /\ shut = Servers
                         /\ expired \/ \A s \in Servers : active[s] = 0

\* A signal, or a server that ends, always brings the process to its exit, even
\* if some handler never finishes.
StopsWhenAsked == (pc = "wait" /\ (signal \/ ended # {})) ~> pc = "exited"
=============================================================================
