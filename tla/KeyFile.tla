------------------------------ MODULE KeyFile ------------------------------
(* token.LoadKey: gateway instances that share a key file read it at       *)
(* startup, and create it when it is not there. os.WriteFile creates or    *)
(* truncates the file before it writes, and an instance can be killed      *)
(* between any two steps.                                                  *)
EXTENDS Naturals

CONSTANTS Instances, Keys, NoKey, Missing, Empty
ASSUME KeyAssumption ==
  NoKey \notin Keys /\ Missing \notin Keys /\ Empty \notin Keys
  /\ NoKey # Missing /\ NoKey # Empty /\ Missing # Empty

VARIABLES fleet,   \* the instances that are ever started
          file,    \* what the key file holds
          boot,    \* where each instance is
          mem,     \* the key it holds in memory
          drawn    \* the keys drawn from rand.Read so far
keyVars == <<fleet, file, boot, mem, drawn>>

\* The documented deployment: the key is written ahead of time for any number of
\* instances, or one instance makes its own.
KeyInit == /\ boot = [i \in Instances |-> "down"] /\ mem = [i \in Instances |-> NoKey]
           /\ \/ fleet = Instances /\ \E k \in Keys : file = k /\ drawn = {k}
              \/ (\E i \in Instances : fleet = {i}) /\ file = Missing /\ drawn = {}

\* A fleet that shares a path nobody has written yet.
KeyInitUnprovisioned ==
  /\ boot = [i \in Instances |-> "down"] /\ mem = [i \in Instances |-> NoKey]
  /\ fleet = Instances /\ file = Missing /\ drawn = {}

Boot(i, from, to) == boot[i] = from /\ boot' = [boot EXCEPT ![i] = to]

Start(i) == /\ i \in fleet /\ Boot(i, "down", "read")
            /\ UNCHANGED <<fleet, file, mem, drawn>>

\* ReadFile: a key is used as it is, an empty file is an error, a missing one is
\* the sign to generate a key. The mutant draws a new key at every start.
ReadFileNever(i) ==
  /\ Boot(i, "read", "create")
  /\ \E k \in Keys \ drawn : mem' = [mem EXCEPT ![i] = k] /\ drawn' = drawn \cup {k}
  /\ UNCHANGED <<fleet, file>>
ReadFile(i) ==
  \/ /\ file \in Keys /\ Boot(i, "read", "up")
     /\ mem' = [mem EXCEPT ![i] = file]
     /\ UNCHANGED <<fleet, file, drawn>>
  \/ /\ file = Empty /\ Boot(i, "read", "down")
     /\ UNCHANGED <<fleet, file, mem, drawn>>
  \/ /\ file = Missing /\ Boot(i, "read", "create")
     /\ \E k \in Keys \ drawn : mem' = [mem EXCEPT ![i] = k] /\ drawn' = drawn \cup {k}
     /\ UNCHANGED <<fleet, file>>

\* WriteFile: create or truncate, then write. The mutant serves before the key is
\* in the file.
CreateFileLater(i) == /\ Boot(i, "create", "up")
                      /\ UNCHANGED <<fleet, file, mem, drawn>>
CreateFile(i) == /\ Boot(i, "create", "write") /\ file' = Empty
                 /\ UNCHANGED <<fleet, mem, drawn>>
WriteFile(i) == /\ Boot(i, "write", "up") /\ file' = mem[i]
                /\ UNCHANGED <<fleet, mem, drawn>>

Kill(i) == /\ boot[i] # "down" /\ boot' = [boot EXCEPT ![i] = "down"]
           /\ mem' = [mem EXCEPT ![i] = NoKey]
           /\ UNCHANGED <<fleet, file, drawn>>
-----------------------------------------------------------------------------
\* Types: the file holds nothing, no bytes yet, or a key that was drawn.
KeyTypeOK == /\ fleet \subseteq Instances
             /\ file \in Keys \cup {Missing, Empty}
             /\ boot \in [Instances -> {"down", "read", "create", "write", "up"}]
             /\ mem \in [Instances -> Keys \cup {NoKey}]
             /\ drawn \subseteq Keys

\* Every running instance holds the key that is in the file, so what one signs
\* the others verify, after any sequence of kills and restarts.
RunningShareTheFile == \A i \in Instances : boot[i] = "up" => mem[i] = file

\* LoadKey's comment: once a key is persisted, every later call returns it
\* unchanged; no start ever replaces it.
PersistedKeyStays == [][(file \in Keys) => file' = file]_keyVars
=============================================================================
