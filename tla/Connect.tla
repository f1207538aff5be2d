------------------------------- MODULE Connect -------------------------------
(***************************************************************************)
(* How the handlers of a device context come by their client: getDevice    *)
(* keeps one promise for all of them, connect probes the candidate APIs in *)
(* order and gives the first client whose getVersion answers.              *)
(*                                                                         *)
(* Handlers call getDevice at any time.  Between two answers of the miner  *)
(* the code runs without interruption: giving a candidate up, creating the *)
(* next and sending its getVersion is one step, and so is a rejection that *)
(* reaches every handler waiting for it.  The miner may start and stop     *)
(* serving an API at any time.                                             *)
(***************************************************************************)
EXTENDS Naturals, FiniteSets, Sequences, SequencesExt

CONSTANTS
  Handlers,       \* calls of withDevice handlers
  MaxShifts       \* bound: how often the miner changes what it serves

ASSUME MaxShiftsIsNat == MaxShifts \in Nat

VARIABLES
  config,         \* opts of the device
  served,         \* what the miner serves: a set of candidates
  shifts,         \* how often that changed
  devicePromise,  \* the connection that is memoized, or NoConnection
  probing,        \* per connection made so far: the candidate being probed
  open,           \* the clients created and not closed
  awaits,         \* the connection each handler awaits
  got             \* what each handler was given: a client, Rejected, Nothing

vars == <<config, served, shifts, devicePromise, probing, open, awaits, got>>

NoConnection == 0
Connections == 1 .. Len(probing)

V3 == 4433
V2 == 4028
Custom == 9000
Candidate == [port : {V3, V2, Custom}, api : {"v3", "v2"}]

Configs == [apiVersion : {"unset", "v2", "v3", "unsupported"},
            port : {0, V3, V2, Custom}, probe : BOOLEAN, complete : BOOLEAN]

DefaultPort(api) == IF api = "v2" THEN V2 ELSE V3

\* deviceConfig throws, or candidatesFor does: no client is created.
Invalid(c) ==
  \/ ~c.complete
  \/ c.apiVersion = "unsupported"
  \/ c.apiVersion = "unset" /\ c.port = Custom /\ ~c.probe

OnPort(p, api) == [port |-> p, api |-> api]

candidatesFor(c) ==
  CASE Invalid(c) -> <<>>
    [] ~Invalid(c) /\ c.apiVersion # "unset" ->
         <<OnPort(IF c.port = 0 THEN DefaultPort(c.apiVersion) ELSE c.port, c.apiVersion)>>
    [] ~Invalid(c) /\ c.apiVersion = "unset" /\ c.port = 0 ->
         <<OnPort(V3, "v3"), OnPort(V2, "v2")>>
    [] ~Invalid(c) /\ c.apiVersion = "unset" /\ c.port = V3 -> <<OnPort(V3, "v3")>>
    [] ~Invalid(c) /\ c.apiVersion = "unset" /\ c.port = V2 -> <<OnPort(V2, "v2")>>
    [] OTHER -> <<OnPort(Custom, "v3"), OnPort(Custom, "v2")>>

Candidates == candidatesFor(config)

\* A client is named by its connection and its place among the candidates.
Client(k, i) == [connection |-> k, candidate |-> i]
Nothing == Client(0, 0)
Rejected == Client(0, 1)

Init ==
  /\ config \in Configs
  /\ served \in SUBSET ToSet(Candidates)
  /\ shifts = 0
  /\ devicePromise = NoConnection
  /\ probing = <<>>
  /\ open = {}
  /\ awaits = [h \in Handlers |-> NoConnection]
  /\ got = [h \in Handlers |-> Nothing]

----------------------------------------------------------------------------
Waiting(h) == awaits[h] # NoConnection /\ got[h] = Nothing

\* The outcome of connection k reaches every handler that awaits it.
Settle(k, value) ==
  got' = [h \in Handlers |-> IF awaits[h] = k /\ got[h] = Nothing THEN value ELSE got[h]]

\* connect() runs up to the getVersion of the first candidate.
Connect(h) ==
  LET k == Len(probing) + 1
  IN  /\ probing' = Append(probing, 1)
      /\ open' = open \union {Client(k, 1)}
      /\ awaits' = [awaits EXCEPT ![h] = k]

\* Mutant: the promise is kept only once it is fulfilled.
MutGetDeviceKeepsNoPromise(h) ==
  /\ awaits[h] = NoConnection /\ got[h] = Nothing
  /\ Candidates # <<>>
  /\ Connect(h)
  /\ UNCHANGED <<config, served, shifts, devicePromise, got>>

\* A promise that is fulfilled already gives the client at once; one that is
\* pending makes the handler wait; without one a connection is begun.
getDevice(h) ==
  /\ awaits[h] = NoConnection /\ got[h] = Nothing
  /\ Candidates # <<>>
  /\ IF devicePromise = NoConnection
     THEN Connect(h) /\ devicePromise' = Len(probing) + 1 /\ UNCHANGED got
     ELSE /\ awaits' = [awaits EXCEPT ![h] = devicePromise]
          /\ got' = [got EXCEPT ![h] =
               IF \E g \in Handlers : awaits[g] = devicePromise /\ got[g] # Nothing
               THEN Client(devicePromise, probing[devicePromise]) ELSE @]
          /\ UNCHANGED <<probing, open, devicePromise>>
  /\ UNCHANGED <<config, served, shifts>>

\* The configuration is rejected before anything is created.
getDeviceRejects(h) ==
  /\ awaits[h] = NoConnection /\ got[h] = Nothing
  /\ Candidates = <<>>
  /\ got' = [got EXCEPT ![h] = Rejected]
  /\ UNCHANGED <<config, served, shifts, devicePromise, probing, open, awaits>>

Pending(k) == \E h \in Handlers : awaits[h] = k /\ Waiting(h)

\* getVersion answers: the miner serves the candidate now.
ProbeSucceeds(k) ==
  /\ Pending(k)
  /\ Candidates[probing[k]] \in served
  /\ Settle(k, Client(k, probing[k]))
  /\ UNCHANGED <<config, served, shifts, devicePromise, probing, open, awaits>>

\* Mutant: the client of a candidate that failed is left open.
MutProbeFailsLeaks(k) ==
  /\ Pending(k)
  /\ probing[k] < Len(Candidates)
  /\ probing' = [probing EXCEPT ![k] = @ + 1]
  /\ open' = open \union {Client(k, probing[k] + 1)}
  /\ UNCHANGED <<config, served, shifts, devicePromise, awaits, got>>

\* Mutant: one candidate too many.
MutProbeFailsPastTheLast(k) ==
  /\ Pending(k)
  /\ probing' = [probing EXCEPT ![k] = @ + 1]
  /\ open' = (open \ {Client(k, probing[k])}) \union {Client(k, probing[k] + 1)}
  /\ UNCHANGED <<config, served, shifts, devicePromise, awaits, got>>

\* getVersion fails, by an error or by the timeout, and there is another
\* candidate: the client is closed and the next one probed.
ProbeFails(k) ==
  /\ Pending(k)
  /\ probing[k] < Len(Candidates)
  /\ probing' = [probing EXCEPT ![k] = @ + 1]
  /\ open' = (open \ {Client(k, probing[k])}) \union {Client(k, probing[k] + 1)}
  /\ UNCHANGED <<config, served, shifts, devicePromise, awaits, got>>

\* Mutant: the rejected promise is kept.
MutLastProbeFailsKeepsPromise(k) ==
  /\ Pending(k)
  /\ probing[k] = Len(Candidates)
  /\ open' = open \ {Client(k, probing[k])}
  /\ Settle(k, Rejected)
  /\ UNCHANGED <<config, served, shifts, devicePromise, probing, awaits>>

\* Mutant: a failed connection forgets its handlers.
MutLastProbeFailsSilently(k) ==
  /\ Pending(k)
  /\ probing[k] = Len(Candidates)
  /\ open' = open \ {Client(k, probing[k])}
  /\ devicePromise' = NoConnection
  /\ UNCHANGED <<config, served, shifts, probing, awaits, got>>

\* The last candidate fails: the promise is forgotten, then rejected.
LastProbeFails(k) ==
  /\ Pending(k)
  /\ probing[k] = Len(Candidates)
  /\ open' = open \ {Client(k, probing[k])}
  /\ devicePromise' = NoConnection
  /\ Settle(k, Rejected)
  /\ UNCHANGED <<config, served, shifts, probing, awaits>>

\* The miner goes away, comes back, or is updated to another API.
MinerShifts ==
  /\ shifts < MaxShifts
  /\ shifts' = shifts + 1
  /\ served' \in SUBSET ToSet(Candidates)
  /\ UNCHANGED <<config, devicePromise, probing, open, awaits, got>>

----------------------------------------------------------------------------
Probe == \E k \in Connections : ProbeSucceeds(k) \/ ProbeFails(k) \/ LastProbeFails(k)

Finished ==
  /\ \A h \in Handlers : got[h] # Nothing
  /\ UNCHANGED vars

Next ==
  \/ \E h \in Handlers : getDevice(h) \/ getDeviceRejects(h)
  \/ Probe
  \/ MinerShifts
  \/ Finished

\* A getVersion request is answered, refused or timed out.
Fairness == WF_vars(Probe)

Spec == Init /\ [][Next]_vars /\ Fairness

----------------------------------------------------------------------------
(* Properties.                                                             *)

Clients == [connection : Nat \ {0}, candidate : 1 .. 2]

TypeOK ==
  /\ config \in Configs
  /\ served \subseteq Candidate
  /\ shifts \in 0 .. MaxShifts
  /\ devicePromise \in 0 .. Len(probing)
  /\ \A k \in Connections : probing[k] \in 1 .. Len(Candidates)
  /\ open \subseteq Clients
  /\ awaits \in [Handlers -> 0 .. Len(probing)]
  /\ got \in [Handlers -> Clients \union {Nothing, Rejected}]

\* All handlers of the context use one client, and it is never closed under
\* them, however their calls, the failures and the retries interleave: the
\* token and the cache that the client keeps exist once per miner.
OneClient ==
  \A g, h \in Handlers :
    got[g] \in Clients /\ got[h] \in Clients => got[g] = got[h] /\ got[g] \in open

\* A probe that failed leaves nothing behind: at most one client is open.
NothingLeaks == Cardinality(open) <= 1

\* A rejection is never served from the memo: once a handler was told of a
\* failed connection, the next call probes the miner again.
FailureNotKept ==
  \A h \in Handlers : got[h] = Rejected /\ awaits[h] # NoConnection => devicePromise # awaits[h]

\* A handler that asked for the client gets it or an error.
Termination == \A h \in Handlers : awaits[h] # NoConnection ~> got[h] # Nothing

=============================================================================
