--------------------------- MODULE CredentialProxy ---------------------------
(***************************************************************************)
(* The credential gateway (src/credential-proxy.mjs): an HTTP server that  *)
(* holds the model credential, forwards chat requests to the model service *)
(* within a budget of requests and a limit on simultaneous ones, relays    *)
(* the answer whole or as a stream, and stops at the end of its lifetime.  *)
(*                                                                         *)
(* One action is one run of the event loop: a handler up to its next       *)
(* await.  Timers are not timed: a timeout may fire whenever it is set.    *)
(* Bodies are abstracted to whether they are acceptable, answers to the    *)
(* number of chunks relayed; the model service is external.                *)
(***************************************************************************)
EXTENDS Integers, FiniteSets

CONSTANTS
    Requests,         \* the requests clients send, each once
    MaxRequests,      \* maxRequests, the budget of the run
    MaxConcurrency,   \* maxConcurrency
    MaxChunks         \* maxResponseBytes, in chunks

ASSUME ProxyAssumption ==
    IsFiniteSet(Requests) /\ {MaxRequests, MaxConcurrency, MaxChunks} \subseteq Nat

VARIABLES
    proc,             \* the process
    phase,            \* of each request
    reply,            \* what became of it
    got,              \* chunks of the answer received for it
    whole,            \* the requests whose answer ended of itself
    gone,             \* the requests whose client has closed
    aborted,          \* the requests whose upstream call was aborted
    called,           \* the requests forwarded to the model service
    requestCount,
    activeRequests

vars == <<proc, phase, reply, got, whole, gone, aborted, called, requestCount,
          activeRequests>>
quiet == <<got, whole, called>>

Upstream == {"waiting", "collecting", "streaming", "draining"}
Slot == {"reading"} \cup Upstream

TypeOK ==
    /\ proc \in {"credential", "listening", "closing", "exited"}
    /\ phase \in [Requests -> Slot \cup {"new", "over"}]
    /\ reply \in [Requests -> {"none", "health", "refused", "limited",
                               "relayed", "failed", "cut"}]
    /\ got \in [Requests -> 0..(MaxChunks + 1)]
    /\ whole \in SUBSET Requests /\ gone \in SUBSET Requests
    /\ aborted \in SUBSET Requests /\ called \in SUBSET Requests
    /\ requestCount \in 0..MaxRequests
    /\ activeRequests \in 0..MaxConcurrency

Init ==
    /\ proc = "credential"
    /\ phase = [r \in Requests |-> "new"]
    /\ reply = [r \in Requests |-> "none"]
    /\ got = [r \in Requests |-> 0]
    /\ whole = {} /\ gone = {} /\ aborted = {} /\ called = {}
    /\ requestCount = 0 /\ activeRequests = 0

-----------------------------------------------------------------------------
(* The process.                                                            *)

(* The credential line is read and the server listens.                     *)
Listen ==
    /\ proc = "credential"
    /\ proc' = "listening"
    /\ UNCHANGED <<phase, reply, quiet, gone, aborted, requestCount,
                   activeRequests>>

(* An unreadable credential or a port in use ends the process.             *)
StartFails ==
    /\ proc = "credential"
    /\ proc' = "exited"
    /\ UNCHANGED <<phase, reply, quiet, gone, aborted, requestCount,
                   activeRequests>>

Open == {r \in Requests : phase[r] \in Slot}

(* forceClose destroys every connection: each open request is aborted, or  *)
(* its response closed, and with it its call upstream.                     *)
ForceClose ==
    /\ gone' = gone \cup Open
    /\ aborted' = aborted \cup {r \in Open : phase[r] \in Upstream}

(* SIGTERM, SIGINT or a server error: the lifetime timer is cleared, the   *)
(* process ends when nothing is left to wait for.                          *)
Shutdown ==
    /\ proc = "listening"
    /\ proc' = "closing"
    /\ ForceClose
    /\ UNCHANGED <<phase, reply, quiet, requestCount, activeRequests>>

Exit ==
    /\ proc = "closing" /\ Open = {}
    /\ proc' = "exited"
    /\ UNCHANGED <<phase, reply, quiet, gone, aborted, requestCount,
                   activeRequests>>

(* The lifetime timer, set before the credential is read: process.exit.    *)
LifetimeOver ==
    /\ proc \in {"credential", "listening"}
    /\ proc' = "exited"
    /\ phase' = [r \in Requests |-> "over"]
    /\ reply' = [r \in Requests |-> IF reply[r] = "none" THEN "cut" ELSE reply[r]]
    /\ activeRequests' = 0
    /\ ForceClose
    /\ UNCHANGED <<quiet, requestCount>>

-----------------------------------------------------------------------------
(* A request.                                                              *)

Answer(r, what) ==
    /\ phase' = [phase EXCEPT ![r] = "over"]
    /\ reply' = [reply EXCEPT ![r] = IF r \in gone THEN "cut" ELSE what]

(* The end of the handler's try: answered, and the slot given back.        *)
Finish(r, what) ==
    /\ Answer(r, what)
    /\ activeRequests' = activeRequests - 1

(* Health probes, and what is refused before it counts: a wrong host, path *)
(* or method, an Expect header.                                            *)
ArriveElsewhere(r) ==
    /\ proc = "listening" /\ phase[r] = "new"
    /\ \E what \in {"health", "refused"} : Answer(r, what)
    /\ UNCHANGED <<proc, quiet, gone, aborted, requestCount, activeRequests>>

(* Mutant: a request of the wrong media type takes a slot and keeps it.    *)
ArriveKeepsSlot(r) ==
    /\ proc = "listening" /\ phase[r] = "new"
    /\ IF requestCount >= MaxRequests
       THEN Answer(r, "limited") /\ UNCHANGED <<requestCount, activeRequests>>
       ELSE /\ requestCount' = requestCount + 1
            /\ \/ /\ activeRequests >= MaxConcurrency
                  /\ Answer(r, "limited") /\ UNCHANGED activeRequests
               \/ /\ activeRequests < MaxConcurrency
                  /\ activeRequests' = activeRequests + 1
                  /\ \/ Answer(r, "refused")
                     \/ phase' = [phase EXCEPT ![r] = "reading"] /\ UNCHANGED reply
    /\ UNCHANGED <<proc, quiet, gone, aborted>>

(* A chat request up to the first await: counted against the budget, then  *)
(* against the slots; the wrong media type or a declared length too large  *)
(* is refused at once, after the slot is given back.                       *)
Arrive(r) ==
    /\ proc = "listening" /\ phase[r] = "new"
    /\ IF requestCount >= MaxRequests
       THEN Answer(r, "limited") /\ UNCHANGED <<requestCount, activeRequests>>
       ELSE /\ requestCount' = requestCount + 1
            /\ \/ /\ activeRequests >= MaxConcurrency
                  /\ Answer(r, "limited") /\ UNCHANGED activeRequests
               \/ /\ activeRequests < MaxConcurrency
                  /\ \/ Answer(r, "refused") /\ UNCHANGED activeRequests
                     \/ /\ phase' = [phase EXCEPT ![r] = "reading"]
                        /\ activeRequests' = activeRequests + 1
                        /\ UNCHANGED reply
    /\ UNCHANGED <<proc, quiet, gone, aborted>>

(* The body is aborted, too large, broken or late; or it is read and is    *)
(* not JSON, not for the fixed model, routes elsewhere or asks for a wrong *)
(* number of tokens.                                                       *)
BodyRefused(r) ==
    /\ phase[r] = "reading"
    /\ Finish(r, "refused")
    /\ UNCHANGED <<proc, quiet, gone, aborted, requestCount>>

Forward(r) ==
    /\ phase[r] = "reading" /\ r \notin gone
    /\ phase' = [phase EXCEPT ![r] = "waiting"]
    /\ called' = called \cup {r}
    /\ UNCHANGED <<proc, reply, got, whole, gone, aborted, requestCount,
                   activeRequests>>

(* The model service answers: the head of a stream is passed on at once.   *)
Head(r) ==
    /\ phase[r] = "waiting" /\ r \notin aborted
    /\ \E next \in {"collecting", "streaming"} :
         phase' = [phase EXCEPT ![r] = next]
    /\ UNCHANGED <<proc, reply, quiet, gone, aborted, requestCount,
                   activeRequests>>

(* One more chunk.  Over the limit, a collected answer becomes 502; of a   *)
(* stream the head is out and the connection is destroyed.  A chunk that   *)
(* is written may have to wait until the client has read.                  *)
Chunk(r) ==
    /\ phase[r] \in {"collecting", "streaming"} /\ r \notin aborted
    /\ got' = [got EXCEPT ![r] = @ + 1]
    /\ \/ /\ got[r] = MaxChunks
          /\ Finish(r, IF phase[r] = "streaming" THEN "cut" ELSE "failed")
          /\ aborted' = aborted \cup {r}
       \/ /\ got[r] < MaxChunks
          /\ \/ UNCHANGED phase
             \/ phase[r] = "streaming" /\ phase' = [phase EXCEPT ![r] = "draining"]
          /\ UNCHANGED <<reply, aborted, activeRequests>>
    /\ UNCHANGED <<proc, whole, gone, called, requestCount>>

(* waitForDrain: the client has read, or its connection is closed.         *)
Drained(r) ==
    /\ phase[r] = "draining"
    /\ phase' = [phase EXCEPT ![r] = "streaming"]
    /\ UNCHANGED <<proc, reply, quiet, gone, aborted, requestCount,
                   activeRequests>>

(* The answer ends of itself.                                              *)
End(r) ==
    /\ phase[r] \in {"collecting", "streaming"} /\ r \notin aborted
    /\ whole' = whole \cup {r}
    /\ Finish(r, "relayed")
    /\ UNCHANGED <<proc, got, gone, aborted, called, requestCount>>

(* The call upstream fails or was aborted: no answer to a client that has  *)
(* gone, 502 or 504 if no head is out, else the connection is destroyed.   *)
Break(r) ==
    /\ phase[r] \in {"waiting", "collecting", "streaming"}
    /\ aborted' = aborted \cup {r}
    /\ Finish(r, IF phase[r] = "streaming" THEN "cut" ELSE "failed")
    /\ UNCHANGED <<proc, quiet, gone, requestCount>>

(* Mutant: the deadline covers the head of the answer only.                *)
TimeoutOfHead(r) ==
    /\ phase[r] = "waiting" /\ r \notin aborted
    /\ aborted' = aborted \cup {r}
    /\ UNCHANGED <<proc, phase, reply, quiet, gone, requestCount,
                   activeRequests>>

(* The deadline of the request aborts the call; a handler that waits for   *)
(* its client to read learns of it only afterwards.                        *)
Timeout(r) ==
    /\ phase[r] \in Upstream /\ r \notin aborted
    /\ aborted' = aborted \cup {r}
    /\ UNCHANGED <<proc, phase, reply, quiet, gone, requestCount,
                   activeRequests>>

(* The client closes its connection.                                       *)
ClientLeaves(r) ==
    /\ phase[r] \in Slot /\ r \notin gone
    /\ gone' = gone \cup {r}
    /\ aborted' = aborted \cup {x \in {r} : phase[x] \in Upstream}
    /\ UNCHANGED <<proc, phase, reply, quiet, requestCount, activeRequests>>

(* What ends the waits of the handler of r.                                *)
Handle(r) ==
    \/ BodyRefused(r) \/ Forward(r) \/ Head(r) \/ Chunk(r) \/ Drained(r)
    \/ End(r) \/ Break(r) \/ Timeout(r)

Next ==
    \/ Listen \/ StartFails \/ Shutdown \/ Exit \/ LifetimeOver
    \/ /\ proc \in {"listening", "closing"}
       /\ \E r \in Requests : \/ Arrive(r) \/ ArriveElsewhere(r) \/ Handle(r)
                              \/ ClientLeaves(r)

(* The timers are set, so reading ends, a call is aborted and an aborted   *)
(* call fails; a client reads or closes.  The model service owes nothing,  *)
(* nor does whoever is to write the credential.  The lifetime is taken as  *)
(* longer than the requests: a server that listens need not reach its end. *)
Fairness ==
    /\ WF_vars(Exit) /\ WF_vars(proc = "credential" /\ LifetimeOver)
    /\ \A r \in Requests :
         /\ WF_vars(BodyRefused(r) \/ Forward(r))
         /\ WF_vars(Timeout(r) \/ (r \in aborted /\ (Break(r) \/ Drained(r))))

Spec == Init /\ [][Next]_vars /\ Fairness

-----------------------------------------------------------------------------
(* activeRequests counts exactly the requests being served, whichever of   *)
(* the ways out a handler took (credential-proxy.mjs:594 gives the slot    *)
(* back): no slot leaks, none is given back twice, and no more than        *)
(* maxConcurrency calls with the credential are open at once.              *)
SlotsMatch ==
    /\ activeRequests = Cardinality(Open)
    /\ Cardinality(Open) <= MaxConcurrency

(* However requests overlap, the run forwards no more of them than its     *)
(* budget.                                                                 *)
BudgetHolds == Cardinality(called) <= MaxRequests

(* An answer that a client may take for complete is one the model service  *)
(* ended and that kept to the limit: a broken, late or oversized answer is *)
(* an error or a destroyed connection (forwardRequest's catch).            *)
RelayedIsWhole ==
    \A r \in Requests : reply[r] = "relayed" => r \in whole /\ got[r] <= MaxChunks

(* Nobody waits upstream for a client that has gone: the call is aborted   *)
(* with the connection.                                                    *)
NoOrphanCall ==
    \A r \in gone : phase[r] \in Upstream => r \in aborted

(* Every slot is given back, also when the model service never answers.    *)
SlotFreed ==
    \A r \in Requests : phase[r] \in Slot ~> phase[r] = "over"

(* The process hangs neither before it listens, where the lifetime timer   *)
(* is already set, nor after a signal, which clears that timer and relies  *)
(* on every connection being closed.                                       *)
ProcessEnds ==
    /\ proc = "credential" ~> proc # "credential"
    /\ proc = "closing" ~> proc = "exited"

(* Why: the budget has counted what is or was forwarded, and what is still *)
(* being read; a request is answered when its handler is over, and until   *)
(* then its answer is within the limit.                                    *)
Counted == called \cup {r \in Requests : phase[r] = "reading"}

ProxyInv ==
    /\ TypeOK /\ activeRequests = Cardinality(Open)
    /\ Cardinality(Counted) <= requestCount
    /\ \A r \in Requests :
         /\ phase[r] = "new" => r \notin called
         /\ reply[r] # "none" => phase[r] = "over"
         /\ phase[r] # "over" => got[r] <= MaxChunks
    /\ RelayedIsWhole /\ NoOrphanCall

(* All of these at once: slots, budget, answers and calls agree at any     *)
(* moment, however requests overlap, break or are abandoned.               *)
ProxySafety ==
    /\ ProxyInv /\ SlotsMatch /\ BudgetHolds
=============================================================================
