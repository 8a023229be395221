------------------------ MODULE CredentialProxyProofs ------------------------
(***************************************************************************)
(* What holds of the credential gateway for any finite number of requests  *)
(* and any limits.                                                         *)
(***************************************************************************)
EXTENDS CredentialProxy, FiniteSetTheorems, TLAPS

(* The sets that are counted are finite.                                   *)
LEMMA CountedFinite ==
    ASSUME TypeOK
    PROVE  /\ IsFiniteSet(Open) /\ Cardinality(Open) \in Nat
           /\ IsFiniteSet(Counted) /\ Cardinality(Counted) \in Nat
<1>1. Open \in SUBSET Requests /\ Counted \in SUBSET Requests
  BY DEF Open, Counted, TypeOK
<1> QED
  BY <1>1, FS_Subset, FS_CardinalityType, ProxyAssumption

LEMMA InitProxyInv == Init => ProxyInv
<1> SUFFICES ASSUME Init PROVE ProxyInv
  OBVIOUS
<1>1. Open = {} /\ Counted = {}
  BY DEF Init, Open, Counted, Slot, Upstream
<1>2. Cardinality(Open) = 0 /\ Cardinality(Counted) = 0
  BY <1>1, FS_EmptySet
<1>3. TypeOK
  BY ProxyAssumption DEF Init, TypeOK, Slot, Upstream
<1>4. RelayedIsWhole /\ NoOrphanCall
  BY DEF Init, RelayedIsWhole, NoOrphanCall
<1> QED
  BY <1>2, <1>3, <1>4, ProxyAssumption DEF Init, ProxyInv

-----------------------------------------------------------------------------
(* The steps that leave the requests where they are: the process starts    *)
(* and stops, deadlines pass, clients go.                                  *)
LEMMA QuietStep ==
    ASSUME ProxyInv,
           UNCHANGED <<phase, reply, got, whole, called, requestCount,
                       activeRequests>>,
           proc' \in {"credential", "listening", "closing", "exited"},
           gone' \subseteq Requests, aborted' \subseteq Requests,
           aborted \subseteq aborted',
           \A r \in gone' \ gone : phase[r] \in Upstream => r \in aborted'
    PROVE  ProxyInv'
<1>1. TypeOK'
  BY DEF ProxyInv, TypeOK
<1>2. Open' = Open /\ Counted' = Counted
  BY DEF Open, Counted
<1>3. RelayedIsWhole' /\ NoOrphanCall'
  BY DEF ProxyInv, RelayedIsWhole, NoOrphanCall
<1> QED
  BY <1>1, <1>2, <1>3 DEF ProxyInv

LEMMA ProcessStep ==
    ASSUME ProxyInv,
           \/ Listen \/ StartFails \/ Shutdown \/ Exit
           \/ \E r \in Requests : ClientLeaves(r) \/ Timeout(r)
    PROVE  ProxyInv'
<1>1. Open \subseteq Requests
  BY DEF Open
<1>2. CASE Listen \/ StartFails \/ Exit
  BY <1>2, QuietStep DEF Listen, StartFails, Exit, quiet, ProxyInv, TypeOK
<1>3. CASE Shutdown
  BY <1>1, <1>3, QuietStep DEF Shutdown, ForceClose, quiet, ProxyInv, TypeOK
<1>4. ASSUME NEW r \in Requests, ClientLeaves(r) \/ Timeout(r)
      PROVE  ProxyInv'
  BY <1>4, QuietStep DEF ClientLeaves, Timeout, quiet, ProxyInv, TypeOK
<1> QED
  BY <1>2, <1>3, <1>4

(* The lifetime is over: nothing is open any more.                         *)
LEMMA LifetimeStep ==
    ASSUME ProxyInv, LifetimeOver
    PROVE  ProxyInv'
<1>0. TypeOK /\ RelayedIsWhole /\ Open \subseteq Requests
  BY DEF ProxyInv, Open
<1>1. /\ proc' = "exited" /\ activeRequests' = 0
      /\ phase' = [r \in Requests |-> "over"]
      /\ reply' = [r \in Requests |->
                     IF reply[r] = "none" THEN "cut" ELSE reply[r]]
      /\ UNCHANGED <<got, whole, called, requestCount>>
      /\ gone' = gone \cup Open
      /\ aborted' = aborted \cup {r \in Open : phase[r] \in Upstream}
  BY DEF LifetimeOver, ForceClose, quiet
<1>2. TypeOK'
  <2>1. gone' \in SUBSET Requests /\ aborted' \in SUBSET Requests
    BY <1>0, <1>1 DEF TypeOK
  <2>2. phase' \in [Requests -> Slot \cup {"new", "over"}]
    BY <1>1
  <2>3. reply' \in [Requests -> {"none", "health", "refused", "limited",
                                 "relayed", "failed", "cut"}]
    BY <1>0, <1>1 DEF TypeOK
  <2> QED
    BY <1>0, <1>1, <2>1, <2>2, <2>3, ProxyAssumption DEF TypeOK
<1>3. Open' = {} /\ Counted' \subseteq Counted
  BY <1>1 DEF Open, Counted, Slot, Upstream
<1>4. Cardinality(Open') = 0
  BY <1>3, FS_EmptySet
<1>5. Cardinality(Counted') <= Cardinality(Counted)
  BY <1>0, <1>3, CountedFinite, FS_Subset
<1>6. Cardinality(Counted') <= requestCount'
  <2>1. /\ Cardinality(Counted) \in Nat /\ Cardinality(Counted') \in Nat
        /\ Cardinality(Counted) <= requestCount /\ requestCount \in Nat
    BY <1>0, <1>3, CountedFinite, FS_Subset, FS_CardinalityType, ProxyAssumption
       DEF ProxyInv, TypeOK
  <2> QED
    BY <1>1, <1>5, <2>1
<1>7. RelayedIsWhole' /\ NoOrphanCall'
  BY <1>0, <1>1, <1>2 DEF RelayedIsWhole, NoOrphanCall, Upstream, TypeOK
<1> QED
  BY <1>1, <1>2, <1>4, <1>6, <1>7 DEF ProxyInv

-----------------------------------------------------------------------------
(* What every step of the handler of one request has in common.            *)
LEMMA HandlerStep ==
    ASSUME ProxyInv, NEW r \in Requests, UNCHANGED <<proc, gone>>,
           NEW p \in Slot \cup {"new", "over"},
           phase[r] # "over", p # "new",
           phase' = [phase EXCEPT ![r] = p],
           NEW a \in {"none", "health", "refused", "limited", "relayed",
                      "failed", "cut"},
           reply' = [reply EXCEPT ![r] = a],
           a # "none" => p = "over",
           a = "relayed" => r \in whole',
           \/ UNCHANGED got
           \/ /\ got' = [got EXCEPT ![r] = @ + 1]
              /\ (p = "over" /\ a # "relayed") \/ got[r] < MaxChunks,
           whole' \in {whole, whole \cup {r}},
           aborted' \in {aborted, aborted \cup {r}},
           called' \in {called, called \cup {r}},
           r \in gone /\ p \in Upstream => phase[r] \in Upstream,
           requestCount' \in 0..MaxRequests,
           Cardinality(Counted') <= requestCount',
           activeRequests' \in 0..MaxConcurrency,
           activeRequests' = Cardinality(Open')
    PROVE  ProxyInv'
<1>0. /\ TypeOK /\ RelayedIsWhole /\ NoOrphanCall
      /\ \A q \in Requests :
           /\ phase[q] = "new" => q \notin called
           /\ reply[q] # "none" => phase[q] = "over"
           /\ phase[q] # "over" => got[q] <= MaxChunks
  BY DEF ProxyInv
<1>1. /\ phase'[r] = p /\ \A q \in Requests : q # r => phase'[q] = phase[q]
      /\ reply'[r] = a /\ \A q \in Requests : q # r => reply'[q] = reply[q]
  BY <1>0 DEF TypeOK
<1>2. /\ got[r] \in 0..MaxChunks
      /\ got' \in [Requests -> 0..(MaxChunks + 1)]
      /\ \A q \in Requests : q # r => got'[q] = got[q]
      /\ p # "over" \/ a = "relayed" => got'[r] <= MaxChunks
  BY <1>0, ProxyAssumption DEF TypeOK
<1>3. TypeOK'
  BY <1>0, <1>2 DEF TypeOK
<1>4. \A q \in Requests :
           /\ phase'[q] = "new" => q \notin called'
           /\ reply'[q] # "none" => phase'[q] = "over"
           /\ phase'[q] # "over" => got'[q] <= MaxChunks
  BY <1>0, <1>1, <1>2
<1>5. RelayedIsWhole'
  BY <1>0, <1>1, <1>2 DEF RelayedIsWhole
<1>6. NoOrphanCall'
  BY <1>0, <1>1 DEF NoOrphanCall, TypeOK
<1> QED
  BY <1>3, <1>4, <1>5, <1>6 DEF ProxyInv

-----------------------------------------------------------------------------
(* A request arrives: answered at once, or given a slot.                   *)
LEMMA ArriveStep ==
    ASSUME ProxyInv, NEW r \in Requests,
           Arrive(r) \/ ArriveElsewhere(r)
    PROVE  ProxyInv'
<1>0. /\ TypeOK /\ phase[r] = "new" /\ reply[r] = "none" /\ r \notin called
      /\ requestCount \in 0..MaxRequests /\ activeRequests \in 0..MaxConcurrency
      /\ MaxRequests \in Nat /\ MaxConcurrency \in Nat
      /\ Cardinality(Counted) <= requestCount
      /\ activeRequests = Cardinality(Open)
  BY ProxyAssumption DEF Arrive, ArriveElsewhere, ProxyInv, TypeOK
<1>1. /\ UNCHANGED <<proc, gone, got, whole, called, aborted>>
      /\ r \notin Open /\ r \notin Counted
  BY <1>0 DEF Arrive, ArriveElsewhere, quiet, Open, Counted, Slot, Upstream
<1>2. ASSUME NEW what \in {"health", "refused", "limited"}, Answer(r, what),
             requestCount' \in {requestCount, requestCount + 1},
             requestCount' \in 0..MaxRequests, UNCHANGED activeRequests
      PROVE  ProxyInv'
  <2>1. PICK a \in {"cut", "health", "refused", "limited"} :
              reply' = [reply EXCEPT ![r] = a]
    BY Zenon, <1>2 DEF Answer
  <2>2. phase' = [phase EXCEPT ![r] = "over"]
    BY <1>2 DEF Answer
  <2>3. Open' = Open /\ Counted' = Counted
    BY <1>0, <1>1, <2>2 DEF Open, Counted, Slot, Upstream, TypeOK
  <2>4. Cardinality(Counted') <= requestCount'
    <3>1. Cardinality(Counted) \in Nat
      BY <1>0, CountedFinite, FS_CardinalityType
    <3> QED
      BY <1>0, <1>2, <2>3, <3>1
  <2>5. "over" \in Slot \cup {"new", "over"} /\ "over" \notin Upstream
    BY SMTT(30) DEF Upstream
  <2> QED
    BY Zenon, <1>0, <1>1, <1>2, <2>1, <2>2, <2>3, <2>4, <2>5, HandlerStep
<1>3. ASSUME requestCount < MaxRequests, requestCount' = requestCount + 1,
             activeRequests < MaxConcurrency,
             phase' = [phase EXCEPT ![r] = "reading"],
             activeRequests' = activeRequests + 1, UNCHANGED reply
      PROVE  ProxyInv'
  <2>1. Open' = Open \cup {r} /\ Counted' = Counted \cup {r}
    BY <1>0, <1>1, <1>3 DEF Open, Counted, Slot, Upstream, TypeOK
  <2>2. /\ Cardinality(Open') = Cardinality(Open) + 1
        /\ Cardinality(Counted') = Cardinality(Counted) + 1
        /\ Cardinality(Counted) \in Nat
    BY Zenon, <1>0, <1>1, <2>1, CountedFinite, FS_AddElement, FS_CardinalityType
  <2>3. /\ Cardinality(Counted') <= requestCount'
        /\ requestCount' \in 0..MaxRequests
        /\ activeRequests' \in 0..MaxConcurrency
        /\ activeRequests' = Cardinality(Open')
    BY <1>0, <1>3, <2>2
  <2>4. reply' = [reply EXCEPT ![r] = "none"]
    BY <1>0, <1>3 DEF TypeOK
  <2>5. "reading" \in Slot \cup {"new", "over"} /\ "reading" \notin Upstream
    BY DEF Slot, Upstream
  <2>6. "none" \in {"none", "health", "refused", "limited", "relayed", "failed", "cut"}
    OBVIOUS
  <2> QED
    BY Zenon, <1>0, <1>1, <1>3, <2>3, <2>4, <2>5, <2>6, HandlerStep
<1>4. CASE ArriveElsewhere(r)
  BY <1>0, <1>2, <1>4 DEF ArriveElsewhere
<1>5. CASE Arrive(r) /\ requestCount >= MaxRequests
  BY <1>0, <1>2, <1>5 DEF Arrive
<1>6. CASE Arrive(r) /\ ~(requestCount >= MaxRequests)
  <2>1. requestCount < MaxRequests /\ requestCount + 1 \in 0..MaxRequests
    BY SMTT(30), <1>0, <1>6
  <2> QED
    BY <1>2, <1>3, <1>6, <2>1 DEF Arrive
<1> QED
  BY <1>4, <1>5, <1>6

(* A handler ends: the slot is given back.                                 *)
LEMMA FinishStep ==
    ASSUME ProxyInv, NEW r \in Requests, phase[r] \in Slot,
           NEW what \in {"refused", "relayed", "failed", "cut"}, Finish(r, what),
           UNCHANGED <<proc, gone, called, requestCount>>,
           \/ UNCHANGED got
           \/ got' = [got EXCEPT ![r] = @ + 1] /\ what # "relayed",
           whole' \in {whole, whole \cup {r}}, what = "relayed" => r \in whole',
           aborted' \in {aborted, aborted \cup {r}}
    PROVE  ProxyInv'
<1>0. /\ TypeOK /\ MaxRequests \in Nat /\ MaxConcurrency \in Nat
      /\ requestCount \in 0..MaxRequests /\ activeRequests \in 0..MaxConcurrency
      /\ Cardinality(Counted) <= requestCount
      /\ activeRequests = Cardinality(Open) /\ r \in Open
  BY ProxyAssumption DEF ProxyInv, TypeOK, Open
<1>1. PICK a \in {"cut", "refused", "relayed", "failed"} :
            reply' = [reply EXCEPT ![r] = a] /\ a \in {what, "cut"}
  BY Zenon DEF Finish, Answer
<1>2. /\ phase' = [phase EXCEPT ![r] = "over"]
      /\ activeRequests' = activeRequests - 1
  BY DEF Finish, Answer
<1>3. Open' = Open \ {r} /\ Counted' \subseteq Counted
  BY <1>0, <1>2 DEF Open, Counted, Slot, Upstream, TypeOK
<1>4. /\ IsFiniteSet(Open) /\ IsFiniteSet(Counted)
      /\ Cardinality(Open) \in Nat /\ Cardinality(Counted) \in Nat
  BY <1>0, CountedFinite, FS_CardinalityType
<1>5. Cardinality(Open') = Cardinality(Open) - 1 /\ Cardinality(Open') \in Nat
  BY <1>0, <1>3, <1>4, FS_RemoveElement, FS_CardinalityType
<1>6. Cardinality(Counted') <= Cardinality(Counted) /\ Cardinality(Counted') \in Nat
  BY <1>3, <1>4, FS_Subset, FS_CardinalityType
<1>7. /\ Cardinality(Counted') <= requestCount'
      /\ activeRequests' \in 0..MaxConcurrency
      /\ activeRequests' = Cardinality(Open')
  BY <1>0, <1>2, <1>4, <1>5, <1>6
<1>8. /\ "over" \in Slot \cup {"new", "over"} /\ "over" \notin Upstream
      /\ phase[r] # "over"
  BY DEF Slot, Upstream
<1> QED
  BY Zenon, <1>0, <1>1, <1>2, <1>7, <1>8, HandlerStep

(* A handler goes on: the slot is kept.                                    *)
LEMMA MoveStep ==
    ASSUME ProxyInv, NEW r \in Requests, phase[r] \in Slot,
           NEW p \in Upstream, phase' = [phase EXCEPT ![r] = p],
           UNCHANGED <<proc, gone, aborted, whole, reply, requestCount,
                       activeRequests>>,
           IF phase[r] = "reading" THEN called' = called \cup {r} ELSE UNCHANGED called,
           r \in gone => phase[r] \in Upstream,
           \/ UNCHANGED got
           \/ got' = [got EXCEPT ![r] = @ + 1] /\ got[r] < MaxChunks
    PROVE  ProxyInv'
<1>0. /\ TypeOK /\ Cardinality(Counted) <= requestCount
      /\ activeRequests = Cardinality(Open)
      /\ requestCount \in 0..MaxRequests /\ activeRequests \in 0..MaxConcurrency
      /\ phase[r] # "over" /\ reply[r] = "none"
  BY DEF ProxyInv, TypeOK, Slot, Upstream
<1>1. Open' = Open
  BY <1>0 DEF Open, Slot, TypeOK
<1>2. Counted' = Counted
  <2>1. \A q \in Requests : q # r => phase'[q] = phase[q]
    BY <1>0 DEF TypeOK
  <2>2. phase'[r] # "reading"
    BY <1>0 DEF TypeOK, Upstream
  <2> QED
    BY <1>0, <2>1, <2>2 DEF Counted
<1>3. reply' = [reply EXCEPT ![r] = "none"]
  BY <1>0 DEF TypeOK
<1>4. p \in Slot \cup {"new", "over"} /\ p # "new"
  BY DEF Slot, Upstream
<1> QED
  BY Zenon, <1>0, <1>1, <1>2, <1>3, <1>4, HandlerStep

LEMMA HandleStep ==
    ASSUME ProxyInv, NEW r \in Requests, Handle(r)
    PROVE  ProxyInv'
<1>0. TypeOK /\ phase \in [Requests -> Slot \cup {"new", "over"}]
  BY DEF ProxyInv, TypeOK
<1>1. CASE BodyRefused(r)
  BY <1>1, FinishStep DEF BodyRefused, quiet, Slot
<1>2. CASE Forward(r)
  <2>1. /\ phase[r] \in Slot /\ "waiting" \in Upstream
        /\ phase' = [phase EXCEPT ![r] = "waiting"]
        /\ phase[r] = "reading" /\ called' = called \cup {r} /\ r \notin gone
        /\ UNCHANGED <<proc, gone, aborted, whole, reply, requestCount,
                       activeRequests>>
        /\ UNCHANGED got
    BY <1>2 DEF Forward, Slot, Upstream
  <2> QED
    BY Zenon, <2>1, MoveStep
<1>3. CASE Head(r)
  <2>1. PICK next \in {"collecting", "streaming"} :
               phase' = [phase EXCEPT ![r] = next]
    BY Zenon, <1>3 DEF Head
  <2>2. /\ phase[r] \in Slot /\ next \in Upstream /\ phase[r] \in Upstream
        /\ phase[r] # "reading"
        /\ UNCHANGED <<proc, gone, aborted, whole, reply, requestCount,
                       activeRequests>>
        /\ UNCHANGED called /\ UNCHANGED got
    BY <1>3 DEF Head, quiet, Slot, Upstream
  <2> QED
    BY Zenon, <2>1, <2>2, MoveStep
<1>4. CASE Chunk(r) /\ got[r] = MaxChunks
  <2>1. PICK what \in {"failed", "cut"} : Finish(r, what)
    BY <1>4, ProxyAssumption DEF Chunk
  <2>2. /\ phase[r] \in Slot /\ got' = [got EXCEPT ![r] = @ + 1]
        /\ aborted' = aborted \cup {r}
        /\ UNCHANGED <<proc, gone, called, requestCount, whole>>
    BY <1>4, ProxyAssumption DEF Chunk, Slot, Upstream
  <2> QED
    BY Zenon, <2>1, <2>2, FinishStep
<1>5. CASE Chunk(r) /\ got[r] < MaxChunks
  <2>1. PICK next \in Upstream : phase' = [phase EXCEPT ![r] = next]
    <3>1. CASE UNCHANGED phase
      <4>1. phase' = [phase EXCEPT ![r] = phase[r]]
        BY <1>0, <3>1
      <4> QED
        BY Zenon, <1>5, <4>1 DEF Chunk, Upstream
    <3>2. CASE phase' = [phase EXCEPT ![r] = "draining"]
      BY <3>2 DEF Upstream
    <3> QED
      BY <1>5, <3>1, <3>2, ProxyAssumption DEF Chunk
  <2>2. /\ phase[r] \in Slot /\ phase[r] \in Upstream /\ phase[r] # "reading"
        /\ got' = [got EXCEPT ![r] = @ + 1]
        /\ UNCHANGED <<proc, gone, aborted, whole, reply, requestCount,
                       activeRequests, called>>
    BY <1>5, ProxyAssumption DEF Chunk, Slot, Upstream
  <2> QED
    BY Zenon, <1>5, <2>1, <2>2, MoveStep
<1>6. CASE Drained(r)
  <2>1. /\ phase[r] \in Slot /\ "streaming" \in Upstream /\ phase[r] \in Upstream
        /\ phase[r] # "reading" /\ phase' = [phase EXCEPT ![r] = "streaming"]
        /\ UNCHANGED <<proc, gone, aborted, whole, reply, requestCount,
                       activeRequests>>
        /\ UNCHANGED called /\ UNCHANGED got
    BY <1>6 DEF Drained, quiet, Slot, Upstream
  <2> QED
    BY Zenon, <2>1, MoveStep
<1>7. CASE End(r)
  <2>1. /\ phase[r] \in Slot /\ Finish(r, "relayed")
        /\ whole' = whole \cup {r} /\ r \in whole'
        /\ UNCHANGED <<proc, gone, called, requestCount>>
        /\ UNCHANGED got /\ UNCHANGED aborted
    BY <1>7 DEF End, Slot, Upstream
  <2> QED
    BY <2>1, FinishStep
<1>8. CASE Break(r)
  <2>1. PICK what \in {"failed", "cut"} : Finish(r, what)
    BY <1>8 DEF Break
  <2>2. /\ phase[r] \in Slot /\ aborted' = aborted \cup {r}
        /\ UNCHANGED <<proc, gone, called, requestCount, got, whole>>
    BY <1>8 DEF Break, quiet, Slot, Upstream
  <2> QED
    BY <2>1, <2>2, FinishStep
<1>9. CASE Timeout(r)
  BY <1>9, ProcessStep
<1> QED
  BY <1>1, <1>2, <1>3, <1>4, <1>5, <1>6, <1>7, <1>8, <1>9 DEF Handle, Chunk

-----------------------------------------------------------------------------
LEMMA NextProxyInv ==
    ASSUME ProxyInv, [Next]_vars
    PROVE  ProxyInv'
<1>1. CASE UNCHANGED vars
  BY <1>1, QuietStep DEF vars, ProxyInv, TypeOK
<1>2. CASE Next
  BY <1>2, ProcessStep, LifetimeStep, ArriveStep, HandleStep DEF Next
<1> QED
  BY <1>1, <1>2

(* However many requests there are and however they overlap, break or are  *)
(* abandoned: activeRequests counts the requests being served and stays    *)
(* within maxConcurrency (credential-proxy.mjs gives each slot back once), *)
(* the run forwards no more requests than its budget, an answer passed on  *)
(* as complete is whole, and no call upstream outlives its client.         *)
THEOREM ProxySafe == Spec => []ProxySafety
<1>1. Init => ProxyInv
  BY InitProxyInv
<1>2. ProxyInv /\ [Next]_vars => ProxyInv'
  BY NextProxyInv
<1>3. ProxyInv => ProxySafety
  <2> HAVE ProxyInv
  <2>1. SlotsMatch
    BY ProxyAssumption DEF ProxyInv, TypeOK, SlotsMatch
  <2>2. called \subseteq Counted /\ IsFiniteSet(Counted) /\ TypeOK
    BY CountedFinite DEF Counted, ProxyInv
  <2>3. /\ Cardinality(called) <= Cardinality(Counted)
        /\ Cardinality(called) \in Nat /\ Cardinality(Counted) \in Nat
    BY <2>2, FS_Subset, FS_CardinalityType
  <2>4. BudgetHolds
    BY <2>2, <2>3, ProxyAssumption DEF BudgetHolds, ProxyInv, TypeOK
  <2> QED
    BY <2>1, <2>4 DEF ProxySafety
<1> QED
  BY <1>1, <1>2, <1>3, PTL DEF Spec
=============================================================================
