------------------------- MODULE DigitalOceanProofs -------------------------
(***************************************************************************)
(* Proofs about the floating IP calls of the DigitalOcean provider, for    *)
(* any number of pools that share it, and any IPs and droplets.            *)
(***************************************************************************)
EXTENDS DigitalOcean, TLAPS

\* What a call of flipop may read and write.
stateVars == <<exists, attached, flight, latest, floatingIPActions, expired, known, panicked>>

(* The IPs of a pool are in no other pool.                                  *)
LEMMA OwnIPs ==
    ASSUME Undisturbed, NEW c \in Callers, NEW e \in Callers, c # e, NEW ip \in Manages[c]
    PROVE  ip \in IPs /\ ip \notin Manages[e]
  BY ConstantsAssumption DEF Undisturbed

(* The IPs of a pool.                                                       *)
LEMMA ManagedIP ==
    ASSUME NEW c \in Callers, NEW ip \in Manages[c]
    PROVE  ip \in IPs /\ ip # Own
  BY ConstantsAssumption

(* A call that has returned has no claims on the state.                     *)
LEMMA IdleFits ==
    ASSUME NEW c, NEW res \in {"none", "ok", "inProgress", "notFound", "inUse", "fast", "error"}
    PROVE  Idle(res) \in Calls /\ CallFits(c, Idle(res))
<1>1. Idle(res) \in Calls
  BY DEF Idle, Calls
<1>2. Idle(res).at = "idle" /\ Idle(res).for = "none"
  BY DEF Idle
<1>3. CallFits(c, Idle(res))
  BY <1>2 DEF CallFits
<1> QED
  BY <1>1, <1>3

\* Nothing changes but what concerns ip.
Elsewhere(ip) ==
    /\ attached' \in [IPs -> Droplets \cup {NoDroplet}] /\ flight' \in [IPs -> Droplets \cup {NoDroplet}]
    /\ latest' \in [IPs -> Nat] /\ floatingIPActions' \in [IPs -> Nat]
    /\ known' \in [IPs -> Droplets \cup {NoDroplet, Unknown}]
    /\ \A j \in IPs \ {ip} :
         /\ attached'[j] = attached[j] /\ flight'[j] = flight[j] /\ latest'[j] = latest[j]
         /\ floatingIPActions'[j] = floatingIPActions[j] /\ known'[j] = known[j]
    /\ UNCHANGED <<exists, panicked, events>> /\ expired' = {}

(* A caller disturbs no other one: the calls of others are about other IPs. *)
LEMMA OtherCalls ==
    ASSUME Undisturbed, Sound, NEW c \in Callers, NEW ip \in Manages[c], Elsewhere(ip),
           NEW e \in Callers, e # c, call'[e] = call[e]
    PROVE  CallSound(e)'
<1>1. CallFits(e, call[e]) /\ call[e] \in Calls
  BY DEF Sound, TypeOK, CallSound
<1>2. CASE call[e].at = "idle"
  BY <1>1, <1>2 DEF CallSound, CallFits
<1>3. CASE call[e].at # "idle"
  <2> DEFINE j == call[e].ip
  <2>1. j \in Manages[e]
    BY <1>1, <1>3 DEF CallFits
  <2>2. j \in IPs /\ j # ip
    BY <2>1, OwnIPs
  <2>3. /\ attached'[j] = attached[j] /\ flight'[j] = flight[j] /\ latest'[j] = latest[j]
        /\ floatingIPActions'[j] = floatingIPActions[j] /\ known'[j] = known[j]
    BY <2>2 DEF Elsewhere
  <2> QED
    BY <1>1, <2>1, <2>3 DEF CallSound, CallFits, InFlight
<1> QED
  BY <1>2, <1>3

(* A step of one caller: what has to be shown of its IP and its call.       *)
LEMMA CallerStep ==
    ASSUME Undisturbed, Sound, NEW c \in Callers, NEW ip \in Manages[c], NEW r \in Calls,
           call[c].at = "idle" \/ call[c].ip = ip,
           Go(c, r), Elsewhere(ip), Exclusive', IPSound(ip)', CallSound(c)'
    PROVE  IInv'
<1>1. call' \in [Callers -> Calls] /\ \A e \in Callers \ {c} : call'[e] = call[e]
  BY DEF Sound, TypeOK, Go
<1>2. TypeOK'
  BY <1>1 DEF Sound, TypeOK, Elsewhere
<1>3. \A e \in Callers : CallSound(e)'
  BY <1>1, OtherCalls
<1>4. ASSUME NEW j \in IPs PROVE IPSound(j)'
  <2>1. CASE j = ip
    BY <2>1
  <2>2. CASE j # ip
    <3>1. /\ attached'[j] = attached[j] /\ flight'[j] = flight[j] /\ latest'[j] = latest[j]
          /\ floatingIPActions'[j] = floatingIPActions[j] /\ known'[j] = known[j]
      BY <2>2 DEF Elsewhere
    <3>2. \A e \in Callers : call[e].at = "record" /\ call[e].ip = j => call'[e] = call[e]
      BY <1>1, <2>2
    <3>3. IPSound(j)
      BY DEF Sound
    <3> QED
      BY <3>1, <3>2, <3>3 DEF IPSound, InFlight
  <2> QED
    BY <2>1, <2>2
<1> QED
  BY <1>2, <1>3, <1>4 DEF IInv, Sound, Elsewhere

(* A step that only moves a call.                                           *)
LEMMA CallMoves ==
    ASSUME Undisturbed, Sound, NEW c \in Callers, NEW ip \in Manages[c], NEW r \in Calls,
           call[c].at = "idle" \/ call[c].ip = ip, call[c].at # "record",
           Go(c, r), UNCHANGED <<stateVars, events>>, CallFits(c, r)
    PROVE  IInv'
<1>1. call'[c] = r /\ \A e \in Callers \ {c} : call'[e] = call[e]
  BY DEF Sound, TypeOK, Go
<1>2. Elsewhere(ip)
  BY DEF Sound, TypeOK, Elsewhere, stateVars
<1>3. Exclusive'
  BY DEF Sound, Exclusive, Takes, stateVars
<1>4. CallSound(c)'
  BY <1>1 DEF CallSound, CallFits, InFlight, stateVars
<1>5. IPSound(ip)'
  <2>1. IPSound(ip)
    BY ManagedIP DEF Sound
  <2>2. \A e \in Callers : call[e].at = "record" => call'[e] = call[e]
    BY <1>1
  <2> QED
    BY <2>1, <2>2 DEF IPSound, InFlight, stateVars
<1> QED
  BY <1>2, <1>3, <1>4, <1>5, CallerStep

(* A call that is under way.                                                *)
LEMMA Busy ==
    ASSUME Sound, NEW c \in Callers, call[c].at # "idle"
    PROVE  /\ call[c] \in Calls /\ CallFits(c, call[c])
           /\ call[c].ip \in Manages[c] /\ call[c].ip \in IPs
           /\ (call[c].for = "loop" => call[c].ips[call[c].i] = call[c].ip)
           /\ Subject(call[c]) = call[c].ip
<1>1. call[c] \in Calls /\ CallFits(c, call[c])
  BY DEF Sound, TypeOK, CallSound
<1>2. call[c].ip \in Manages[c] /\ call[c].ip \in IPs
  BY <1>1, ManagedIP DEF CallFits
<1>3. ASSUME call[c].for = "loop" PROVE call[c].ips[call[c].i] = call[c].ip
  BY <1>1, <1>3 DEF CallFits
<1> QED
  BY <1>1, <1>2, <1>3 DEF Subject

(* A call returns without having changed anything.                          *)
LEMMA CallReturns ==
    ASSUME Undisturbed, Sound, NEW c \in Callers, call[c].at \notin {"idle", "record"},
           NEW res \in {"none", "ok", "inProgress", "notFound", "inUse", "fast", "error"},
           Return(c, res), UNCHANGED <<stateVars, events>>
    PROVE  IInv'
  BY Busy, IdleFits, CallMoves DEF Return

(* Failed and AssignError are returns with some error.                      *)
LEMMA CallFails ==
    ASSUME Undisturbed, Sound, NEW c \in Callers, call[c].at \notin {"idle", "record"},
           NEW err \in {"inProgress", "error"},
           Failed(c, err) \/ Return(c, AssignError(call[c])), UNCHANGED <<stateVars, events>>
    PROVE  IInv'
  BY CallReturns DEF Failed, AssignError

(* The initial states.                                                      *)
LEMMA InitIInv == Init => IInv
<1> SUFFICES ASSUME Init, Undisturbed PROVE Sound
  BY DEF IInv
<1>1. TypeOK
  BY IdleFits, ConstantsAssumption DEF Init, TypeOK
<1>2. Exclusive
  BY DEF Init, Exclusive, Takes
<1>3. \A ip \in IPs : IPSound(ip)
  BY DEF Init, IPSound, InFlight
<1>4. \A c \in Callers : CallSound(c)
  BY IdleFits DEF Init, CallSound
<1> QED
  BY <1>1, <1>2, <1>3, <1>4 DEF Init, Sound
-----------------------------------------------------------------------------
(* The callers.                                                             *)
LEMMA AskStep ==
    ASSUME Undisturbed, Sound, NEW c \in Callers, NEW ip \in Manages[c], IPToProviderID(c, ip)
    PROVE  IInv'
<1> DEFINE z == Idle("none")
           r == [z EXCEPT !.op = "lookup", !.ip = ip, !.at = "status", !.for = "lookup"]
<1>1. r \in Calls /\ r.ip = ip /\ r.at = "status" /\ r.for = "lookup"
  <2>1. z \in Calls /\ ip \in IPs
    BY ManagedIP, IdleFits
  <2> HIDE DEF z
  <2> DEFINE y == [z EXCEPT !.op = "lookup", !.ip = ip]
  <2>2. y \in Calls
    BY <2>1 DEF Calls
  <2>3. r = [y EXCEPT !.at = "status", !.for = "lookup"]
    BY <2>1 DEF Calls
  <2> HIDE DEF y, r
  <2>4. r \in Calls
    BY <2>2, <2>3 DEF Calls
  <2>5. r.ip = ip /\ r.at = "status" /\ r.for = "lookup"
    BY <2>1 DEF r, Calls
  <2> QED
    BY <2>4, <2>5
<1>2. Go(c, r) /\ call[c].at = "idle" /\ UNCHANGED <<stateVars, events>>
  BY DEF IPToProviderID, At, apiVars, mapVars, stateVars
<1> HIDE DEF r
<1>3. CallFits(c, r)
  BY <1>1 DEF CallFits
<1> QED
  BY <1>1, <1>2, <1>3, CallMoves

(* AssignIP makes what was known of the IP void.                            *)
LEMMA AssignIPStep ==
    ASSUME Undisturbed, Sound, NEW c \in Callers, NEW ip \in Manages[c], NEW d \in Droplets,
           AssignIP(c, ip, d)
    PROVE  IInv'
<1> DEFINE z == Idle("none")
           r == [z EXCEPT !.op = "assign", !.ip = ip, !.target = d,
                                     !.at = "status", !.for = "assign"]
<1>1. r \in Calls /\ r.ip = ip /\ r.at = "status" /\ r.for = "assign"
  <2>1. z \in Calls /\ ip \in IPs
    BY ManagedIP, IdleFits
  <2> HIDE DEF z
  <2>2. r \in Calls
    BY <2>1 DEF Calls
  <2>3. r.ip = ip /\ r.at = "status" /\ r.for = "assign"
    BY <2>1 DEF Calls
  <2> QED
    BY <2>2, <2>3
<1>2. Go(c, r) /\ call[c].at = "idle"
  BY DEF AssignIP, At
<1> HIDE DEF r
<1>3. known' \in [IPs -> Droplets \cup {NoDroplet, Unknown}] /\ known'[ip] = Unknown
      /\ \A j \in IPs \ {ip} : known'[j] = known[j]
  BY ManagedIP DEF AssignIP, Sound, TypeOK
<1>4. UNCHANGED <<exists, attached, flight, latest, floatingIPActions, expired, panicked, events>>
  BY DEF AssignIP, apiVars, mapVars
<1>5. Elsewhere(ip) /\ Exclusive'
  BY <1>3, <1>4 DEF Sound, TypeOK, Elsewhere, Exclusive, Takes
<1>6. call'[c] = r /\ \A e \in Callers \ {c} : call'[e] = call[e]
  BY <1>2 DEF Sound, TypeOK, Go
<1>7. CallSound(c)'
  BY <1>1, <1>3, <1>6 DEF CallSound, CallFits
<1>8. IPSound(ip)'
  <2>1. IPSound(ip)
    BY ManagedIP DEF Sound
  <2>2. \A e \in Callers : call[e].at = "record" => call'[e] = call[e]
    BY <1>2, <1>6
  <2> QED
    BY <1>3, <1>4, <2>1, <2>2 DEF IPSound, InFlight
<1> QED
  BY <1>1, <1>2, <1>5, <1>7, <1>8, CallerStep
-----------------------------------------------------------------------------
(* An assignment in progress is the recorded one, unless its own caller is  *)
(* about to record it.                                                      *)
LEMMA RecordedOrNone ==
    ASSUME Undisturbed, Sound, NEW c \in Callers, call[c].at \notin {"idle", "record"},
           InFlight(call[c].ip)
    PROVE  floatingIPActions[call[c].ip] = latest[call[c].ip] /\ latest[call[c].ip] # 0
<1> DEFINE ip == call[c].ip
<1>1. ip \in Manages[c] /\ ip \in IPs /\ IPSound(ip)
  BY Busy DEF Sound
<1>2. ASSUME NEW e \in Callers, call[e].at = "record", call[e].ip = ip PROVE FALSE
  <2>1. e # c /\ ip \in Manages[e]
    BY <1>2, Busy
  <2> QED
    BY <1>1, <2>1, OwnIPs
<1> QED
  BY <1>1, <1>2 DEF IPSound

(* asyncStatus reads the map, ...                                           *)
LEMMA StatusReadStep ==
    ASSUME Undisturbed, Sound, NEW c \in Callers, StatusRead(c)
    PROVE  IInv'
<1> DEFINE q == call[c]
           a == floatingIPActions[q.ip]
<1>1. q \in Calls /\ CallFits(c, q) /\ q.ip \in Manages[c] /\ q.ip \in IPs /\ Subject(q) = q.ip
      /\ q.at = "status"
  BY Busy DEF StatusRead, At
<1>2. Cleaned = floatingIPActions
  BY DEF Cleaned, Sound, TypeOK
<1>3. Entry(Subject(q)) = a /\ a \in Nat
  BY <1>1, <1>2 DEF Entry, Sound, TypeOK
<1>4. UNCHANGED <<stateVars, events>>
  BY <1>2 DEF StatusRead, Sound, apiVars, stateVars
<1>5. CASE a = 0
  <2>1. ~InFlight(q.ip)
    BY <1>1, <1>5, RecordedOrNone
  <2>2. Go(c, Onward(q))
    BY <1>3, <1>5 DEF StatusRead
  <2>3. /\ Onward(q) \in Calls /\ Onward(q).ip = q.ip /\ Onward(q).for = q.for
        /\ Onward(q).ips = q.ips /\ Onward(q).i = q.i /\ Onward(q).cur = q.cur
        /\ Onward(q).at = IF q.for = "assign" THEN "assign" ELSE "flip"
    BY <1>1 DEF Onward, Calls
  <2>4. CallFits(c, Onward(q))
    BY <1>1, <2>1, <2>3 DEF CallFits
  <2> QED
    BY <1>1, <1>4, <2>2, <2>3, <2>4, CallMoves
<1>6. CASE a # 0
  <2> DEFINE r == [q EXCEPT !.at = "poll", !.act = a]
  <2>1. Go(c, r)
    BY <1>3, <1>6 DEF StatusRead
  <2>2. /\ r \in Calls /\ r.at = "poll" /\ r.act = a /\ r.ip = q.ip /\ r.for = q.for
        /\ r.ips = q.ips /\ r.i = q.i /\ r.cur = q.cur
    BY <1>1, <1>3 DEF Calls
  <2> HIDE DEF r
  <2>3. CallFits(c, r)
    BY <1>1, <2>2 DEF CallFits
  <2> QED
    BY <1>1, <1>4, <2>1, <2>2, <2>3, CallMoves
<1> QED
  BY <1>5, <1>6

(* ... asks for the action, ...                                             *)
LEMMA StatusGetStep ==
    ASSUME Undisturbed, Sound, NEW c \in Callers, StatusGet(c)
    PROVE  IInv'
<1> DEFINE q == call[c]
           r == [q EXCEPT !.at = "drop"]
<1>1. q \in Calls /\ CallFits(c, q) /\ q.ip \in Manages[c] /\ Subject(q) = q.ip /\ q.at = "poll"
  BY Busy DEF StatusGet, At
<1>2. UNCHANGED <<stateVars, events>>
  BY DEF StatusGet, apiVars, mapVars, stateVars
<1>3. CASE Failed(c, "inProgress")
  BY <1>1, <1>2, <1>3, CallFails
<1>4. CASE ~ActionInProgress(Subject(q), q.act) /\ Go(c, r)
  <2>1. ~InFlight(q.ip)
    BY <1>1, <1>4, RecordedOrNone DEF ActionInProgress, CallFits
  <2>2. /\ r \in Calls /\ r.at = "drop" /\ r.ip = q.ip /\ r.for = q.for
        /\ r.ips = q.ips /\ r.i = q.i /\ r.cur = q.cur
    BY <1>1 DEF Calls
  <2> HIDE DEF r
  <2>3. CallFits(c, r)
    BY <1>1, <2>1, <2>2 DEF CallFits
  <2> QED
    BY <1>1, <1>2, <1>4, <2>2, <2>3, CallMoves
<1> QED
  BY <1>3, <1>4 DEF StatusGet

(* ... and drops the entry of one that has ended.                           *)
LEMMA StatusDropStep ==
    ASSUME Undisturbed, Sound, NEW c \in Callers, StatusDrop(c)
    PROVE  IInv'
<1>0. PICK ip \in Manages[c] : ip = call[c].ip
  BY Busy DEF StatusDrop, At
<1> DEFINE q == call[c]
           r == Onward(q)
<1>1. q \in Calls /\ CallFits(c, q) /\ q.ip = ip /\ ip \in IPs /\ Subject(q) = ip /\ q.at = "drop"
  BY <1>0, Busy DEF StatusDrop, At
<1>2. ~InFlight(ip)
  BY <1>1 DEF CallFits
<1>3. floatingIPActions' = [floatingIPActions EXCEPT ![ip] = 0] /\ expired' = expired \ {ip} /\ Go(c, r)
  BY <1>1 DEF StatusDrop
<1>4. UNCHANGED <<exists, attached, flight, latest, known, panicked, events>>
  BY DEF StatusDrop, apiVars
<1>5. Elsewhere(ip) /\ Exclusive'
  BY <1>3, <1>4 DEF Sound, TypeOK, Elsewhere, Exclusive, Takes
<1>6. /\ r \in Calls /\ r.ip = ip /\ r.for = q.for
      /\ r.ips = q.ips /\ r.i = q.i /\ r.cur = q.cur
      /\ r.at = IF q.for = "assign" THEN "assign" ELSE "flip"
  BY <1>1 DEF Onward, Calls
<1> HIDE DEF r
<1>7. call'[c] = r
  BY <1>3 DEF Sound, TypeOK, Go
<1>8. CallFits(c, r)
  BY <1>1, <1>2, <1>6 DEF CallFits
<1>9. CallSound(c)'
  BY <1>4, <1>6, <1>7, <1>8 DEF CallSound, CallFits, InFlight
<1>10. IPSound(ip)'
  <2>1. IPSound(ip)
    BY <1>1 DEF Sound
  <2> QED
    BY <1>2, <1>4, <2>1 DEF IPSound, InFlight
<1> QED
  BY <1>1, <1>3, <1>5, <1>6, <1>9, <1>10, CallerStep

(* The calls to the API that fail.                                          *)
LEMMA FailSteps ==
    ASSUME Undisturbed, Sound, NEW c \in Callers,
           StatusGetFails(c) \/ FlipFails(c) \/ GetDropletFails(c) \/ AssignFails(c)
    PROVE  IInv'
<1>1. UNCHANGED <<stateVars, events>> /\ call[c].at \in {"poll", "flip", "droplet", "assign"}
  BY DEF StatusGetFails, FlipFails, GetDropletFails, AssignFails, At, apiVars, mapVars, stateVars
<1>2. \/ Failed(c, "error") \/ Return(c, AssignError(call[c]))
      \/ Return(c, "error") \/ Return(c, "notFound")
  BY DEF StatusGetFails, FlipFails, GetDropletFails, AssignFails
<1> QED
  BY <1>1, <1>2, CallFails, CallReturns

(* An answer to the caller makes the droplet of its IP known.               *)
LEMMA AnswerStep ==
    ASSUME Undisturbed, Sound, NEW c \in Callers, NEW ip \in Manages[c], ip = call[c].ip,
           call[c].at \in {"flip", "assign"}, Return(c, "ok"),
           known' = [known EXCEPT ![ip] = attached'[ip]], ~InFlight(ip),
           attached' \in [IPs -> Droplets \cup {NoDroplet}], latest' \in [IPs -> Nat],
           \A j \in IPs \ {ip} : attached'[j] = attached[j] /\ latest'[j] = latest[j],
           Exclusive', UNCHANGED <<exists, flight, floatingIPActions, expired, panicked, events>>
    PROVE  IInv'
<1>1. ip \in IPs /\ Idle("ok") \in Calls /\ Go(c, Idle("ok"))
  BY ManagedIP, IdleFits DEF Return
<1>2. known' \in [IPs -> Droplets \cup {NoDroplet, Unknown}] /\ known'[ip] = attached'[ip]
      /\ \A j \in IPs \ {ip} : known'[j] = known[j]
  BY <1>1 DEF Sound, TypeOK
<1>3. Elsewhere(ip)
  BY <1>2 DEF Sound, TypeOK, Elsewhere
<1>4. IPSound(ip)'
  BY <1>2 DEF IPSound, InFlight
<1>5. call'[c] = Idle("ok")
  BY <1>1 DEF Sound, TypeOK, Go
<1>6. CallSound(c)'
  BY <1>5 DEF CallSound, CallFits, Idle
<1> QED
  BY <1>1, <1>3, <1>4, <1>6, CallerStep

(* IPToProviderID answers.                                                  *)
LEMMA LookupStep ==
    ASSUME Undisturbed, Sound, NEW c \in Callers, Lookup(c)
    PROVE  IInv'
<1>0. PICK ip \in Manages[c] : ip = call[c].ip
  BY Busy DEF Lookup, At
<1>1. ip \in IPs /\ ip \in exists /\ call[c].at = "flip" /\ CallFits(c, call[c])
  BY <1>0, Busy DEF Lookup, At, Sound
<1>2. ~InFlight(ip)
  BY <1>0, <1>1 DEF CallFits
<1>3. Return(c, "ok") /\ known' = [known EXCEPT ![ip] = attached[ip]]
  BY <1>0, <1>1 DEF Lookup
<1>4. UNCHANGED <<exists, attached, flight, latest, floatingIPActions, expired, panicked, events>>
  BY DEF Lookup, apiVars, mapVars
<1>5. Exclusive' /\ attached \in [IPs -> Droplets \cup {NoDroplet}] /\ latest \in [IPs -> Nat]
  BY <1>4 DEF Sound, TypeOK, Exclusive, Takes
<1> QED
  BY <1>0, <1>1, <1>2, <1>3, <1>4, <1>5, AnswerStep

(* AssignIP looks where the IP is that it could not assign.                 *)
LEMMA RecheckStep ==
    ASSUME Undisturbed, Sound, NEW c \in Callers, Recheck(c)
    PROVE  IInv'
<1>0. PICK ip \in Manages[c] : ip = call[c].ip
  BY Busy DEF Recheck, At
<1> DEFINE q == call[c]
           r == [q EXCEPT !.at = "droplet", !.cur = attached[ip]]
<1>1. /\ ip \in IPs /\ ip \in exists /\ q.at = "flip" /\ q.for = "recheck"
      /\ q \in Calls /\ CallFits(c, q) /\ q.ip = ip
  BY <1>0, Busy DEF Recheck, At, Sound
<1>2. ~InFlight(ip)
  BY <1>1 DEF CallFits
<1>3. UNCHANGED <<exists, attached, flight, latest, floatingIPActions, expired, panicked, events>>
  BY DEF Recheck, apiVars, mapVars
<1>4. CASE Return(c, "ok") /\ known' = [known EXCEPT ![ip] = attached[ip]]
  <2>1. Exclusive' /\ attached \in [IPs -> Droplets \cup {NoDroplet}] /\ latest \in [IPs -> Nat]
    BY <1>3 DEF Sound, TypeOK, Exclusive, Takes
  <2> QED
    BY <1>0, <1>1, <1>2, <1>3, <1>4, <2>1, AnswerStep
<1>5. CASE Go(c, r) /\ attached[ip] # NoDroplet /\ UNCHANGED known
  <2>0. attached[ip] \in Droplets \cup {NoDroplet}
    BY <1>1 DEF Sound, TypeOK
  <2>1. /\ r \in Calls /\ r.at = "droplet" /\ r.ip = ip /\ r.for = "recheck" /\ r.cur = attached[ip]
    BY <1>1, <2>0 DEF Calls
  <2> HIDE DEF r
  <2>2. CallFits(c, r)
    BY <1>1, <1>2, <1>5, <2>1 DEF CallFits
  <2> QED
    BY <1>1, <1>3, <1>5, <2>1, <2>2, CallMoves DEF stateVars
<1>6. CASE Return(c, AssignError(q)) /\ UNCHANGED known
  BY <1>1, <1>3, <1>6, CallFails DEF stateVars
<1>7. \/ Return(c, "ok") /\ known' = [known EXCEPT ![ip] = attached[ip]]
      \/ Go(c, r) /\ attached[ip] # NoDroplet /\ UNCHANGED known
      \/ Return(c, AssignError(q)) /\ UNCHANGED known
  BY <1>0 DEF Recheck
<1> QED
  BY <1>4, <1>5, <1>6, <1>7
-----------------------------------------------------------------------------
(* The API refuses an assignment.                                           *)
LEMMA AssignRefusedStep ==
    ASSUME Undisturbed, Sound, NEW c \in Callers, AssignRefused(c)
    PROVE  IInv'
<1>1. PICK e \in {"pending", "taken"} :
        Go(c, [call[c] EXCEPT !.at = "status", !.for = "recheck", !.err = e])
  BY DEF AssignRefused
<1> DEFINE q == call[c]
           r == [q EXCEPT !.at = "status", !.for = "recheck", !.err = e]
<1>2. q \in Calls /\ CallFits(c, q) /\ q.ip \in Manages[c] /\ q.at = "assign"
  BY Busy DEF AssignRefused, At
<1>3. UNCHANGED <<stateVars, events>>
  BY DEF AssignRefused, apiVars, mapVars, stateVars
<1>4. r \in Calls /\ r.at = "status" /\ r.for = "recheck" /\ r.ip = q.ip
  BY <1>2 DEF Calls
<1> HIDE DEF r
<1>5. CallFits(c, r)
  BY <1>2, <1>4 DEF CallFits
<1> QED
  BY <1>1, <1>2, <1>3, <1>4, <1>5, CallMoves DEF r

(* An accepted assignment: its droplet has and is getting no other IP.      *)
LEMMA Accepted ==
    ASSUME Undisturbed, Sound, NEW c \in Callers, NEW ip \in Manages[c], ip = call[c].ip, Accepts(c)
    PROVE  /\ call[c] \in Calls /\ CallFits(c, call[c]) /\ call[c].at = "assign" /\ ip \in IPs
           /\ ~InFlight(ip) /\ known[ip] = Unknown
           /\ call[c].target \in Droplets
           /\ \A j \in IPs : call[c].target \notin Takes(j)
           /\ latest' \in [IPs -> Nat] /\ latest'[ip] = latest[ip] + 1
           /\ \A j \in IPs \ {ip} : latest'[j] = latest[j]
           /\ UNCHANGED <<exists, floatingIPActions, expired, panicked, events>>
<1>1. call[c] \in Calls /\ CallFits(c, call[c]) /\ call[c].at = "assign" /\ ip \in IPs
  BY Busy DEF Accepts, At
<1>2. ~InFlight(ip) /\ known[ip] = Unknown
  BY <1>1 DEF CallFits
<1>3. call[c].target \in Droplets
  BY <1>1, ConstantsAssumption DEF Accepts, Sound, Calls
<1>4. \A j \in IPs : call[c].target \notin Takes(j)
  <2>1. Holds(call[c].target) = {} /\ ~\E other \in IPs : flight[other] = call[c].target
    BY DEF Accepts, Refuses
  <2> QED
    BY <2>1 DEF Holds, Takes
<1>5. /\ latest' \in [IPs -> Nat] /\ latest'[ip] = latest[ip] + 1
      /\ \A j \in IPs \ {ip} : latest'[j] = latest[j]
  BY <1>1 DEF Accepts, Sound, TypeOK
<1>6. UNCHANGED <<exists, floatingIPActions, expired, panicked, events>>
  BY DEF Accepts, mapVars
<1> QED
  BY <1>1, <1>2, <1>3, <1>4, <1>5, <1>6

(* The assignment is complete at once.                                      *)
LEMMA AssignedAtOnceStep ==
    ASSUME Undisturbed, Sound, NEW c \in Callers, AssignedAtOnce(c)
    PROVE  IInv'
<1>0. PICK ip \in Manages[c] : ip = call[c].ip
  BY Busy DEF AssignedAtOnce, Accepts, At
<1> DEFINE d == call[c].target
<1>1. /\ call[c].at = "assign" /\ ip \in IPs /\ ~InFlight(ip) /\ d \in Droplets
      /\ \A j \in IPs : d \notin Takes(j)
      /\ latest' \in [IPs -> Nat] /\ \A j \in IPs \ {ip} : latest'[j] = latest[j]
      /\ UNCHANGED <<exists, flight, floatingIPActions, expired, panicked, events>>
  BY <1>0, Accepted DEF AssignedAtOnce
<1>2. /\ attached' \in [IPs -> Droplets \cup {NoDroplet}] /\ attached'[ip] = d
      /\ \A j \in IPs \ {ip} : attached'[j] = attached[j]
  BY <1>0, <1>1 DEF AssignedAtOnce, Sound, TypeOK
<1>3. known' = [known EXCEPT ![ip] = attached'[ip]] /\ Return(c, "ok")
  BY <1>0, <1>2 DEF AssignedAtOnce
<1>4. Exclusive'
  <2>1. \A j \in IPs \ {ip} : Takes(j)' = Takes(j)
    BY <1>1, <1>2 DEF Takes
  <2>2. Takes(ip)' \subseteq {d}
    BY <1>1, <1>2 DEF Takes, InFlight
  <2>3. Exclusive
    BY DEF Sound
  <2> QED
    BY <1>1, <2>1, <2>2, <2>3 DEF Exclusive
<1> QED
  BY <1>0, <1>1, <1>2, <1>3, <1>4, AnswerStep

(* The assignment has begun.                                                *)
LEMMA AssignStartedStep ==
    ASSUME Undisturbed, Sound, NEW c \in Callers, AssignStarted(c)
    PROVE  IInv'
<1>0. PICK ip \in Manages[c] : ip = call[c].ip
  BY Busy DEF AssignStarted, Accepts, At
<1> DEFINE q == call[c]
           d == q.target
           n == latest[ip] + 1
           r == [q EXCEPT !.at = "record", !.act = n]
<1>1. /\ q \in Calls /\ CallFits(c, q) /\ q.at = "assign" /\ ip \in IPs
      /\ ~InFlight(ip) /\ known[ip] = Unknown /\ d \in Droplets
      /\ \A j \in IPs : d \notin Takes(j)
      /\ latest' \in [IPs -> Nat] /\ latest'[ip] = n
      /\ \A j \in IPs \ {ip} : latest'[j] = latest[j]
      /\ UNCHANGED <<exists, attached, floatingIPActions, expired, known, panicked, events>>
  BY <1>0, Accepted DEF AssignStarted
<1>2. n \in Nat /\ n # 0
  BY <1>1 DEF Sound, TypeOK
<1>3. /\ flight' \in [IPs -> Droplets \cup {NoDroplet}] /\ flight'[ip] = d
      /\ \A j \in IPs \ {ip} : flight'[j] = flight[j]
  BY <1>0, <1>1 DEF AssignStarted, Sound, TypeOK
<1>4. Go(c, r)
  <2>1. ~Event("lost")
    BY DEF Undisturbed, Event
  <2> QED
    BY <1>0, <1>1, <2>1 DEF AssignStarted
<1>5. r \in Calls /\ r.at = "record" /\ r.for = "assign" /\ r.ip = ip /\ r.act = n
  BY <1>0, <1>1, <1>2 DEF Calls, CallFits
<1> HIDE DEF r
<1>6. call'[c] = r
  BY <1>4 DEF Sound, TypeOK, Go
<1>7. Elsewhere(ip)
  BY <1>1, <1>3 DEF Sound, TypeOK, Elsewhere
<1>8. Exclusive'
  <2>1. \A j \in IPs \ {ip} : Takes(j)' = Takes(j)
    BY <1>1, <1>3 DEF Takes
  <2>2. Takes(ip)' \subseteq Takes(ip) \cup {d}
    BY <1>1, <1>3 DEF Takes
  <2>3. Exclusive
    BY DEF Sound
  <2> QED
    BY <1>1, <2>1, <2>2, <2>3 DEF Exclusive
<1>9. IPSound(ip)'
  BY <1>1, <1>2, <1>5, <1>6 DEF IPSound, InFlight
<1>10. CallSound(c)'
  BY <1>1, <1>5, <1>6 DEF CallSound, CallFits
<1> QED
  BY <1>0, <1>4, <1>5, <1>7, <1>8, <1>9, <1>10, CallerStep

(* The assignment is recorded.                                              *)
LEMMA RecordStep ==
    ASSUME Undisturbed, Sound, NEW c \in Callers, Record(c)
    PROVE  IInv'
<1>0. PICK ip \in Manages[c] : ip = call[c].ip
  BY Busy DEF Record, At
<1>1. /\ call[c] \in Calls /\ CallFits(c, call[c]) /\ call[c].at = "record" /\ ip \in IPs
  BY <1>0, Busy DEF Record, At
<1>2. call[c].act = latest[ip] /\ latest[ip] \in Nat /\ known[ip] = Unknown
  BY <1>0, <1>1 DEF CallFits, Sound, TypeOK
<1>3. /\ floatingIPActions' = [floatingIPActions EXCEPT ![ip] = latest[ip]]
      /\ expired' = expired \ {ip} /\ Return(c, "inProgress")
  BY <1>0, <1>2 DEF Record
<1>4. UNCHANGED <<exists, attached, flight, latest, known, panicked, events>>
  BY DEF Record, apiVars
<1>5. Idle("inProgress") \in Calls /\ Go(c, Idle("inProgress"))
  BY <1>3, IdleFits DEF Return
<1>6. Elsewhere(ip) /\ Exclusive' /\ floatingIPActions'[ip] = latest[ip]
  BY <1>1, <1>2, <1>3, <1>4 DEF Sound, TypeOK, Elsewhere, Exclusive, Takes
<1>7. call'[c] = Idle("inProgress")
  BY <1>5 DEF Sound, TypeOK, Go
<1>8. CallSound(c)'
  BY <1>7 DEF CallSound, CallFits, Idle
<1>9. IPSound(ip)'
  <2>1. IPSound(ip)
    BY <1>1 DEF Sound
  <2> QED
    BY <1>2, <1>4, <1>6, <2>1 DEF IPSound, InFlight
<1> QED
  BY <1>0, <1>5, <1>6, <1>8, <1>9, CallerStep
-----------------------------------------------------------------------------
(* NodeToIP reads the addresses of the droplet that has the IP: the IP is   *)
(* the only one of that droplet and comes last.                             *)
LEMMA GetDropletStep ==
    ASSUME Undisturbed, Sound, NEW c \in Callers, GetDroplet(c)
    PROVE  IInv'
<1>0. PICK ip \in Manages[c] : ip = call[c].ip
  BY Busy DEF GetDroplet, At
<1> DEFINE q == call[c]
<1>1. /\ q \in Calls /\ CallFits(c, q) /\ q.at = "droplet" /\ q.ip = ip /\ ip \in IPs /\ ip # Own
      /\ attached[ip] = q.cur /\ q.cur # NoDroplet /\ ~InFlight(ip)
  BY <1>0, Busy, ManagedIP DEF GetDroplet, At, CallFits
<1>2. UNCHANGED <<stateVars, events>>
  BY DEF GetDroplet, apiVars, mapVars, stateVars
<1>3. CASE Return(c, AssignError(q))
  BY <1>1, <1>2, <1>3, CallFails
<1>4. ASSUME NEW ips \in Listed(q.cur),
             Go(c, [q EXCEPT !.ips = ips, !.i = Len(ips), !.at = "status", !.for = "loop"])
      PROVE  IInv'
  <2>1. Holds(q.cur) = {ip}
    <3>1. \A j \in IPs \ {ip} : attached[j] # q.cur
      BY <1>1 DEF Sound, Exclusive, Takes
    <3> QED
      BY <1>1, <3>1 DEF Holds
  <2>2. ips = <<Own, ip>>
    BY <1>4, <2>1 DEF Listed, Undisturbed
  <2> DEFINE x == [q EXCEPT !.ips = ips]
             y == [x EXCEPT !.i = Len(ips)]
             r == [q EXCEPT !.ips = ips, !.i = Len(ips), !.at = "status", !.for = "loop"]
  <2>3. Len(ips) = 2 /\ ips \in Seq(IPs \cup {Own})
    BY <1>1, <2>2
  <2>4. y \in Calls
    <3>1. x \in Calls
      BY <1>1, <2>3 DEF Calls
    <3> HIDE DEF x
    <3> QED
      BY <2>3, <3>1 DEF Calls
  <2>5. r = [y EXCEPT !.at = "status", !.for = "loop"]
    BY <1>1 DEF Calls
  <2>6. /\ r.at = "status" /\ r.for = "loop" /\ r.ip = ip /\ r.cur = q.cur
        /\ r.ips = <<Own, ip>> /\ r.i = 2
    BY <1>1, <2>2, <2>3 DEF Calls
  <2>7. Go(c, r)
    BY <1>4
  <2> HIDE DEF y, r
  <2>8. r \in Calls
    BY <2>4, <2>5 DEF Calls
  <2>9. CallFits(c, r)
    BY <1>1, <2>6 DEF CallFits
  <2> QED
    BY <1>1, <1>2, <2>6, <2>7, <2>8, <2>9, CallMoves
<1> QED
  BY <1>3, <1>4 DEF GetDroplet

(* The loop of NodeToIP ends with the first address it looks at.            *)
LEMMA LoopSteps ==
    ASSUME Undisturbed, Sound, NEW c \in Callers, LoopFound(c) \/ LoopOn(c)
    PROVE  IInv'
<1>1. /\ CallFits(c, call[c]) /\ call[c].at = "flip" /\ call[c].for = "loop"
      /\ call[c].ip \in IPs /\ Subject(call[c]) = call[c].ip
  BY Busy DEF LoopFound, LoopOn, At
<1>2. IsFound(call[c])
  BY <1>1 DEF IsFound, CallFits, Sound
<1>3. LoopFound(c)
  BY <1>2 DEF LoopOn
<1>4. Return(c, "inUse") /\ UNCHANGED <<stateVars, events>>
  BY <1>3 DEF LoopFound, apiVars, mapVars, stateVars
<1> QED
  BY <1>1, <1>4, CallReturns

(* DigitalOcean ends an assignment: nobody has been told about the IP.      *)
LEMMA EndsStep ==
    ASSUME Undisturbed, Sound, NEW ip \in IPs, Ends(ip)
    PROVE  IInv'
<1>1. InFlight(ip) /\ UNCHANGED <<exists, latest, floatingIPActions, expired, call, known, panicked, events>>
  BY DEF Ends, mapVars
<1>2. /\ flight' \in [IPs -> Droplets \cup {NoDroplet}] /\ flight'[ip] = NoDroplet
      /\ \A j \in IPs \ {ip} : flight'[j] = flight[j]
  BY DEF Ends, Sound, TypeOK
<1>3. /\ attached' \in [IPs -> Droplets \cup {NoDroplet}]
      /\ attached'[ip] \in {attached[ip], flight[ip]}
      /\ \A j \in IPs \ {ip} : attached'[j] = attached[j]
  BY DEF Ends, Sound, TypeOK
<1>4. TypeOK'
  BY <1>1, <1>2, <1>3 DEF Sound, TypeOK
<1>5. Exclusive'
  <2>1. \A j \in IPs : Takes(j)' \subseteq Takes(j)
    BY <1>2, <1>3 DEF Takes
  <2>2. Exclusive
    BY DEF Sound
  <2> QED
    BY <2>1, <2>2 DEF Exclusive
<1>6. ASSUME NEW j \in IPs PROVE IPSound(j)'
  <2>1. IPSound(j)
    BY DEF Sound
  <2>2. CASE j = ip
    BY <1>1, <1>2, <2>1, <2>2 DEF IPSound, InFlight
  <2>3. CASE j # ip
    BY <1>1, <1>2, <1>3, <2>1, <2>3 DEF IPSound, InFlight
  <2> QED
    BY <2>2, <2>3
<1>7. ASSUME NEW c \in Callers PROVE CallSound(c)'
  <2>1. CASE call[c].at = "idle"
    BY <1>1, <2>1 DEF Sound, CallSound, CallFits
  <2>2. CASE call[c].at # "idle" /\ call[c].ip = ip
    <3>1. CallFits(c, call[c])
      BY DEF Sound, CallSound
    <3> QED
      BY <1>1, <2>2, <3>1 DEF CallSound, CallFits, InFlight
  <2>3. CASE call[c].at # "idle" /\ call[c].ip # ip
    <3>1. CallFits(c, call[c]) /\ call[c].ip \in IPs \ {ip}
      BY <2>3, Busy
    <3>2. attached'[call[c].ip] = attached[call[c].ip] /\ flight'[call[c].ip] = flight[call[c].ip]
      BY <1>2, <1>3, <3>1
    <3> QED
      BY <1>1, <3>1, <3>2 DEF CallSound, CallFits, InFlight
  <2> QED
    BY <2>1, <2>2, <2>3
<1> QED
  BY <1>1, <1>4, <1>5, <1>6, <1>7 DEF IInv, Sound
-----------------------------------------------------------------------------
(* Every step keeps the invariant.                                          *)
LEMMA NextIInv == IInv /\ [Next]_vars => IInv'
<1> SUFFICES ASSUME IInv, [Next]_vars, Undisturbed' PROVE IInv'
  BY DEF IInv
<1>1. UNCHANGED events
  BY DEF Next, vars, Ask, Answer, IPToProviderID, AssignIP, StatusRead, StatusGet, StatusDrop,
         Lookup, Recheck, AssignRefused, AssignedAtOnce, AssignStarted, Accepts, AssignFails,
         Record, GetDroplet, LoopFound, LoopOn, StatusGetFails, FlipFails, GetDropletFails,
         Ends, Gone, Expire, Restart
<1>2. Undisturbed /\ Sound
  BY <1>1 DEF Undisturbed, IInv
<1>3. ASSUME NEW c \in Callers, Ask(c) PROVE IInv'
  BY <1>2, <1>3, AskStep DEF Ask
<1>4. ASSUME NEW c \in Callers, Answer(c) PROVE IInv'
  <2>1. CASE StatusRead(c) \/ StatusGet(c) \/ StatusDrop(c)
    BY <1>2, <2>1, StatusReadStep, StatusGetStep, StatusDropStep
  <2>2. CASE Lookup(c) \/ Recheck(c)
    BY <1>2, <2>2, LookupStep, RecheckStep
  <2>3. CASE AssignRefused(c) \/ AssignedAtOnce(c) \/ AssignStarted(c) \/ Record(c)
    BY <1>2, <2>3, AssignRefusedStep, AssignedAtOnceStep, AssignStartedStep, RecordStep
  <2>4. CASE AssignFails(c)
    BY <1>2, <2>4, FailSteps
  <2>5. CASE GetDroplet(c) \/ LoopFound(c) \/ LoopOn(c)
    BY <1>2, <2>5, GetDropletStep, LoopSteps
  <2> QED
    BY <1>4, <2>1, <2>2, <2>3, <2>4, <2>5 DEF Answer
<1>5. ASSUME NEW c \in Callers, NEW ip \in Manages[c], NEW d \in Droplets, AssignIP(c, ip, d)
      PROVE  IInv'
  BY <1>2, <1>5, AssignIPStep
<1>6. ASSUME NEW c \in Callers, StatusGetFails(c) \/ FlipFails(c) \/ GetDropletFails(c)
      PROVE  IInv'
  BY <1>2, <1>6, FailSteps
<1>7. ASSUME NEW ip \in IPs, Ends(ip) PROVE IInv'
  BY <1>2, <1>7, EndsStep
<1>8. ~Expire /\ ~Restart /\ \A x \in IPs \cup Droplets : ~Gone(x)
  BY <1>2 DEF Undisturbed, Sound, Event, Expire, Restart, Gone
<1>9. CASE UNCHANGED vars
  <2>1. Exclusive'
    BY <1>2, <1>9 DEF Sound, Exclusive, Takes, vars, apiVars
  <2>2. \A ip \in IPs : IPSound(ip)'
    BY <1>2, <1>9 DEF Sound, IPSound, InFlight, vars, apiVars, mapVars
  <2>3. \A c \in Callers : CallSound(c)'
    BY <1>2, <1>9 DEF Sound, CallSound, CallFits, InFlight, vars, apiVars, mapVars
  <2> QED
    BY <1>2, <1>9, <2>1, <2>2, <2>3 DEF IInv, Sound, TypeOK, vars, apiVars, mapVars
<1> QED
  BY <1>3, <1>4, <1>5, <1>6, <1>7, <1>8, <1>9 DEF Next

(* The invariant implies the properties.                                    *)
LEMMA IInvImplies == IInv => Tracked /\ AnswersHold
<1> SUFFICES ASSUME IInv, Undisturbed
             PROVE  Tracked /\ AnswersHold
  BY DEF Tracked, AnswersHold
<1>1. Sound
  BY DEF IInv
<1>2. Tracked
  BY <1>1 DEF Sound, IPSound, Tracked
<1>3. AnswersHold
  BY <1>1 DEF Sound, IPSound, AnswersHold
<1> QED
  BY <1>2, <1>3

(* floatingIPActions of the provider knows every assignment that runs at    *)
(* DigitalOcean, or its caller is about to record it: asyncStatus never     *)
(* drops the entry of one that has not ended, although it releases do.lock  *)
(* between its two halves, whatever the calls of other pools do meanwhile.  *)
THEOREM AssignmentsTracked == Spec => []Tracked
<1>1. IInv => Tracked
  BY IInvImplies
<1> QED
  BY <1>1, InitIInv, NextIInv, PTL DEF Spec

(* What IPToProviderID or AssignIP has answered about an IP is where that   *)
(* IP is until its pool assigns it: no asynchronous assignment finishes     *)
(* after the provider has said where the IP is.                             *)
THEOREM AnswersStayTrue == Spec => []AnswersHold
<1>1. IInv => AnswersHold
  BY IInvImplies
<1> QED
  BY <1>1, InitIInv, NextIInv, PTL DEF Spec
=============================================================================
