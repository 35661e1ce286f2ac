------------------------- MODULE DNSRecordSetProofs -------------------------
(***************************************************************************)
(* Proofs about EnsureDNSARecordSet of both providers, for any addresses,  *)
(* TTLs and records, any page size, and any number of failed, lost and     *)
(* interrupted calls.                                                      *)
(***************************************************************************)
EXTENDS DNSRecordSet, FiniteSetTheorems, TLAPS

(* The zone is finite.                                                      *)
LEMMA CardinalityLive == IsFiniteSet(Live) /\ Cardinality(Live) \in Nat
<1>1. IsFiniteSet(Live)
  BY FS_Subset, ConstantsAssumption DEF Live
<1> QED
  BY <1>1, FS_CardinalityType

(* The kinds of record, told apart by what they hold.                       *)
LEMMA RecordFacts ==
    ASSUME NEW r \in Record
    PROVE  /\ r.kind \in {"none", "foreign", "mine"}
           /\ r.kind = "mine" <=> r.data \in IPs
           /\ r.kind = "mine" => r.ttl \in TTLs
           /\ r.proxied \in BOOLEAN
<1>1. CASE r \in {NoRecord, Foreign}
  <2>1. r.kind \in {"none", "foreign"} /\ r.data = NoIP /\ r.proxied = FALSE
    BY <1>1 DEF NoRecord, Foreign
  <2> QED
    BY <2>1, ConstantsAssumption
<1>2. ASSUME NEW ip \in IPs, NEW t \in TTLs, NEW p \in BOOLEAN, r = Mine(ip, t, p)
      PROVE  r.kind = "mine" /\ r.data \in IPs /\ r.ttl \in TTLs /\ r.proxied \in BOOLEAN
  BY <1>2 DEF Mine
<1> QED
  BY <1>1, <1>2 DEF Record

(* A record written by the provider.                                        *)
LEMMA MineFacts ==
    ASSUME NEW ip \in IPs, NEW t \in TTLs, NEW p \in BOOLEAN
    PROVE  /\ Mine(ip, t, p) \in Record
           /\ Mine(ip, t, p).kind = "mine" /\ Mine(ip, t, p).data = ip /\ Mine(ip, t, p).ttl = t
  BY DEF Record, Mine

\* The zone with one record changed.
Wrote(id, r) == [zone EXCEPT ![id] = r]

(* What the edit of a record may leave.                                     *)
LEMMA EditedFacts ==
    ASSUME TypeOK, NEW id \in RecordIDs, NEW ip \in IPs, NEW after \in Edited(id, ip)
    PROVE  \E r \in Record : after = Wrote(id, r) /\ r.kind = "mine" /\ r.data = ip /\ r.ttl = args.ttl
<1>1. PICK p \in {FALSE, zone[id].proxied} : after = [zone EXCEPT ![id] = Mine(ip, args.ttl, p)]
  BY DEF Edited
<1>2. p \in BOOLEAN /\ args.ttl \in TTLs
  BY <1>1, RecordFacts DEF TypeOK, Args
<1> QED
  <2>1. Mine(ip, args.ttl, p) \in Record
    BY <1>2, MineFacts
  <2> WITNESS Mine(ip, args.ttl, p) \in Record
  <2> QED
    BY <1>1, <1>2, MineFacts DEF Wrote

(* A zone with one record changed is a zone.                                *)
LEMMA WroteType ==
    ASSUME TypeOK, NEW id \in RecordIDs, NEW r \in Record
    PROVE  /\ Wrote(id, r) \in [RecordIDs -> Record]
           /\ Wrote(id, r)[id] = r /\ \A j \in RecordIDs \ {id} : Wrote(id, r)[j] = zone[j]
  BY DEF TypeOK, Wrote

(* The call gives up.                                                       *)
LEMMA AbortType ==
    ASSUME TypeOK, NEW s \in {"fast", "slow"}, Abort(s), zone' \in [RecordIDs -> Record]
    PROVE  TypeOK'
<1>1. budget' \in 0 .. MaxEvents
  BY ConstantsAssumption DEF TypeOK, Abort, Event
<1> QED
  BY <1>1 DEF TypeOK, Abort, callVars

(* A failed write leaves a zone with or without it.                         *)
LEMMA WriteFailsType ==
    ASSUME TypeOK, NEW after \in [RecordIDs -> Record], WriteFails(after)
    PROVE  TypeOK' /\ pc' = "idle" /\ UNCHANGED args /\ zone' \in {zone, after}
<1>1. zone' \in {zone, after} /\ zone' \in [RecordIDs -> Record]
  BY DEF TypeOK, WriteFails
<1>2. PICK err \in Errors : Abort(toRetryError(err))
  BY DEF WriteFails
<1>3. toRetryError(err) \in {"fast", "slow"}
  BY DEF toRetryError
<1> QED
  BY <1>1, <1>2, <1>3, AbortType DEF Abort

(* Types are preserved by every step.                                       *)
LEMMA TypeStep == ASSUME TypeOK, [Next]_vars PROVE TypeOK'
<1> USE DEF callVars, NoEvent
<1>1. CASE UNCHANGED vars
  BY <1>1 DEF vars, TypeOK
<1>2. ASSUME NEW a \in Args, Begin(a), budget' \in 0 .. MaxEvents PROVE TypeOK'
  BY <1>2 DEF TypeOK, Begin, Args
<1>3. CASE Again
  BY <1>2, <1>3 DEF Again, TypeOK
<1>4. ASSUME NEW a \in Args, Ensure(a) PROVE TypeOK'
  <2>1. budget' \in 0 .. MaxEvents
    BY <1>4, ConstantsAssumption DEF Ensure, Event, TypeOK
  <2> QED
    BY <1>2, <1>4, <2>1 DEF Ensure
<1>5. CASE Crash
  <2>1. budget' \in 0 .. MaxEvents
    BY <1>5, ConstantsAssumption DEF Crash, Event, TypeOK
  <2> QED
    BY <1>5, <2>1 DEF Crash, TypeOK
<1>6. CASE ListFails \/ NoLinks
  <2>1. PICK s \in {"fast", "slow"} : Abort(s) /\ UNCHANGED zone
    BY <1>6 DEF ListFails, NoLinks, toRetryError
  <2> QED
    BY <2>1, AbortType DEF TypeOK
<1>7. ASSUME NEW id \in RecordIDs, OthersWrite(id) PROVE TypeOK'
  <2>1. budget' \in 0 .. MaxEvents
    BY <1>7, ConstantsAssumption DEF OthersWrite, Event, TypeOK
  <2>2. zone' \in [RecordIDs -> Record]
    BY <1>7 DEF OthersWrite, TypeOK, Record
  <2> QED
    BY <1>7, <2>1, <2>2 DEF OthersWrite, TypeOK
<1>8. CASE List
  <2>1. records' \subseteq RecordIDs
    BY <1>8 DEF List, PageOf, Live, Owned
  <2>2. last' \in BOOLEAN
    <3>1. IsLastPage(page) \in BOOLEAN
      BY SMT, CardinalityLive, ConstantsAssumption DEF IsLastPage, TypeOK
    <3> QED
      BY <1>8, <3>1 DEF List
  <2> QED
    BY <1>8, <2>1, <2>2 DEF List, TypeOK
<1>9. CASE NextPage \/ ListDone \/ Return
  BY <1>9 DEF NextPage, ListDone, Return, TypeOK
<1>10. ASSUME NEW id \in RecordIDs, ScanDrop(id) \/ ScanKeep(id) PROVE TypeOK'
  BY <1>10 DEF ScanDrop, ScanKeep, TypeOK
<1>11. ASSUME NEW id \in RecordIDs, ScanFix(id) PROVE TypeOK'
  <2>1. zone[id].data \in IPs
    BY <1>11 DEF ScanFix, TypeOK
  <2>2. PICK after \in Edited(id, zone[id].data) :
          \/ /\ zone' = after /\ records' = records \ {id} /\ ipSet' = ipSet \ {zone[id].data}
             /\ NoEvent /\ UNCHANGED <<api, args, pc, page, last, toDelete, result>>
          \/ WriteFails(after)
    BY <1>11 DEF ScanFix
  <2>3. after \in [RecordIDs -> Record]
    BY <2>1, EditedFacts, WroteType
  <2> QED
    BY <2>2, <2>3, WriteFailsType DEF TypeOK
<1>12. ASSUME NEW id \in RecordIDs, NEW ip \in IPs, Reuse(id, ip) PROVE TypeOK'
  <2>1. PICK after \in Edited(id, ip) :
          \/ /\ zone' = after /\ ipSet' = ipSet \ {ip} /\ toDelete' = toDelete \ {id}
             /\ NoEvent /\ UNCHANGED <<api, args, pc, page, last, records, result>>
          \/ WriteFails(after)
    BY <1>12 DEF Reuse
  <2>2. after \in [RecordIDs -> Record]
    BY EditedFacts, WroteType
  <2> QED
    BY <2>1, <2>2, WriteFailsType DEF TypeOK
<1>13. ASSUME NEW ip \in IPs, Create(ip) PROVE TypeOK'
  <2>1. PICK id \in RecordIDs \ Live :
          LET after == Wrote(id, Mine(ip, args.ttl, FALSE)) IN
          \/ /\ zone' = after /\ ipSet' = ipSet \ {ip}
             /\ NoEvent /\ UNCHANGED <<api, args, pc, page, last, records, toDelete, result>>
          \/ WriteFails(after)
    BY <1>13 DEF Create, Wrote
  <2>2. Wrote(id, Mine(ip, args.ttl, FALSE)) \in [RecordIDs -> Record]
    BY MineFacts, WroteType DEF TypeOK, Args
  <2> QED
    BY <2>1, <2>2, WriteFailsType DEF TypeOK
<1>14. ASSUME NEW id \in RecordIDs, Delete(id) PROVE TypeOK'
  <2>1. Wrote(id, NoRecord) \in [RecordIDs -> Record]
    BY WroteType DEF Record
  <2>2. LET after == Wrote(id, NoRecord) IN
          \/ /\ zone' = after /\ toDelete' = toDelete \ {id}
             /\ NoEvent /\ UNCHANGED <<api, args, pc, page, last, records, ipSet, result>>
          \/ WriteFails(after)
    BY <1>14 DEF Delete, Wrote
  <2> QED
    BY <2>1, <2>2, WriteFailsType DEF TypeOK
<1> QED
  BY <1>1, <1>3, <1>4, <1>5, <1>6, <1>7, <1>8, <1>9, <1>10, <1>11, <1>12, <1>13, <1>14
  DEF Next, Provider

\* A record as it is wanted; a call that ends with a failed write.
WantedRecord(r, ip) == r \in Record /\ r.kind = "mine" /\ r.data = ip /\ r.ttl = args.ttl
GivesUp(id, r) == zone' \in {zone, Wrote(id, r)} /\ pc' = "idle" /\ result' # "ok" /\ UNCHANGED <<args, page>>

(* The error of a failed write is not taken for success.                    *)
LEMMA FailedWrite ==
    ASSUME NEW id, NEW r, WriteFails(Wrote(id, r))
    PROVE  GivesUp(id, r)
  BY DEF WriteFails, Abort, toRetryError, GivesUp, callVars

\* The successful writes.
Fixed(id, r) ==
    /\ zone' = Wrote(id, r)
    /\ records' = records \ {id} /\ ipSet' = ipSet \ {zone[id].data}
    /\ UNCHANGED <<api, args, pc, page, last, toDelete, result>>
Reused(id, ip, r) ==
    /\ zone' = Wrote(id, r)
    /\ toDelete' = toDelete \ {id} /\ ipSet' = ipSet \ {ip}
    /\ UNCHANGED <<api, args, pc, page, last, records, result>>
Created(id, ip, r) ==
    /\ zone' = Wrote(id, r)
    /\ ipSet' = ipSet \ {ip}
    /\ UNCHANGED <<api, args, pc, page, last, records, toDelete, result>>
Deleted(id) ==
    /\ zone' = Wrote(id, NoRecord)
    /\ toDelete' = toDelete \ {id}
    /\ UNCHANGED <<api, args, pc, page, last, records, ipSet, result>>

(* A record with a wanted address is brought up to date.                    *)
LEMMA FixStep ==
    ASSUME TypeOK, NEW id \in RecordIDs, ScanFix(id)
    PROVE  /\ pc = "scan" /\ id \in records /\ zone[id].data \in ipSet /\ zone[id].data \in IPs
           /\ \E r : WantedRecord(r, zone[id].data) /\ (Fixed(id, r) \/ GivesUp(id, r))
<1>1. pc = "scan" /\ id \in records /\ zone[id].data \in ipSet /\ zone[id].data \in IPs
  BY DEF ScanFix, TypeOK
<1>2. PICK after \in Edited(id, zone[id].data) :
        \/ /\ zone' = after /\ records' = records \ {id} /\ ipSet' = ipSet \ {zone[id].data}
           /\ UNCHANGED <<api, args, pc, page, last, toDelete, result>>
        \/ WriteFails(after)
  BY DEF ScanFix
<1>3. PICK r \in Record : after = Wrote(id, r) /\ r.kind = "mine" /\ r.data = zone[id].data /\ r.ttl = args.ttl
  BY <1>1, EditedFacts
<1>4. Fixed(id, r) \/ GivesUp(id, r)
  BY <1>2, <1>3, FailedWrite DEF Fixed
<1> QED
  BY <1>1, <1>3, <1>4 DEF WantedRecord

(* A record that is not wanted becomes one that is.                         *)
LEMMA ReuseStep ==
    ASSUME TypeOK, NEW id \in RecordIDs, NEW ip \in IPs, Reuse(id, ip)
    PROVE  /\ pc = "write" /\ id \in toDelete /\ ip \in ipSet
           /\ \E r : WantedRecord(r, ip) /\ (Reused(id, ip, r) \/ GivesUp(id, r))
<1>1. PICK after \in Edited(id, ip) :
        \/ /\ zone' = after /\ ipSet' = ipSet \ {ip} /\ toDelete' = toDelete \ {id}
           /\ UNCHANGED <<api, args, pc, page, last, records, result>>
        \/ WriteFails(after)
  BY DEF Reuse
<1>2. PICK r \in Record : after = Wrote(id, r) /\ r.kind = "mine" /\ r.data = ip /\ r.ttl = args.ttl
  BY EditedFacts
<1>3. Reused(id, ip, r) \/ GivesUp(id, r)
  BY <1>1, <1>2, FailedWrite DEF Reused
<1>4. pc = "write" /\ id \in toDelete /\ ip \in ipSet
  BY DEF Reuse
<1> QED
  BY <1>2, <1>3, <1>4 DEF WantedRecord

(* A record is created for a missing address.                               *)
LEMMA CreateStep ==
    ASSUME TypeOK, NEW ip \in IPs, Create(ip)
    PROVE  /\ pc = "write" /\ ip \in ipSet /\ toDelete = {}
           /\ \E id \in RecordIDs \ Live : \E r :
                 WantedRecord(r, ip) /\ (Created(id, ip, r) \/ GivesUp(id, r))
<1> DEFINE r == Mine(ip, args.ttl, FALSE)
<1>1. WantedRecord(r, ip)
  <2>1. args.ttl \in TTLs
    BY DEF TypeOK, Args
  <2> QED
    BY <2>1, MineFacts DEF WantedRecord
<1> HIDE DEF r
<1>2. PICK id \in RecordIDs \ Live : Created(id, ip, r) \/ WriteFails(Wrote(id, r))
  BY DEF Create, Created, Wrote, r
<1>3. Created(id, ip, r) \/ GivesUp(id, r)
  BY <1>2, FailedWrite
<1>4. pc = "write" /\ ip \in ipSet /\ toDelete = {}
  BY DEF Create
<1> QED
  BY <1>1, <1>3, <1>4

(* A record that is not wanted is deleted.                                  *)
LEMMA DeleteStep ==
    ASSUME TypeOK, NEW id \in RecordIDs, Delete(id)
    PROVE  /\ pc = "write" /\ id \in toDelete /\ ipSet = {}
           /\ Deleted(id) \/ GivesUp(id, NoRecord)
<1>1. Deleted(id) \/ WriteFails(Wrote(id, NoRecord))
  BY DEF Delete, Deleted, Wrote
<1> QED
  BY <1>1, FailedWrite DEF Delete

(* Whatever others do to the zone, the records to be reused or deleted stay *)
(* records of the provider's own name.                                      *)
LEMMA OnlyOwnStep == ASSUME TypeOK, OnlyOwn, [Next]_vars PROVE OnlyOwn'
<1> USE DEF OnlyOwn, callVars
<1>1. CASE pc' = "idle"
  BY <1>1
<1>2. CASE UNCHANGED vars
  BY <1>2 DEF vars, Owned
<1>3. ASSUME NEW a, Begin(a) PROVE OnlyOwn'
  BY <1>3 DEF Begin
<1>4. CASE Again \/ (\E a \in Args : Ensure(a))
  BY <1>3, <1>4 DEF Again, Ensure
<1>5. CASE Crash \/ ListFails \/ NoLinks \/ Return
  BY <1>1, <1>5 DEF Crash, ListFails, NoLinks, Abort, Return
<1>6. ASSUME NEW id \in RecordIDs, OthersWrite(id) PROVE OnlyOwn'
  <2>1. \A j \in RecordIDs : zone[j].kind = "mine" => zone'[j] = zone[j]
    BY <1>6 DEF OthersWrite, TypeOK
  <2> QED
    BY <1>6, <2>1 DEF OthersWrite, Owned
<1>7. CASE List \/ NextPage \/ ListDone
  BY <1>7 DEF List, NextPage, ListDone, Owned
<1>8. ASSUME NEW id \in RecordIDs, ScanDrop(id) \/ ScanKeep(id) PROVE OnlyOwn'
  BY <1>8 DEF ScanDrop, ScanKeep, Owned
<1>9. ASSUME NEW id \in RecordIDs, ScanFix(id) PROVE OnlyOwn'
  <2>1. PICK r : WantedRecord(r, zone[id].data) /\ (Fixed(id, r) \/ GivesUp(id, r))
    BY <1>9, FixStep
  <2> QED
    <3>1. Wrote(id, r)[id].kind = "mine" /\ \A j \in RecordIDs \ {id} : Wrote(id, r)[j] = zone[j]
      BY <2>1, WroteType DEF WantedRecord
    <3> QED
      BY <1>1, <1>9, <2>1, <3>1, FixStep DEF GivesUp, Fixed, Owned
<1>10. ASSUME NEW id \in RecordIDs, NEW ip \in IPs, Reuse(id, ip) PROVE OnlyOwn'
  <2>1. PICK r : WantedRecord(r, ip) /\ (Reused(id, ip, r) \/ GivesUp(id, r))
    BY <1>10, ReuseStep
  <2> QED
    <3>1. Wrote(id, r)[id].kind = "mine" /\ \A j \in RecordIDs \ {id} : Wrote(id, r)[j] = zone[j]
      BY <2>1, WroteType DEF WantedRecord
    <3> QED
      BY <1>1, <1>10, <2>1, <3>1, ReuseStep DEF GivesUp, Reused, Owned
<1>11. ASSUME NEW ip \in IPs, Create(ip) PROVE OnlyOwn'
  <2>0. PICK id \in RecordIDs \ Live : \E r : Created(id, ip, r) \/ GivesUp(id, r)
    BY <1>11, CreateStep
  <2>1. PICK r : Created(id, ip, r) \/ GivesUp(id, r)
    BY <2>0
  <2> QED
    BY <1>1, <1>11, <2>1, CreateStep DEF GivesUp, Created
<1>12. ASSUME NEW id \in RecordIDs, Delete(id) PROVE OnlyOwn'
  <2>1. NoRecord \in Record
    BY DEF Record
  <2>2. \A j \in RecordIDs \ {id} : Wrote(id, NoRecord)[j] = zone[j]
    BY <2>1, WroteType
  <2> QED
    BY <1>1, <1>12, <2>2, DeleteStep DEF GivesUp, Deleted, Owned
<1> QED
  BY <1>2, <1>4, <1>5, <1>6, <1>7, <1>8, <1>9, <1>10, <1>11, <1>12 DEF Next, Provider

(* Types of the zone, the arguments and the state of a call.                *)
LEMMA InitType == Init => TypeOK
<1> SUFFICES ASSUME Init PROVE TypeOK
  OBVIOUS
<1>1. zone \in [RecordIDs -> Record]
  BY DEF Init, Found
<1>2. budget \in 0 .. MaxEvents
  BY ConstantsAssumption DEF Init
<1>3. last \in BOOLEAN
  BY DEF Init
<1> QED
  BY <1>1, <1>2, <1>3 DEF Init, TypeOK

(* EnsureDNSARecordSet types, for every provider, zone and page size.       *)
THEOREM RecordTypeCorrect == Spec => []TypeOK
<1> QED
  BY InitType, TypeStep, PTL DEF Spec

(* What is reused or deleted is of the provider's own name and type,        *)
(* although others write to the zone all the while.                         *)
THEOREM OnlyOwnTouched == Spec => []OnlyOwn
<1>1. Init => TypeOK /\ OnlyOwn
  BY InitType DEF Init, OnlyOwn
<1>2. (TypeOK /\ OnlyOwn) /\ [Next]_vars => (TypeOK /\ OnlyOwn)'
  BY TypeStep, OnlyOwnStep
<1> QED
  BY <1>1, <1>2, PTL DEF Spec
-----------------------------------------------------------------------------
(* A position in the list of a finite zone.                                 *)
LEMMA PositionFacts ==
    ASSUME NEW id \in Live, TypeOK
    PROVE  Position(id) \in Nat /\ 1 <= Position(id) /\ Position(id) <= Cardinality(Live)
<1> DEFINE S == {j \in Live : j <= id}
<1>1. IsFiniteSet(S) /\ Cardinality(S) <= Cardinality(Live) /\ Cardinality(S) \in Nat
  BY CardinalityLive, FS_Subset, FS_CardinalityType
<1>2. id \in Nat
  BY ConstantsAssumption DEF Live
<1>3. id \in S
  BY <1>2
<1>4. Cardinality(S) # 0
  BY <1>1, <1>3, FS_EmptySet
<1> QED
  BY <1>1, <1>4 DEF Position

\* KeepSound, for any records kept and to be deleted, and addresses missing.
Keeps(kept, del, missing, z, w) ==
    /\ missing \subseteq w.ips
    /\ \A id \in del : z[id].data \notin missing
    /\ \A id \in kept : z[id].data \in w.ips \ missing /\ z[id].ttl = w.ttl
    /\ \A ip \in w.ips \ missing : \E id \in kept : z[id].data = ip

(* One more record is kept, for an address that was missing.                *)
LEMMA KeepOne ==
    ASSUME NEW kept, NEW del, NEW missing, NEW z, NEW w, Keeps(kept, del, missing, z, w),
           NEW id, id \notin kept, NEW zz, NEW ip \in missing,
           zz[id].data = ip, zz[id].ttl = w.ttl,
           \A j \in kept \cup (del \ {id}) : zz[j] = z[j]
    PROVE  Keeps(kept \cup {id}, del \ {id}, missing \ {ip}, zz, w)
  BY DEF Keeps

\* What the pages listed so far contain, but for the records in recs.
Listed(recs) ==
    IF api = "digitalocean" THEN {id \in Live : Position(id) <= page * PerPage} \ recs ELSE Owned \ recs

(* A record of the page is among those listed, once it is looked at.        *)
LEMMA OneMoreLooked ==
    ASSUME IInv, pc = "scan", NEW id \in records
    PROVE  /\ Looked = Listed(records) /\ id \notin Looked
           /\ Listed(records \ {id}) = Looked \cup {id}
<1>1. Looked = Listed(records)
  BY DEF Looked, Listed
<1>2. id \in IF api = "digitalocean" THEN {j \in Live : Position(j) <= page * PerPage} ELSE Owned
  <2>1. CASE api = "digitalocean"
    <3>1. id \in PageOf(page)
      BY <2>1 DEF IInv, ListSound
    <3> QED
      BY <2>1, <3>1, PositionFacts, ConstantsAssumption DEF PageOf, IInv, TypeOK
  <2>2. CASE api # "digitalocean"
    BY <2>2 DEF IInv, ListSound
  <2> QED
    BY <2>1, <2>2
<1>3. Listed(records \ {id}) = Listed(records) \cup {id}
  BY <1>2 DEF Listed
<1> QED
  BY <1>1, <1>3 DEF Listed

(* Owned records are live ones.                                             *)
LEMMA OwnedLive == Owned \subseteq Live
  BY DEF Owned, Live

(* What the invariant says once the listing is done.                        *)
LEMMA AllLooked ==
    ASSUME IInv, pc = "write"
    PROVE  /\ Kept = Owned \ toDelete /\ toDelete \subseteq Owned
           /\ Keeps(Owned \ toDelete, toDelete, ipSet, zone, args)
<1>1. Looked = Live
  BY DEF Looked
<1>2. Kept = Owned \ toDelete
  BY <1>1, OwnedLive DEF Kept
<1> QED
  BY <1>2 DEF IInv, KeepSound, Keeps

(* A call begins with nothing looked at.                                    *)
LEMMA BeginSound ==
    ASSUME IInv, NEW a \in Args, Begin(a), TypeOK'
    PROVE  ListSound' /\ KeepSound'
<1>1. ListSound'
  BY DEF Begin, ListSound
<1>2. Looked' = {}
  <2>1. Looked' = {id \in Live' : Position(id)' <= 0}
    BY ConstantsAssumption DEF Looked, Begin
  <2>2. \A id \in Live' : Position(id)' \in Nat /\ 1 <= Position(id)'
    <3>1. Live' = Live /\ \A id : Position(id)' = Position(id)
      BY DEF Begin, Live, Position
    <3> QED
      BY <3>1, PositionFacts DEF IInv
  <2> QED
    BY <2>1, <2>2
<1> QED
  BY <1>1, <1>2 DEF Begin, KeepSound, Kept

(* A page, or the whole record set, is listed.                              *)
LEMMA ListStep ==
    ASSUME IInv, List, TypeOK'
    PROVE  ListSound' /\ KeepSound'
<1>1. /\ Live' = Live /\ Owned' = Owned /\ pc = "list" /\ pc' = "scan"
      /\ UNCHANGED <<api, zone, args, page, ipSet, toDelete>>
      /\ \A id : Position(id)' = Position(id)
  BY DEF List, Live, Owned, Position
<1>2. PageOf(page)' = PageOf(page) /\ IsLastPage(page)' = IsLastPage(page)
  BY <1>1 DEF PageOf, IsLastPage
<1>3. ListSound'
  BY <1>1, <1>2 DEF IInv, ListSound, List
<1>4. Looked' = Looked
  <2>1. Looked = {id \in Live : Position(id) <= (page - 1) * PerPage}
    BY <1>1 DEF Looked
  <2>2. CASE api = "digitalocean"
    <3>1. Looked' = {id \in Live : Position(id) <= page * PerPage} \ PageOf(page)
      BY <1>1, <2>2 DEF Looked, List
    <3>2. \A id \in Live : Position(id) \in Nat
      BY PositionFacts DEF IInv
    <3>3. page \in Nat \ {0} /\ (page - 1) * PerPage \in Nat /\ page * PerPage \in Nat
          /\ (page - 1) * PerPage <= page * PerPage
      BY ConstantsAssumption DEF IInv, TypeOK, ListSound
    <3> QED
      BY <2>1, <3>1, <3>2, <3>3 DEF PageOf
  <2>3. CASE api # "digitalocean"
    <3>1. page = 1
      BY <1>1, <2>3 DEF IInv, ListSound
    <3>2. Looked = {}
      <4>1. Looked = {id \in Live : Position(id) <= 0}
        BY <2>1, <3>1, ConstantsAssumption
      <4> QED
        BY <4>1, PositionFacts DEF IInv
    <3>3. Looked' = {}
      BY <1>1, <2>3 DEF Looked, List
    <3> QED
      BY <3>2, <3>3
  <2> QED
    BY <2>2, <2>3
<1>5. Kept' = Kept
  BY <1>1, <1>4 DEF Kept
<1> QED
  BY <1>1, <1>3, <1>4, <1>5 DEF IInv, KeepSound

(* A listed record is dropped or kept as it is.                             *)
LEMMA ScanStep ==
    ASSUME IInv, NEW id \in RecordIDs, ScanDrop(id) \/ ScanKeep(id), TypeOK'
    PROVE  ListSound' /\ KeepSound'
<1>1. /\ Live' = Live /\ Owned' = Owned /\ pc = "scan" /\ pc' = "scan" /\ id \in records
      /\ UNCHANGED <<api, zone, args, page, last>> /\ records' = records \ {id}
      /\ \A j : Position(j)' = Position(j)
  BY DEF ScanDrop, ScanKeep, Live, Owned, Position
<1>2. PageOf(page)' = PageOf(page) /\ IsLastPage(page)' = IsLastPage(page)
  BY <1>1 DEF PageOf, IsLastPage
<1>3. ListSound'
  BY <1>1, <1>2 DEF IInv, ListSound
<1>4. Looked' = Looked \cup {id} /\ id \notin Looked
  <2>1. Looked' = Listed(records \ {id})
    BY <1>1 DEF Looked, Listed
  <2> QED
    BY <1>1, <2>1, OneMoreLooked
<1>5. toDelete \subseteq Owned \cap Looked /\ Keeps(Kept, toDelete, ipSet, zone, args)
  BY <1>1 DEF IInv, KeepSound, Keeps
<1>6. id \notin Kept /\ id \notin toDelete
  BY <1>4, <1>5 DEF Kept
<1>7. zone[id] \in Record /\ ipSet \subseteq IPs
  BY DEF IInv, TypeOK
<1>8. CASE ScanDrop(id)
  <2>1. Kept' = Kept /\ ipSet' = ipSet /\ zone[id].data \notin ipSet
    BY <1>1, <1>4, <1>6, <1>8 DEF ScanDrop, Kept, Owned
  <2>2. toDelete' \subseteq toDelete \cup {id} /\ toDelete' \subseteq Owned \cap (Looked \cup {id})
    BY <1>5, <1>8 DEF ScanDrop, Owned
  <2>3. Keeps(Kept, toDelete', ipSet, zone, args)
    BY <1>5, <2>1, <2>2 DEF Keeps
  <2> QED
    BY <1>1, <1>3, <1>4, <2>1, <2>2, <2>3 DEF KeepSound, Keeps
<1>9. CASE ScanKeep(id)
  <2>1. /\ ipSet' = ipSet \ {zone[id].data} /\ toDelete' = toDelete
        /\ zone[id].data \in ipSet /\ zone[id].ttl = args.ttl
    BY <1>9 DEF ScanKeep, Outdated
  <2>2. id \in Owned
    BY <1>7, <2>1, RecordFacts DEF Owned
  <2>3. Kept' = Kept \cup {id}
    BY <1>1, <1>4, <1>6, <2>1, <2>2 DEF Kept
  <2>4. Keeps(Kept \cup {id}, toDelete \ {id}, ipSet \ {zone[id].data}, zone, args)
    BY <1>5, <1>6, <2>1, KeepOne
  <2>5. toDelete \ {id} = toDelete
    BY <1>6
  <2> QED
    BY <1>1, <1>3, <1>4, <1>5, <2>1, <2>3, <2>4, <2>5 DEF KeepSound, Keeps
<1> QED
  BY <1>8, <1>9

(* A listed record is kept and brought up to date.                          *)
LEMMA FixedSound ==
    ASSUME IInv, NEW id \in RecordIDs, ScanFix(id), NEW r, WantedRecord(r, zone[id].data), Fixed(id, r)
    PROVE  ListSound' /\ KeepSound'
<1>1. /\ pc = "scan" /\ id \in records /\ zone[id].data \in ipSet /\ zone[id].data \in IPs
  BY FixStep DEF IInv
<1>2. /\ zone'[id] = r /\ \A j \in RecordIDs \ {id} : zone'[j] = zone[j]
  BY WroteType DEF IInv, Fixed, WantedRecord
<1>3. id \in Owned
  BY <1>1, RecordFacts DEF IInv, TypeOK, Owned
<1>4. Owned' = Owned /\ Live' = Live
  BY <1>2, <1>3 DEF Owned, Live, WantedRecord
<1>5. \A j : Position(j)' = Position(j)
  BY <1>4 DEF Position
<1>6. PageOf(page)' = PageOf(page) /\ IsLastPage(page)' = IsLastPage(page)
  BY <1>4, <1>5 DEF PageOf, IsLastPage, Fixed
<1>7. ListSound'
  BY <1>1, <1>4, <1>6 DEF IInv, ListSound, Fixed
<1>8. Looked' = Looked \cup {id} /\ id \notin Looked
  <2>1. Looked' = Listed(records \ {id})
    BY <1>1, <1>4, <1>5 DEF Looked, Listed, Fixed
  <2> QED
    BY <1>1, <2>1, OneMoreLooked
<1>9. toDelete \subseteq Owned \cap Looked /\ Keeps(Kept, toDelete, ipSet, zone, args)
  BY <1>1 DEF IInv, KeepSound, Keeps
<1>10. /\ id \notin Kept /\ id \notin toDelete /\ toDelete \ {id} = toDelete
       /\ Kept \subseteq RecordIDs /\ toDelete \subseteq RecordIDs
  BY <1>8, <1>9 DEF Kept, Owned
<1>11. Kept' = Kept \cup {id}
  BY <1>3, <1>4, <1>8, <1>10 DEF Kept, Fixed
<1>12. Keeps(Kept \cup {id}, toDelete \ {id}, ipSet \ {zone[id].data}, zone', args)
  <2>1. zone'[id].data = zone[id].data /\ zone'[id].ttl = args.ttl
    BY <1>2 DEF WantedRecord
  <2>2. \A j \in Kept \cup (toDelete \ {id}) : zone'[j] = zone[j]
    BY <1>2, <1>10
  <2> QED
    BY <1>1, <1>9, <1>10, <2>1, <2>2, KeepOne
<1> QED
  BY <1>1, <1>4, <1>7, <1>8, <1>9, <1>10, <1>11, <1>12 DEF KeepSound, Keeps, Fixed

(* The next page is asked for, or all pages have been looked at.            *)
LEMMA PageStep ==
    ASSUME IInv, NextPage \/ ListDone, TypeOK'
    PROVE  ListSound' /\ KeepSound'
<1>1. /\ Live' = Live /\ Owned' = Owned /\ pc = "scan" /\ records = {}
      /\ UNCHANGED <<api, zone, args, ipSet, toDelete>>
      /\ \A id : Position(id)' = Position(id)
  BY DEF NextPage, ListDone, callVars, Live, Owned, Position
<1>2. page \in Nat \ {0}
  BY DEF IInv, ListSound, TypeOK
<1>3. CASE NextPage
  <2>1. api = "digitalocean" /\ page' = page + 1 /\ pc' = "list"
    BY <1>1, <1>3 DEF IInv, ListSound, NextPage
  <2>2. ListSound'
    BY <1>1, <1>2, <2>1 DEF ListSound
  <2>3. Looked' = Looked
    <3>1. Looked' = {id \in Live' : Position(id)' <= (page' - 1) * PerPage}
      BY <2>1 DEF Looked
    <3>2. Looked = {id \in Live : Position(id) <= page * PerPage}
      BY <1>1, <2>1 DEF Looked
    <3>3. page' - 1 = page
      BY <1>2, <2>1
    <3> QED
      BY <1>1, <3>1, <3>2, <3>3
  <2>4. Kept' = Kept
    BY <1>1, <2>3 DEF Kept
  <2> QED
    BY <1>1, <2>1, <2>2, <2>3, <2>4 DEF IInv, KeepSound
<1>4. CASE ListDone
  <2>1. pc' = "write" /\ page' = page /\ last
    BY <1>4 DEF ListDone, callVars
  <2>2. ListSound'
    BY <1>2, <2>1 DEF ListSound
  <2>3. Owned \cap Looked = Owned
    <3>1. CASE api = "digitalocean"
      <4>1. Cardinality(Live) <= page * PerPage
        BY <1>1, <2>1, <3>1 DEF IInv, ListSound, IsLastPage
      <4>2. Looked = {id \in Live : Position(id) <= page * PerPage}
        BY <1>1, <3>1 DEF Looked
      <4>3. page * PerPage \in Nat /\ Cardinality(Live) \in Nat
        BY <1>2, ConstantsAssumption, CardinalityLive
      <4>4. \A id \in Live : Position(id) \in Nat /\ Position(id) <= Cardinality(Live)
        BY PositionFacts DEF IInv
      <4>5. Looked = Live
        BY <4>1, <4>2, <4>3, <4>4
      <4> QED
        BY <4>5, OwnedLive
    <3>2. CASE api # "digitalocean"
      BY <1>1, <3>2 DEF Looked
    <3> QED
      BY <3>1, <3>2
  <2>4. Owned' \cap Looked' = Owned
    BY <1>1, <2>1, OwnedLive DEF Looked
  <2>5. Kept' = Kept
    BY <1>1, <2>3, <2>4 DEF Kept
  <2> QED
    BY <1>1, <2>1, <2>2, <2>3, <2>4, <2>5 DEF IInv, KeepSound
<1> QED
  BY <1>3, <1>4

(* Steps of the writing part, from what they do to the records kept.        *)
LEMMA WrittenSound ==
    ASSUME IInv, pc = "write", pc' = "write", page' = page,
           toDelete' \subseteq Owned',
           Keeps(Owned' \ toDelete', toDelete', ipSet', zone', args')
    PROVE  ListSound' /\ KeepSound'
<1>1. ListSound'
  BY DEF IInv, ListSound
<1>2. Looked' = Live'
  BY DEF Looked
<1>3. Owned' \subseteq Live'
  BY DEF Owned, Live
<1>4. Kept' = Owned' \ toDelete'
  BY <1>2, <1>3 DEF Kept
<1> QED
  BY <1>1, <1>2, <1>3, <1>4 DEF KeepSound, Keeps

(* A record is reused.                                                      *)
LEMMA ReusedSound ==
    ASSUME IInv, NEW id \in RecordIDs, NEW ip \in IPs, Reuse(id, ip),
           NEW r, WantedRecord(r, ip), Reused(id, ip, r)
    PROVE  ListSound' /\ KeepSound'
<1>1. pc = "write" /\ id \in toDelete /\ ip \in ipSet
  BY ReuseStep DEF IInv
<1>2. zone'[id] = r /\ \A j \in RecordIDs \ {id} : zone'[j] = zone[j]
  BY WroteType DEF IInv, Reused, WantedRecord
<1>3. toDelete \subseteq Owned /\ Keeps(Owned \ toDelete, toDelete, ipSet, zone, args)
  BY <1>1, AllLooked
<1>4. Owned' = Owned
  BY <1>1, <1>2, <1>3 DEF Owned, WantedRecord
<1>5. Keeps((Owned \ toDelete) \cup {id}, toDelete \ {id}, ipSet \ {ip}, zone', args)
  <2>1. zone'[id].data = ip /\ zone'[id].ttl = args.ttl
    BY <1>2 DEF WantedRecord
  <2>2. \A j \in (Owned \ toDelete) \cup (toDelete \ {id}) : zone'[j] = zone[j]
    BY <1>1, <1>2, <1>3 DEF Owned
  <2> QED
    BY <1>1, <1>3, <2>1, <2>2, KeepOne
<1>6. Owned' \ toDelete' = (Owned \ toDelete) \cup {id}
  BY <1>1, <1>3, <1>4 DEF Reused
<1> QED
  BY <1>1, <1>3, <1>4, <1>5, <1>6, WrittenSound DEF Reused

(* A record is created.                                                     *)
LEMMA CreatedSound ==
    ASSUME IInv, NEW ip \in IPs, Create(ip), NEW id \in RecordIDs \ Live,
           NEW r, WantedRecord(r, ip), Created(id, ip, r)
    PROVE  ListSound' /\ KeepSound'
<1>1. pc = "write" /\ ip \in ipSet /\ toDelete = {}
  BY CreateStep DEF IInv
<1>2. zone'[id] = r /\ \A j \in RecordIDs \ {id} : zone'[j] = zone[j]
  BY WroteType DEF IInv, Created, WantedRecord
<1>3. Keeps(Owned \ toDelete, toDelete, ipSet, zone, args) /\ id \notin Owned
  BY <1>1, AllLooked, OwnedLive
<1>4. Owned' = Owned \cup {id}
  BY <1>2 DEF Owned, WantedRecord
<1>5. Keeps((Owned \ toDelete) \cup {id}, toDelete \ {id}, ipSet \ {ip}, zone', args)
  <2>1. zone'[id].data = ip /\ zone'[id].ttl = args.ttl
    BY <1>2 DEF WantedRecord
  <2>2. \A j \in (Owned \ toDelete) \cup (toDelete \ {id}) : zone'[j] = zone[j]
    BY <1>1, <1>2, <1>3 DEF Owned
  <2> QED
    BY <1>1, <1>3, <2>1, <2>2, KeepOne
<1>6. Owned' \ toDelete' = (Owned \ toDelete) \cup {id} /\ toDelete' = toDelete \ {id}
  BY <1>1, <1>4 DEF Created
<1> QED
  BY <1>1, <1>5, <1>6, WrittenSound DEF Created

(* A record is deleted.                                                     *)
LEMMA DeletedSound ==
    ASSUME IInv, NEW id \in RecordIDs, Delete(id), Deleted(id)
    PROVE  ListSound' /\ KeepSound'
<1>1. pc = "write" /\ id \in toDelete
  BY DeleteStep DEF IInv
<1>2. NoRecord \in Record /\ NoRecord.kind # "mine"
  BY DEF Record, NoRecord
<1>3. zone'[id] = NoRecord /\ \A j \in RecordIDs \ {id} : zone'[j] = zone[j]
  BY <1>2, WroteType DEF IInv, Deleted
<1>4. toDelete \subseteq Owned /\ Keeps(Owned \ toDelete, toDelete, ipSet, zone, args)
  BY <1>1, AllLooked
<1>5. Owned' = Owned \ {id}
  BY <1>2, <1>3 DEF Owned
<1>6. Owned' \ toDelete' = Owned \ toDelete /\ toDelete' \subseteq Owned'
  BY <1>1, <1>4, <1>5 DEF Deleted
<1>7. \A j \in (Owned \ toDelete) \cup toDelete' : zone'[j] = zone[j]
  BY <1>1, <1>3 DEF Deleted, Owned, IInv, TypeOK
<1>8. Keeps(Owned \ toDelete, toDelete', ipSet, zone', args)
  BY <1>4, <1>7 DEF Keeps, Deleted
<1> QED
  BY <1>1, <1>6, <1>8, WrittenSound DEF Deleted

(* Others write while the zone is not being listed.                         *)
LEMMA OthersSound ==
    ASSUME IInv, "shift" \notin Events, NEW id \in RecordIDs, OthersWrite(id)
    PROVE  ListSound' /\ KeepSound'
<1>1. pc \in {"idle", "write"} /\ UNCHANGED <<api, args, pc, page, last, records, ipSet, toDelete, result>>
  BY DEF OthersWrite, Event, IInv, TypeOK, callVars
<1>2. \A j \in RecordIDs : /\ zone[j].kind = "mine" => zone'[j] = zone[j]
                           /\ zone'[j].kind = "mine" => zone'[j] = zone[j]
  BY DEF OthersWrite, IInv, TypeOK, Foreign, NoRecord
<1>3. Owned' = Owned
  BY <1>2 DEF Owned
<1>4. CASE pc = "idle"
  BY <1>1, <1>4 DEF IInv, ListSound, KeepSound
<1>5. CASE pc = "write"
  <2>1. toDelete \subseteq Owned /\ Keeps(Owned \ toDelete, toDelete, ipSet, zone, args)
    BY <1>5, AllLooked
  <2>2. \A j \in Owned : zone'[j] = zone[j]
    BY <1>2 DEF Owned
  <2>3. Keeps(Owned \ toDelete, toDelete, ipSet, zone', args)
    BY <2>1, <2>2 DEF Keeps
  <2> QED
    BY <1>1, <1>3, <1>5, <2>1, <2>3, WrittenSound
<1> QED
  BY <1>1, <1>4, <1>5

(* Outside a call the invariant only says that a page was asked for.        *)
LEMMA IdleSound ==
    ASSUME IInv, pc' = "idle", UNCHANGED page
    PROVE  ListSound' /\ KeepSound'
  BY DEF IInv, ListSound, KeepSound

(* Every step keeps the invariant, as long as nobody moves records to other *)
(* pages while the zone is being listed.                                    *)
LEMMA IInvStep == ASSUME IInv, [Next]_vars, "shift" \notin Events PROVE IInv'
<1>1. TypeOK'
  BY TypeStep DEF IInv
<1> SUFFICES ListSound' /\ KeepSound'
  BY <1>1 DEF IInv
<1>2. CASE UNCHANGED vars
  <2>1. UNCHANGED <<api, zone, args, pc, page, last, records, ipSet, toDelete>>
    BY <1>2 DEF vars, callVars
  <2>2. Live' = Live /\ Owned' = Owned /\ \A id : Position(id)' = Position(id)
    BY <2>1 DEF Live, Owned, Position
  <2>3. PageOf(page)' = PageOf(page) /\ IsLastPage(page)' = IsLastPage(page) /\ Looked' = Looked
    BY <2>1, <2>2 DEF PageOf, IsLastPage, Looked
  <2>4. Kept' = Kept
    BY <2>1, <2>2, <2>3 DEF Kept
  <2> QED
    BY <2>1, <2>2, <2>3, <2>4 DEF IInv, ListSound, KeepSound
<1>3. CASE Again \/ \E a \in Args : Ensure(a)
  <2>1. args \in Args
    BY DEF IInv, TypeOK
  <2> QED
    BY <1>1, <1>3, <2>1, BeginSound DEF Again, Ensure
<1>4. CASE Crash \/ ListFails \/ NoLinks \/ Return
  BY <1>4, IdleSound DEF Crash, ListFails, NoLinks, Abort, Return, callVars
<1>5. CASE List \/ NextPage \/ ListDone
  BY <1>1, <1>5, ListStep, PageStep
<1>6. ASSUME NEW id \in RecordIDs, ScanDrop(id) \/ ScanKeep(id) PROVE ListSound' /\ KeepSound'
  BY <1>1, <1>6, ScanStep
<1>7. ASSUME NEW id \in RecordIDs, ScanFix(id) PROVE ListSound' /\ KeepSound'
  <2>1. PICK r : WantedRecord(r, zone[id].data) /\ (Fixed(id, r) \/ GivesUp(id, r))
    BY <1>7, FixStep DEF IInv
  <2> QED
    BY <1>7, <2>1, FixedSound, IdleSound DEF GivesUp
<1>8. ASSUME NEW id \in RecordIDs, NEW ip \in IPs, Reuse(id, ip) PROVE ListSound' /\ KeepSound'
  <2>1. PICK r : WantedRecord(r, ip) /\ (Reused(id, ip, r) \/ GivesUp(id, r))
    BY <1>8, ReuseStep DEF IInv
  <2> QED
    BY <1>8, <2>1, ReusedSound, IdleSound DEF GivesUp
<1>9. ASSUME NEW ip \in IPs, Create(ip) PROVE ListSound' /\ KeepSound'
  <2>0. PICK id \in RecordIDs \ Live : \E r : WantedRecord(r, ip) /\ (Created(id, ip, r) \/ GivesUp(id, r))
    BY <1>9, CreateStep DEF IInv
  <2>1. PICK r : WantedRecord(r, ip) /\ (Created(id, ip, r) \/ GivesUp(id, r))
    BY <2>0
  <2> QED
    BY <1>9, <2>1, CreatedSound, IdleSound DEF GivesUp
<1>10. ASSUME NEW id \in RecordIDs, Delete(id) PROVE ListSound' /\ KeepSound'
  BY <1>10, DeleteStep, DeletedSound, IdleSound DEF GivesUp, IInv
<1>11. ASSUME NEW id \in RecordIDs, OthersWrite(id) PROVE ListSound' /\ KeepSound'
  BY <1>11, OthersSound
<1> QED
  BY <1>2, <1>3, <1>4, <1>5, <1>6, <1>7, <1>8, <1>9, <1>10, <1>11 DEF Next, Provider
-----------------------------------------------------------------------------
(* The addresses served, for a well-typed zone.                             *)
LEMMA ServedType == ASSUME TypeOK PROVE \A ip \in IPs : Served(ip) \subseteq TTLs
  BY RecordFacts DEF TypeOK, Served, Owned

\* What a step may do to the addresses served.
Advances ==
    \A ip \in IPs :
        /\ Served(ip)' \subseteq Served(ip) \cup (IF ip \in args.ips THEN {args.ttl} ELSE {})
        /\ ip \in args.ips /\ Served(ip) # {} => Served(ip)' # {}

(* A write of a wanted record, or one that leaves another record with the   *)
(* address, is a step towards what is wanted, whether or not it is applied. *)
LEMMA WriteAdvances ==
    ASSUME TypeOK, NEW id \in RecordIDs, NEW r \in Record, zone' \in {zone, Wrote(id, r)},
           r.kind = "mine" => r.data \in args.ips /\ r.ttl = args.ttl,
           id \in Owned /\ zone[id].data \in args.ips =>
               \/ r.kind = "mine" /\ r.data = zone[id].data
               \/ \E j \in Owned \ {id} : zone[j].data = zone[id].data
    PROVE  Advances
<1>1. CASE zone' = zone
  BY <1>1 DEF Advances, Served, Owned
<1>2. CASE zone' = Wrote(id, r)
  <2>1. zone'[id] = r /\ \A j \in RecordIDs \ {id} : zone'[j] = zone[j]
    BY <1>2, WroteType
  <2> SUFFICES ASSUME NEW ip \in IPs
               PROVE  /\ Served(ip)' \subseteq Served(ip) \cup (IF ip \in args.ips THEN {args.ttl} ELSE {})
                      /\ ip \in args.ips /\ Served(ip) # {} => Served(ip)' # {}
    BY DEF Advances
  <2>2. Served(ip)' \subseteq Served(ip) \cup (IF ip \in args.ips THEN {args.ttl} ELSE {})
    BY <2>1 DEF Served, Owned
  <2>3. ASSUME ip \in args.ips, Served(ip) # {} PROVE Served(ip)' # {}
    <3>1. PICK i \in Owned : zone[i].data = ip
      BY <2>3 DEF Served
    <3>2. \E j \in Owned' : zone'[j].data = ip
      BY <2>1, <2>3, <3>1 DEF Owned
    <3> QED
      BY <3>2 DEF Served
  <2> QED
    BY <2>2, <2>3
<1> QED
  BY <1>1, <1>2

\* The state of the promise that a state of the call stands for.
served == [ip \in IPs |-> Served(ip)]
state == IF pc # "idle" THEN "busy" ELSE IF result = "ok" THEN "ok" ELSE "failed"

(* Such a step is a step of the promise, and so is the failure after it.    *)
LEMMA AdvancesIsProgress ==
    ASSUME TypeOK', Advances, UNCHANGED args, pc # "idle",
           pc' # "idle" \/ result' # "ok"
    PROVE  Promise!Next
<1>1. \A ip \in IPs : Served(ip)' \subseteq TTLs
  BY RecordFacts DEF TypeOK, Served, Owned
<1>2. Promise!Progress
  BY <1>1 DEF Promise!Progress, Advances
<1> QED
  BY <1>2 DEF Promise!Next, Promise!Update, Promise!Fail

(* A step that leaves the records of the name alone.                        *)
LEMMA SameServed ==
    ASSUME UNCHANGED zone \/ (/\ Owned' = Owned /\ \A id \in Owned : zone'[id] = zone[id])
    PROVE  served' = served
<1>1. Owned' = Owned /\ \A id \in Owned : zone'[id] = zone[id]
  BY DEF Owned
<1>2. \A ip : Served(ip)' = Served(ip)
  BY <1>1 DEF Served
<1> QED
  BY <1>2 DEF served

(* Every step of the provider is one of the promise, or leaves it alone.    *)
LEMMA PromiseStep ==
    ASSUME IInv, [Next]_vars, "shift" \notin Events
    PROVE  [Promise!Next]_(Promise!pvars)
<1> USE DEF callVars
<1>1. TypeOK /\ TypeOK'
  BY TypeStep DEF IInv
<1>2. ASSUME served' = served, args' = args, state' = state PROVE UNCHANGED Promise!pvars
  BY <1>2 DEF Promise!pvars, served, state
<1>3. CASE UNCHANGED vars
  BY <1>2, <1>3, SameServed DEF vars, state
<1>4. ASSUME NEW a \in Args, Begin(a) PROVE Promise!Next
  <2>1. served' = served
    BY <1>4, SameServed DEF Begin
  <2>2. Promise!Call(a)
    BY <1>4, <2>1 DEF Promise!Call, Begin, served
  <2> QED
    BY <2>2 DEF Promise!Next, Promise!Calls, Args
<1>5. CASE Again \/ \E a \in Args : Ensure(a)
  BY <1>1, <1>4, <1>5 DEF Again, Ensure, TypeOK
<1>6. CASE Crash \/ ListFails \/ NoLinks
  <2>1. UNCHANGED <<zone, args>> /\ pc # "idle" /\ result' # "ok"
    BY <1>6 DEF Crash, ListFails, NoLinks, Abort, toRetryError
  <2>2. Advances
    BY <2>1 DEF Advances, Served, Owned
  <2> QED
    BY <1>1, <2>1, <2>2, AdvancesIsProgress
<1>7. CASE List \/ NextPage \/ ListDone \/ \E id \in RecordIDs : ScanDrop(id) \/ ScanKeep(id)
  <2>1. UNCHANGED <<zone, args>> /\ pc # "idle" /\ pc' # "idle"
    BY <1>7 DEF List, NextPage, ListDone, ScanDrop, ScanKeep
  <2> QED
    BY <1>2, <2>1, SameServed DEF state
<1>8. ASSUME NEW id \in RecordIDs, ScanFix(id) PROVE Promise!Next
  <2>1. PICK r : WantedRecord(r, zone[id].data) /\ (Fixed(id, r) \/ GivesUp(id, r))
    BY <1>1, <1>8, FixStep
  <2>2. pc = "scan" /\ zone[id].data \in args.ips
    BY <1>1, <1>8, FixStep DEF IInv, KeepSound
  <2>3. zone' \in {zone, Wrote(id, r)} /\ UNCHANGED args /\ (pc' # "idle" \/ result' # "ok")
    BY <2>1, <2>2 DEF Fixed, GivesUp
  <2>4. Advances
    BY <1>1, <2>1, <2>2, <2>3, WriteAdvances DEF WantedRecord
  <2> QED
    BY <1>1, <2>2, <2>3, <2>4, AdvancesIsProgress
<1>9. ASSUME NEW id \in RecordIDs, NEW ip \in IPs, Reuse(id, ip) PROVE Promise!Next
  <2>1. PICK r : WantedRecord(r, ip) /\ (Reused(id, ip, r) \/ GivesUp(id, r))
    BY <1>1, <1>9, ReuseStep
  <2>2. pc = "write" /\ id \in toDelete /\ ip \in args.ips
    BY <1>1, <1>9, ReuseStep DEF IInv, KeepSound
  <2>3. zone' \in {zone, Wrote(id, r)} /\ UNCHANGED args /\ (pc' # "idle" \/ result' # "ok")
    BY <2>1, <2>2 DEF Reused, GivesUp
  <2>4. zone[id].data \in args.ips => \E j \in Owned \ {id} : zone[j].data = zone[id].data
    BY <2>2, AllLooked DEF Keeps
  <2>5. Advances
    BY <1>1, <2>1, <2>2, <2>3, <2>4, WriteAdvances DEF WantedRecord
  <2> QED
    BY <1>1, <2>2, <2>3, <2>5, AdvancesIsProgress
<1>10. ASSUME NEW ip \in IPs, Create(ip) PROVE Promise!Next
  <2>0. PICK id \in RecordIDs \ Live : \E r : WantedRecord(r, ip) /\ (Created(id, ip, r) \/ GivesUp(id, r))
    BY <1>1, <1>10, CreateStep
  <2>1. PICK r : WantedRecord(r, ip) /\ (Created(id, ip, r) \/ GivesUp(id, r))
    BY <2>0
  <2>2. pc = "write" /\ ip \in args.ips /\ id \notin Owned
    BY <1>1, <1>10, CreateStep, OwnedLive DEF IInv, KeepSound
  <2>3. zone' \in {zone, Wrote(id, r)} /\ UNCHANGED args /\ (pc' # "idle" \/ result' # "ok")
    BY <2>1, <2>2 DEF Created, GivesUp
  <2>4. Advances
    BY <1>1, <2>1, <2>2, <2>3, WriteAdvances DEF WantedRecord
  <2> QED
    BY <1>1, <2>2, <2>3, <2>4, AdvancesIsProgress
<1>11. ASSUME NEW id \in RecordIDs, Delete(id) PROVE Promise!Next
  <2>1. pc = "write" /\ id \in toDelete /\ (Deleted(id) \/ GivesUp(id, NoRecord))
    BY <1>1, <1>11, DeleteStep
  <2>2. zone' \in {zone, Wrote(id, NoRecord)} /\ UNCHANGED args /\ (pc' # "idle" \/ result' # "ok")
    BY <2>1 DEF Deleted, GivesUp
  <2>3. zone[id].data \in args.ips => \E j \in Owned \ {id} : zone[j].data = zone[id].data
    BY <2>1, AllLooked, <1>11, DeleteStep, <1>1 DEF Keeps
  <2>4. NoRecord \in Record /\ NoRecord.kind # "mine"
    BY DEF Record, NoRecord
  <2>5. Advances
    BY <1>1, <2>2, <2>3, <2>4, WriteAdvances
  <2> QED
    BY <1>1, <2>1, <2>2, <2>5, AdvancesIsProgress
<1>12. CASE Return
  <2>1. /\ pc = "write" /\ ipSet = {} /\ toDelete = {} /\ UNCHANGED <<zone, args>>
        /\ pc' = "idle" /\ result' = "ok"
    BY <1>12 DEF Return
  <2>2. Keeps(Owned, {}, {}, zone, args)
    BY <2>1, AllLooked
  <2>3. \A ip \in IPs : Served(ip) = IF ip \in args.ips THEN {args.ttl} ELSE {}
    BY <2>2 DEF Keeps, Served
  <2>4. Promise!Holds(args)
    BY <2>3 DEF Promise!Holds
  <2>5. served' = served
    BY <2>1, SameServed
  <2> QED
    BY <2>1, <2>4, <2>5 DEF Promise!Next, Promise!Return, served
<1>13. ASSUME NEW id \in RecordIDs, OthersWrite(id) PROVE UNCHANGED Promise!pvars
  <2>1. UNCHANGED <<args, pc, result>>
    BY <1>13 DEF OthersWrite
  <2>2. \A j \in RecordIDs : /\ zone[j].kind = "mine" => zone'[j] = zone[j]
                             /\ zone'[j].kind = "mine" => zone'[j] = zone[j]
    BY <1>1, <1>13 DEF OthersWrite, TypeOK, Foreign, NoRecord
  <2>3. Owned' = Owned /\ \A j \in Owned : zone'[j] = zone[j]
    BY <2>2 DEF Owned
  <2> QED
    BY <1>2, <2>1, <2>3, SameServed DEF state
<1> QED
  BY <1>3, <1>5, <1>6, <1>7, <1>8, <1>9, <1>10, <1>11, <1>12, <1>13 DEF Next, Provider

(* EnsureDNSARecordSet of both providers keeps RecordPromise, for any       *)
(* records found, page size, number of failed writes and crashes: it        *)
(* reports success only when exactly the wanted addresses are served, and   *)
(* takes none of them out of service on the way.  Assumed: nobody moves the *)
(* zone's records to other pages during a listing.                          *)
THEOREM RecordsPromised == ASSUME "shift" \notin Events PROVE Spec => KeepsPromise
<1>1. Init => IInv
  BY InitType DEF Init, IInv, ListSound, KeepSound
<1>2. IInv /\ [Next]_vars => IInv'
  BY IInvStep
<1>3. Init => Promise!Init
  <2> SUFFICES ASSUME Init PROVE Promise!Init
    OBVIOUS
  <2>1. \A ip \in IPs : Served(ip) \subseteq TTLs
    BY InitType, ServedType
  <2> QED
    BY <2>1 DEF Init, Promise!Init, Promise!Calls, Args
<1>4. IInv /\ [Next]_vars => [Promise!Next]_(Promise!pvars)
  BY PromiseStep
<1> QED
  BY <1>1, <1>2, <1>3, <1>4, PTL DEF Spec, KeepsPromise, Promise!Spec
-----------------------------------------------------------------------------
(* One record per address: no two records of the name have the same one.    *)
LEMMA OnePerAddress ==
    ASSUME TypeOK, Exact, NEW i \in Owned, NEW j \in Owned, zone[i].data = zone[j].data
    PROVE  i = j
<1> DEFINE f == [id \in Owned |-> zone[id].data]
<1>1. IsFiniteSet(Owned)
  BY FS_Subset, ConstantsAssumption DEF Owned
<1>2. f \in Surjection(Owned, args.ips)
  BY DEF Exact, Surjection
<1>3. f \in Injection(Owned, args.ips)
  BY <1>1, <1>2, FS_SurjSameCardinalityImpliesInj DEF Exact
<1>4. \A a, b \in Owned : f[a] = f[b] => a = b
  BY <1>3 DEF Injection, IsInjective
<1> QED
  BY <1>4

(* With the exact records in the zone, no call has one to write.            *)
LEMMA ExactIsLeft ==
    ASSUME IInv, Exact, \A id \in Owned : ~zone[id].proxied, [Next]_vars
    PROVE  UNCHANGED OwnRecords
<1>1. TypeOK /\ \A id \in Owned : zone[id].data \in args.ips
  BY DEF IInv, Exact
<1>2. SUFFICES UNCHANGED zone \/ (Owned' = Owned /\ \A id \in Owned : zone'[id] = zone[id])
  BY DEF OwnRecords, Owned
<1>3. ASSUME pc = "write", NEW id \in toDelete PROVE FALSE
  <2>1. toDelete \subseteq Owned /\ Keeps(Owned \ toDelete, toDelete, ipSet, zone, args)
    BY <1>3, AllLooked
  <2>2. zone[id].data \in args.ips \ ipSet
    BY <1>1, <2>1 DEF Keeps
  <2>3. PICK k \in Owned \ toDelete : zone[k].data = zone[id].data
    BY <2>1, <2>2 DEF Keeps
  <2> QED
    BY <1>1, <2>1, <2>3, OnePerAddress
<1>4. ASSUME NEW ip \in IPs, Create(ip) PROVE FALSE
  <2>1. pc = "write" /\ ip \in ipSet /\ toDelete = {}
    BY <1>4 DEF Create
  <2>2. Keeps(Owned, toDelete, ipSet, zone, args)
    BY <2>1, AllLooked
  <2>3. PICK id \in Owned : zone[id].data = ip
    BY <2>1, <2>2 DEF Keeps, Exact
  <2> QED
    BY <2>1, <2>2, <2>3 DEF Keeps
<1>5. ASSUME NEW id \in RecordIDs, ScanFix(id) PROVE FALSE
  <2>1. zone[id].data \in IPs /\ Outdated(zone[id])
    BY <1>1, <1>5 DEF ScanFix, TypeOK
  <2>2. id \in Owned
    BY <1>1, <2>1, RecordFacts DEF TypeOK, Owned
  <2> QED
    BY <2>1, <2>2 DEF Outdated, Exact
<1>6. ASSUME NEW id \in RecordIDs, Delete(id) \/ \E ip \in IPs : Reuse(id, ip) PROVE FALSE
  BY <1>3, <1>6 DEF Delete, Reuse
<1>7. CASE UNCHANGED vars \/ List \/ NextPage \/ ListDone \/ Return \/ ListFails \/ NoLinks \/ Crash \/ Again
  BY <1>7 DEF vars, List, NextPage, ListDone, Return, ListFails, NoLinks, Crash, Again, Begin
<1>8. ASSUME NEW a \in Args, Ensure(a) PROVE UNCHANGED zone
  BY <1>8 DEF Ensure, Begin
<1>9. ASSUME NEW id \in RecordIDs, ScanDrop(id) \/ ScanKeep(id) PROVE UNCHANGED zone
  BY <1>9 DEF ScanDrop, ScanKeep
<1>10. ASSUME NEW id \in RecordIDs, OthersWrite(id)
       PROVE  Owned' = Owned /\ \A j \in Owned : zone'[j] = zone[j]
  <2>1. \A j \in RecordIDs : /\ zone[j].kind = "mine" => zone'[j] = zone[j]
                             /\ zone'[j].kind = "mine" => zone'[j] = zone[j]
    BY <1>1, <1>10 DEF OthersWrite, TypeOK, Foreign, NoRecord
  <2> QED
    BY <2>1 DEF Owned
<1> QED
  BY <1>4, <1>5, <1>6, <1>7, <1>8, <1>9, <1>10 DEF Next, Provider

(* A call of EnsureDNSARecordSet that finds the records as wanted, one per  *)
(* address, leaves them as they are, for any pages, and after any number of *)
(* failed and interrupted calls.  Assumed: nobody moves the zone's records  *)
(* to other pages during a listing.                                         *)
THEOREM NothingRewritten == ASSUME "shift" \notin Events PROVE Spec => NoNeedlessWrite
<1>1. Init => IInv
  BY InitType DEF Init, IInv, ListSound, KeepSound
<1>2. IInv /\ [Next]_vars => IInv'
  BY IInvStep
<1>3. IInv /\ [Next]_vars =>
        [Exact /\ (\A id \in Owned : ~zone[id].proxied) => UNCHANGED OwnRecords]_<<zone, pc>>
  BY ExactIsLeft
<1> QED
  BY <1>1, <1>2, <1>3, PTL DEF Spec, NoNeedlessWrite
=============================================================================
