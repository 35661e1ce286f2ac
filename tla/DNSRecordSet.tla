---------------------------- MODULE DNSRecordSet ----------------------------
(***************************************************************************)
(* EnsureDNSARecordSet of the DigitalOcean and of the Cloudflare provider  *)
(* (digitalocean.go, cloudflare.go), one action per call to the DNS API.   *)
(* DigitalOcean pages through the whole zone, a page at a time; Cloudflare *)
(* lists the records of the name.  Both fix the records they keep while    *)
(* they go through the list, then turn the ones they do not want into the  *)
(* missing ones, create the rest and delete what is left over.             *)
(*                                                                         *)
(* Any call to the API may fail, with or without having taken effect, and  *)
(* the caller (a reconcile pass or a retry timer) calls again.  Records of *)
(* other names and types are one kind, "foreign".                          *)
(***************************************************************************)
EXTENDS Naturals, FiniteSets

CONSTANTS
    APIs,        \* the providers: "digitalocean", "cloudflare"
    IPs, TTLs,   \* addresses, and the TTLs users write
    NoIP,        \* what a foreign record holds
    RecordIDs,   \* record identifiers, in the order in which a zone is listed
    FirstIDs,    \* the identifiers a record may have at the beginning
    PerPage,     \* dnsRecordsPerPage
    Events,      \* what goes wrong ...
    MaxEvents    \* ... and how often

\* "fail": an API call fails; "crash": the process does; "edit": other
\* arguments; "others": someone else writes other names of the zone, but not
\* while it is being listed; "shift": while it is, too.
AllEvents == {"fail", "crash", "edit", "others", "shift"}

ASSUME ConstantsAssumption ==
    /\ APIs \subseteq {"digitalocean", "cloudflare"}
    /\ NoIP \notin IPs
    /\ RecordIDs \subseteq Nat /\ IsFiniteSet(RecordIDs) /\ FirstIDs \subseteq RecordIDs
    /\ PerPage \in Nat \ {0}
    /\ Events \subseteq AllEvents /\ MaxEvents \in Nat

VARIABLES
    api,       \* the provider this run is about
    zone,      \* the records of the zone
    args,      \* ips and ttl of the last call
    pc,        \* where EnsureDNSARecordSet is
    page,      \* listOptions.Page
    last,      \* res.Links.IsLastPage() of the page listed last
    records,   \* the listed records still to be looked at
    ipSet,     \* addresses for which no record was found yet
    toDelete,  \* records of the name that are not wanted
    result,    \* nil, or the retry schedule of the error
    budget     \* events left

callVars == <<page, last, records, ipSet, toDelete>>
vars == <<api, zone, args, pc, callVars, result, budget>>

NoRecord == [kind |-> "none", data |-> NoIP, ttl |-> 0, proxied |-> FALSE]
Foreign == [kind |-> "foreign", data |-> NoIP, ttl |-> 0, proxied |-> FALSE]
Mine(ip, ttl, proxied) == [kind |-> "mine", data |-> ip, ttl |-> ttl, proxied |-> proxied]
Record == {NoRecord, Foreign} \cup {Mine(ip, t, p) : ip \in IPs, t \in TTLs, p \in BOOLEAN}

\* Only Cloudflare proxies records, and only DigitalOcean lists foreign ones.
Found(a) == {r \in Record : IF a = "cloudflare" THEN r # Foreign ELSE ~r.proxied}

Live == {id \in RecordIDs : zone[id].kind # "none"}
Owned == {id \in RecordIDs : zone[id].kind = "mine"}
Args == [ips : SUBSET IPs, ttl : TTLs]

Event(e) == e \in Events /\ budget > 0 /\ budget' = budget - 1
NoEvent == budget' = budget

Init ==
    /\ api \in APIs
    /\ zone \in [RecordIDs -> Found(api)]
    /\ \A id \in RecordIDs \ FirstIDs : zone[id] = NoRecord
    /\ args \in Args
    /\ pc = "idle" /\ page = 1 /\ last = FALSE /\ records = {} /\ ipSet = {} /\ toDelete = {}
    /\ result = "none" /\ budget = MaxEvents
-----------------------------------------------------------------------------
(* Errors of the API and the retry schedule they ask for.                   *)
Errors == {"notFound", "busy", "temporary", "other"}

\* DigitalOcean reads the status code, Cloudflare does not.
toRetryError(err) ==
    IF err = "temporary" \/ (err = "busy" /\ api = "digitalocean") THEN "fast" ELSE "slow"

\* The call gives up; what it did stays done.
Abort(schedule) ==
    /\ Event("fail")
    /\ pc' = "idle" /\ result' = schedule
    /\ UNCHANGED <<api, args, callVars>>

\* A write that fails may have been applied.
WriteFails(after) == zone' \in {zone, after} /\ \E err \in Errors : Abort(toRetryError(err))
-----------------------------------------------------------------------------
(* The caller.                                                              *)
Begin(a) ==
    /\ pc = "idle"
    /\ args' = a /\ ipSet' = a.ips
    /\ pc' = "list" /\ page' = 1 /\ last' = FALSE /\ records' = {} /\ toDelete' = {} /\ result' = "none"
    /\ UNCHANGED <<api, zone>>

Ensure(a) == a # args /\ Begin(a) /\ Event("edit")

\* The first call, and the next one after an error or a restart.
Again == result # "ok" /\ Begin(args) /\ NoEvent

Crash ==
    /\ pc # "idle" /\ Event("crash")
    /\ pc' = "idle" /\ result' = "none"
    /\ UNCHANGED <<api, zone, args, callVars>>
-----------------------------------------------------------------------------
(* Listing.                                                                 *)
Position(id) == Cardinality({j \in Live : j <= id})
PageOf(p) == {id \in Live : Position(id) \in (p - 1) * PerPage + 1 .. p * PerPage}
IsLastPage(p) == Cardinality(Live) <= p * PerPage

List ==
    /\ pc = "list"
    /\ IF api = "digitalocean"
       THEN records' = PageOf(page) /\ last' = IsLastPage(page)
       ELSE records' = Owned /\ last' = TRUE
    /\ pc' = "scan"
    /\ NoEvent
    /\ UNCHANGED <<api, zone, args, page, ipSet, toDelete, result>>

\* Cloudflare does not classify the error of the listing.
ListFails ==
    /\ pc = "list"
    /\ \E err \in Errors : Abort(IF api = "digitalocean" THEN toRetryError(err) ELSE "slow")
    /\ UNCHANGED zone

\* The order within a page is the API's.
\* Mutant: every record listed under a wanted address is kept.
ScanDropUnlessWanted(id) ==
    /\ pc = "scan" /\ id \in records
    /\ records' = records \ {id}
    /\ toDelete' = IF zone[id].kind = "mine" /\ zone[id].data \notin args.ips
                   THEN toDelete \cup {id} ELSE toDelete
    /\ zone[id].data \notin ipSet
    /\ NoEvent
    /\ UNCHANGED <<api, zone, args, pc, page, last, ipSet, result>>

\* Mutant: the name and the type of a record are not looked at.
ScanDropForeign(id) ==
    /\ pc = "scan" /\ id \in records
    /\ records' = records \ {id}
    /\ zone[id].data \notin ipSet
    /\ toDelete' = toDelete \cup {id}
    /\ NoEvent
    /\ UNCHANGED <<api, zone, args, pc, page, last, ipSet, result>>

\* Neither of the two: a record that is not wanted, or a foreign one.
ScanDrop(id) ==
    /\ pc = "scan" /\ id \in records
    /\ zone[id].data \notin ipSet
    /\ records' = records \ {id}
    /\ toDelete' = IF zone[id].kind = "mine" THEN toDelete \cup {id} ELSE toDelete
    /\ NoEvent
    /\ UNCHANGED <<api, zone, args, pc, page, last, ipSet, result>>

Outdated(r) == r.ttl # args.ttl \/ r.proxied

\* Mutant: an address whose record is kept is not ticked off.
ScanKeepOnly(id) ==
    /\ pc = "scan" /\ id \in records
    /\ zone[id].data \in ipSet /\ ~Outdated(zone[id])
    /\ records' = records \ {id}
    /\ NoEvent
    /\ UNCHANGED <<api, zone, args, pc, page, last, ipSet, toDelete, result>>

ScanKeep(id) ==
    /\ pc = "scan" /\ id \in records
    /\ zone[id].data \in ipSet /\ ~Outdated(zone[id])
    /\ records' = records \ {id}
    /\ ipSet' = ipSet \ {zone[id].data}
    /\ NoEvent
    /\ UNCHANGED <<api, zone, args, pc, page, last, toDelete, result>>

\* The request names no "proxied": whether that is reset is the API's choice.
Edited(id, ip) == {[zone EXCEPT ![id] = Mine(ip, args.ttl, p)] : p \in {FALSE, zone[id].proxied}}

ScanFix(id) ==
    /\ pc = "scan" /\ id \in records
    /\ zone[id].data \in ipSet /\ Outdated(zone[id])
    /\ \E after \in Edited(id, zone[id].data) :
         \/ /\ zone' = after
            /\ records' = records \ {id}
            /\ ipSet' = ipSet \ {zone[id].data}
            /\ NoEvent
            /\ UNCHANGED <<api, args, pc, page, last, toDelete, result>>
         \/ WriteFails(after)

NextPage ==
    /\ pc = "scan" /\ records = {} /\ ~last
    /\ page' = page + 1 /\ pc' = "list"
    /\ NoEvent
    /\ UNCHANGED <<api, zone, args, last, records, ipSet, toDelete, result>>

ListDone ==
    /\ pc = "scan" /\ records = {} /\ last
    /\ pc' = "write"
    /\ NoEvent
    /\ UNCHANGED <<api, zone, args, callVars, result>>

\* "invalid response from DigitalOcean API; no page links"
NoLinks ==
    /\ pc = "scan" /\ records = {} /\ api = "digitalocean"
    /\ Abort("slow")
    /\ UNCHANGED zone
-----------------------------------------------------------------------------
(* Writing.                                                                 *)
Reuse(id, ip) ==
    /\ pc = "write" /\ ip \in ipSet /\ id \in toDelete
    /\ \E after \in Edited(id, ip) :
         \/ /\ zone' = after
            /\ ipSet' = ipSet \ {ip}
            /\ toDelete' = toDelete \ {id}
            /\ NoEvent
            /\ UNCHANGED <<api, args, pc, page, last, records, result>>
         \/ WriteFails(after)

Create(ip) ==
    /\ pc = "write" /\ ip \in ipSet /\ toDelete = {}
    /\ \E id \in RecordIDs \ Live :
         LET after == [zone EXCEPT ![id] = Mine(ip, args.ttl, FALSE)] IN
         \/ /\ zone' = after
            /\ ipSet' = ipSet \ {ip}
            /\ NoEvent
            /\ UNCHANGED <<api, args, pc, page, last, records, toDelete, result>>
         \/ WriteFails(after)

Delete(id) ==
    /\ pc = "write" /\ ipSet = {} /\ id \in toDelete
    /\ LET after == [zone EXCEPT ![id] = NoRecord] IN
         \/ /\ zone' = after
            /\ toDelete' = toDelete \ {id}
            /\ NoEvent
            /\ UNCHANGED <<api, args, pc, page, last, records, ipSet, result>>
         \/ WriteFails(after)

\* Mutant: the records that are not needed any more are left to the next call.
ReturnEarly ==
    /\ pc = "write" /\ ipSet = {}
    /\ pc' = "idle" /\ result' = "ok"
    /\ NoEvent
    /\ UNCHANGED <<api, zone, args, callVars>>

Return ==
    /\ pc = "write" /\ ipSet = {} /\ toDelete = {}
    /\ pc' = "idle" /\ result' = "ok"
    /\ NoEvent
    /\ UNCHANGED <<api, zone, args, callVars>>
-----------------------------------------------------------------------------
(* Another record set of the same zone, written by another goroutine or     *)
(* another program.                                                         *)
OthersWrite(id) ==
    /\ api = "digitalocean"
    /\ Event(IF pc \in {"list", "scan"} THEN "shift" ELSE "others")
    /\ \/ zone[id].kind = "none" /\ zone' = [zone EXCEPT ![id] = Foreign]
       \/ zone[id].kind = "foreign" /\ zone' = [zone EXCEPT ![id] = NoRecord]
    /\ UNCHANGED <<api, args, pc, callVars, result>>

Provider ==
    \/ List \/ NextPage \/ ListDone \/ Return
    \/ \E id \in RecordIDs : ScanDrop(id) \/ ScanKeep(id) \/ ScanFix(id) \/ Delete(id)
    \/ \E ip \in IPs : Create(ip) \/ \E id \in RecordIDs : Reuse(id, ip)

Next ==
    \/ Provider
    \/ Again \/ (\E a \in Args : Ensure(a))
    \/ ListFails \/ NoLinks \/ Crash
    \/ \E id \in RecordIDs : OthersWrite(id)

Spec == Init /\ [][Next]_vars

\* The goroutine that calls goes on, and calls again after an error.
FairSpec == Spec /\ WF_vars(Provider) /\ WF_vars(Again)
-----------------------------------------------------------------------------
TypeOK ==
    /\ api \in APIs
    /\ zone \in [RecordIDs -> Record]
    /\ args \in Args
    /\ pc \in {"idle", "list", "scan", "write"} /\ page \in Nat /\ last \in BOOLEAN
    /\ records \subseteq RecordIDs /\ ipSet \subseteq IPs /\ toDelete \subseteq RecordIDs
    /\ result \in {"none", "ok", "fast", "slow"}
    /\ budget \in 0 .. MaxEvents

\* One record per wanted address, with the wanted TTL, and no other.
Exact ==
    /\ {zone[id].data : id \in Owned} = args.ips
    /\ Cardinality(Owned) = Cardinality(args.ips)
    /\ \A id \in Owned : zone[id].ttl = args.ttl

Served(ip) == {zone[id].ttl : id \in {id \in Owned : zone[id].data = ip}}

Promise == INSTANCE RecordPromise WITH
    served <- [ip \in IPs |-> Served(ip)],
    wanted <- args,
    state  <- IF pc # "idle" THEN "busy" ELSE IF result = "ok" THEN "ok" ELSE "failed"

(* Refinement: both providers keep RecordPromise, whatever              *)
(* records they find and wherever a call fails, is lost or crashes: they    *)
(* report success only when the record set is exactly the one asked for,    *)
(* and meanwhile take no wanted address out of service.                     *)
KeepsPromise == Promise!Spec

(* EnsureDNSARecordSet never touches a record of another name or type of    *)
(* the zone it pages through: what it is about to reuse or to delete are    *)
(* records of its own name, and stay so until it does.                      *)
OnlyOwn == pc # "idle" => toDelete \subseteq Owned

\* The records that the call has looked at, and those of them it keeps.
Looked ==
    CASE pc = "list" -> {id \in Live : Position(id) <= (page - 1) * PerPage}
      [] pc = "scan" /\ api = "digitalocean" -> {id \in Live : Position(id) <= page * PerPage} \ records
      [] pc = "scan" /\ api # "digitalocean" -> Owned \ records
      [] OTHER -> Live
Kept == (Owned \cap Looked) \ toDelete

\* No record is listed twice, and none is left out.
ListSound ==
    /\ page # 0
    /\ pc \in {"list", "scan"} /\ api # "digitalocean" => page = 1
    /\ pc = "scan" => /\ records \subseteq IF api = "digitalocean" THEN PageOf(page) ELSE Owned
                      /\ last <=> (api = "digitalocean" => IsLastPage(page))

\* A wanted address is missing, or has a record that is kept; the record of
\* an address that is still missing is never among those to be deleted.
KeepSound ==
    pc # "idle" =>
        /\ toDelete \subseteq Owned \cap Looked /\ ipSet \subseteq args.ips
        /\ \A id \in toDelete : zone[id].data \notin ipSet
        /\ \A id \in Kept : zone[id].data \in args.ips \ ipSet /\ zone[id].ttl = args.ttl
        /\ \A ip \in args.ips \ ipSet : \E id \in Kept : zone[id].data = ip

IInv == TypeOK /\ ListSound /\ KeepSound

OwnRecords == [id \in Owned |-> zone[id]]

(* A call that finds one record per address, all up to date, adds, removes  *)
(* and changes none, however the pages it reads them from are cut and       *)
(* wherever an earlier call was interrupted.                                *)
NoNeedlessWrite ==
    [][Exact /\ (\A id \in Owned : ~zone[id].proxied) => UNCHANGED OwnRecords]_<<zone, pc>>

(* Failed, lost and interrupted calls leave nothing that the next ones do   *)
(* not repair: once calls stop failing, the record set is and stays exactly *)
(* as asked, without duplicates.                                            *)
Converges == <>[](result = "ok" /\ Exact)
=============================================================================
