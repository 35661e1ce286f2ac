---------------------------- MODULE LeaderElection ----------------------------
(***************************************************************************)
(* The replicas of flipop (cmd/flipop/main.go) and how they elect a leader *)
(* (leaderelection.go).  In each process four goroutines share childLock:  *)
(* the main one in l.Run, the one client-go starts for OnStartedLeading,   *)
(* the one that waits for ctx, and the children.  l.Run itself is          *)
(* client-go's: acquire, start OnStartedLeading in a goroutine, renew, and *)
(* at the end release the lease (ReleaseOnCancel) and then call            *)
(* OnStoppedLeading.                                                       *)
(***************************************************************************)
EXTENDS Naturals, FiniteSets

CONSTANTS
    Replicas, NoReplica,
    Runs,           \* the children: flipCtrl.Run and nodednsCtrl.Run
    Credentials,    \* the providers every replica has credentials for
    Scenarios,      \* the sets of things that may happen together ...
    MaxEvents       \* ... and how many of them do

\* "signal": SIGTERM, and once more; "renew": a leader cannot renew its lease
\* in time; "crash": the process dies; "boot": it cannot set itself up.
AllEvents == {"signal", "renew", "crash", "boot"}

ASSUME ConstantsAssumption ==
    /\ NoReplica \notin Replicas /\ Runs # {}
    /\ Credentials \in [Replicas -> SUBSET {"digitalocean", "cloudflare"}]
    /\ Scenarios \subseteq SUBSET AllEvents /\ MaxEvents \in Nat

VARIABLES
    lease,    \* the replica that the Lease names, until it lapses
    rep,      \* every replica
    events, budget

vars == <<lease, rep, events, budget>>

\* signals: how many it got, the first cancels ctx; main: where l.Run is;
\* start: the goroutine of OnStartedLeading; shut: the one waiting for ctx.
Fresh(main) ==
    [main |-> main, signals |-> 0, shut |-> "wait", leaderDone |-> FALSE, start |-> "none",
     lock |-> "free", childCtx |-> "nil", running |-> {}]

Event(e) == e \in events /\ budget > 0 /\ budget' = budget - 1
NoEvent == budget' = budget

Init ==
    /\ lease = NoReplica
    /\ rep = [r \in Replicas |-> Fresh("boot")]
    /\ events \in Scenarios /\ budget = MaxEvents

Set(r, s) == rep' = [rep EXCEPT ![r] = s]
Up(r) == rep[r].main \notin {"boot", "exited"}
ctxDone(r) == rep[r].signals > 0
ChildDone(r) == ctxDone(r) \/ rep[r].childCtx = "cancelled" \/ rep[r].childCtx = "nil"
-----------------------------------------------------------------------------
(* runMain, up to LeaderElection: Registry.Init wants one provider.         *)
Boot(r) ==
    /\ rep[r].main = "boot"
    /\ \/ Credentials[r] # {} /\ NoEvent /\ Set(r, Fresh("acquire"))
       \/ Credentials[r] = {} /\ NoEvent /\ Set(r, Fresh("exited"))
       \/ Event("boot") /\ Set(r, Fresh("exited"))
    /\ UNCHANGED <<lease, events>>

\* signalContext: the first signal cancels ctx, the second is os.Exit.
Signal(r) ==
    /\ Up(r) /\ Event("signal")
    /\ Set(r, IF rep[r].signals = 0 THEN [rep[r] EXCEPT !.signals = 1] ELSE Fresh("exited"))
    /\ UNCHANGED <<lease, events>>

Crash(r) ==
    /\ Up(r) /\ Event("crash")
    /\ Set(r, Fresh("exited"))
    /\ UNCHANGED <<lease, events>>

\* The Deployment starts it again; without credentials it only fails again.
Restart(r) ==
    /\ rep[r].main = "exited" /\ Credentials[r] # {}
    /\ Set(r, Fresh("boot"))
    /\ NoEvent
    /\ UNCHANGED <<lease, events>>
-----------------------------------------------------------------------------
(* l.Run, of client-go.                                                     *)
Acquire(r) ==
    /\ rep[r].main = "acquire" /\ ~rep[r].leaderDone
    /\ lease = NoReplica
    /\ lease' = r
    /\ Set(r, [rep[r] EXCEPT !.main = "renew", !.start = "spawned"])
    /\ NoEvent
    /\ UNCHANGED events

AcquireCancelled(r) ==
    /\ rep[r].main = "acquire" /\ rep[r].leaderDone
    /\ Set(r, [rep[r] EXCEPT !.main = "stopped"])
    /\ NoEvent
    /\ UNCHANGED <<lease, events>>

RenewCancelled(r) ==
    /\ rep[r].main = "renew" /\ rep[r].leaderDone
    /\ Set(r, [rep[r] EXCEPT !.main = "release"])
    /\ NoEvent
    /\ UNCHANGED <<lease, events>>

\* RenewDeadline passes.
RenewFails(r) ==
    /\ rep[r].main = "renew" /\ Event("renew")
    /\ Set(r, [rep[r] EXCEPT !.main = "release"])
    /\ UNCHANGED <<lease, events>>

\* The release of the lease may fail as the renewal did.
Release(r) ==
    /\ rep[r].main = "release"
    /\ \/ lease' = IF lease = r THEN NoReplica ELSE lease
       \/ "renew" \in events /\ UNCHANGED lease
    /\ Set(r, [rep[r] EXCEPT !.main = "stopped"])
    /\ NoEvent
    /\ UNCHANGED events

\* LeaseDuration passes without a renewal.
Lapse ==
    /\ lease # NoReplica /\ rep[lease].main # "renew"
    /\ lease' = NoReplica
    /\ NoEvent
    /\ UNCHANGED <<rep, events>>
-----------------------------------------------------------------------------
(* The callbacks.                                                           *)
\* ctx.Err() == nil, under childLock.
MayStart(r) == ~ctxDone(r)

OnStartedLeading(r) ==
    /\ rep[r].start = "spawned" /\ rep[r].lock = "free" /\ Up(r)
    /\ Set(r, IF MayStart(r)
              THEN [rep[r] EXCEPT !.start = "done", !.childCtx = "live", !.running = Runs]
              ELSE [rep[r] EXCEPT !.start = "done"])
    /\ NoEvent
    /\ UNCHANGED <<lease, events>>

OnStoppedLeading(r) ==
    /\ rep[r].main = "stopped" /\ rep[r].lock = "free"
    /\ Set(r, IF rep[r].childCtx = "nil"
              THEN [rep[r] EXCEPT !.main = "returned"]
              ELSE [rep[r] EXCEPT !.main = "join", !.lock = "main", !.childCtx = "nil"])
    /\ NoEvent
    /\ UNCHANGED <<lease, events>>

\* wg.Wait() of OnStoppedLeading, and l.Run returns.
Joined(r) ==
    /\ rep[r].main = "join" /\ rep[r].running = {}
    /\ Set(r, [rep[r] EXCEPT !.main = "returned", !.lock = "free"])
    /\ NoEvent
    /\ UNCHANGED <<lease, events>>

\* A child returns once its context is done.
ChildReturns(r, k) ==
    /\ k \in rep[r].running /\ ChildDone(r) /\ Up(r)
    /\ Set(r, [rep[r] EXCEPT !.running = @ \ {k}])
    /\ NoEvent
    /\ UNCHANGED <<lease, events>>

\* The goroutine of a child reads childCtx when it is scheduled, and
\* OnStoppedLeading may have set it to nil by then: the child panics.  Which
\* children have begun is not recorded.
ChildGetsNil(r) ==
    /\ rep[r].main = "join" /\ rep[r].childCtx = "nil" /\ rep[r].running # {}
    /\ Set(r, Fresh("exited"))
    /\ NoEvent
    /\ UNCHANGED <<lease, events>>

\* Mutant: main waits for a signal.
ExitAfterSignal(r) ==
    /\ rep[r].main = "returned" /\ ctxDone(r)
    /\ Set(r, Fresh("exited"))
    /\ NoEvent
    /\ UNCHANGED <<lease, events>>

\* LeaderElection returns, and main with it.
Exit(r) ==
    /\ rep[r].main = "returned"
    /\ Set(r, Fresh("exited"))
    /\ NoEvent
    /\ UNCHANGED <<lease, events>>
-----------------------------------------------------------------------------
(* "leaderelection canceled context; waiting for children"                  *)
\* Mutant: leaderCtx is cancelled together with ctx.
ShutdownAtOnce(r) ==
    /\ rep[r].shut = "wait" /\ ctxDone(r) /\ rep[r].lock = "free" /\ Up(r)
    /\ Set(r, [rep[r] EXCEPT !.shut = "done", !.leaderDone = TRUE,
                             !.childCtx = IF @ = "nil" THEN @ ELSE "cancelled"])
    /\ NoEvent
    /\ UNCHANGED <<lease, events>>

\* Mutant: the early return forgets to unlock.
ShutdownKeepsLock(r) ==
    /\ rep[r].shut = "wait" /\ ctxDone(r) /\ rep[r].lock = "free" /\ Up(r)
    /\ Set(r, IF rep[r].childCtx = "nil"
              THEN [rep[r] EXCEPT !.shut = "done", !.leaderDone = TRUE, !.lock = "shut"]
              ELSE [rep[r] EXCEPT !.shut = "join", !.childCtx = "cancelled", !.lock = "shut"])
    /\ NoEvent
    /\ UNCHANGED <<lease, events>>

Shutdown(r) ==
    /\ rep[r].shut = "wait" /\ ctxDone(r) /\ rep[r].lock = "free" /\ Up(r)
    /\ Set(r, IF rep[r].childCtx = "nil"
              THEN [rep[r] EXCEPT !.shut = "done", !.leaderDone = TRUE]
              ELSE [rep[r] EXCEPT !.shut = "join", !.childCtx = "cancelled", !.lock = "shut"])
    /\ NoEvent
    /\ UNCHANGED <<lease, events>>

ShutdownJoined(r) ==
    /\ rep[r].shut = "join" /\ rep[r].running = {} /\ Up(r)
    /\ Set(r, [rep[r] EXCEPT !.shut = "done", !.lock = "free", !.leaderDone = TRUE])
    /\ NoEvent
    /\ UNCHANGED <<lease, events>>

Process(r) ==
    \/ Boot(r) \/ Restart(r)
    \/ AcquireCancelled(r) \/ RenewCancelled(r) \/ Release(r)
    \/ OnStoppedLeading(r) \/ Joined(r) \/ Exit(r)
Callbacks(r) ==
    \/ OnStartedLeading(r) \/ Shutdown(r) \/ ShutdownJoined(r)
    \/ ChildGetsNil(r) \/ \E k \in Runs : ChildReturns(r, k)

Next == Lapse \/ \E r \in Replicas : Process(r) \/ Callbacks(r) \/ Acquire(r)
                                 \/ RenewFails(r) \/ Signal(r) \/ Crash(r)

Spec == Init /\ [][Next]_vars

\* Goroutines run, the clock does, and children return when their context is
\* done.  Which replica gets a free lease is left open.
FairSpec ==
    /\ Spec /\ WF_vars(Lapse) /\ WF_vars(\E r \in Replicas : Acquire(r))
    /\ \A r \in Replicas : WF_vars(Process(r)) /\ WF_vars(Callbacks(r))
-----------------------------------------------------------------------------
Replica ==
    [main : {"boot", "acquire", "renew", "release", "stopped", "join", "returned", "exited"},
     signals : {0, 1}, shut : {"wait", "join", "done"}, leaderDone : BOOLEAN,
     start : {"none", "spawned", "done"}, lock : {"free", "main", "shut"},
     childCtx : {"nil", "live", "cancelled"}, running : SUBSET Runs]

TypeOK ==
    /\ lease \in Replicas \cup {NoReplica}
    /\ rep \in [Replicas -> Replica]
    /\ events \in Scenarios /\ budget \in 0 .. MaxEvents

(* "By waiting for children to finish, we can safely use ReleaseOnCancel":  *)
(* a replica whose children run holds the lease, so that no two replicas    *)
(* reconcile at the same time, and LeaderElection returns, and with it the  *)
(* process, only after the children have; wherever signals, crashes and the *)
(* late goroutine of OnStartedLeading fall, as long as renewals succeed.    *)
ChildrenHoldLease ==
    "renew" \notin events =>
        \A r \in Replicas : rep[r].running # {} => lease = r /\ rep[r].main # "returned"

\* The rest of the inductive invariant.  A lease that is being renewed is
\* held; children run only meanwhile.  leaderCtx is cancelled last: after it
\* is, no goroutine of OnStartedLeading can start children any more.
LeaseHeld(r) ==
    LET s == rep[r] IN
    /\ s.main = "renew" => lease = r
    /\ s.running # {} => s.main = "renew" /\ s.childCtx # "nil"
    /\ s.start = "spawned" => s.main \notin {"boot", "acquire", "exited"}
    /\ s.main \in {"release", "stopped", "join", "returned"} => s.leaderDone
    /\ s.shut = "join" => ctxDone(r)
    /\ s.leaderDone => ctxDone(r) /\ s.running = {}

IInv == TypeOK /\ ("renew" \notin events => \A r \in Replicas : LeaseHeld(r))

(* A signal ends the process, also when it comes while it acquires, starts  *)
(* or loses the lease.                                                      *)
SignalEnds == \A r \in Replicas : (Up(r) /\ ctxDone(r)) ~> ~Up(r)

(* In the end one replica runs all children and goes on doing so, whatever  *)
(* happened before to leases, leaders and processes.                        *)
SomeoneLeads == <>[](\E r \in Replicas : rep[r].running = Runs /\ ~ChildDone(r))
-----------------------------------------------------------------------------
(* What does not hold once a renewal fails.                                 *)
\* At most one replica reconciles.
OneLeader == \A r, s \in Replicas : rep[r].running # {} /\ rep[s].running # {} => r = s

\* "LeaderElection runs the "run" command when it is the leader, and
\* terminates it when it is not": nothing is started after OnStoppedLeading.
NoLateStart == \A r \in Replicas : rep[r].main = "returned" => rep[r].running = {}
=============================================================================
