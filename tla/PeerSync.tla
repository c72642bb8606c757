------------------------------ MODULE PeerSync ------------------------------
(***************************************************************************)
(* The history-synchronisation scheduler (internal/peersync).  One Run     *)
(* loop selects among connection events, a periodic ticker and shutdown;   *)
(* every sync runs in a goroutine of its own, which waits out the connect  *)
(* delay, claims the peer under the mutex, queues for one of MaxParallel   *)
(* semaphore slots, calls Sync and records the outcome.                    *)
(*                                                                         *)
(* Time is counted in ticks.  lastOK and lastFail are kept as ages: okAge  *)
(* is the time since the last success (Never when there is none, older     *)
(* than anything), failAge the time since the last failure.                *)
(***************************************************************************)
EXTENDS Integers, FiniteSets, Sequences

CONSTANTS
    Peers,        \* remote nodes
    NoPeer,       \* "no peer": the owner field of an idle goroutine
    Workers,      \* goroutines started by wg.Go (bound: how many live at once)
    MaxParallel,  \* Config.MaxParallel, the capacity of sem
    PerRound,     \* Config.PerRound
    ResyncAfter, RetryAfter, Interval,   \* Config durations, in ticks
    Old,          \* bound: okAge saturates here
    FailOld,      \* bound: failAge saturates here ("never" or long ago)
    QueueCap,     \* capacity of Discovery.peerConnected (64 in the code)
    Healthy,      \* peers whose sync succeeds while they stay connected
    Broken,       \* peers whose sync always fails
    Flaky         \* peers whose connection may drop (bound on the environment)

ASSUME SchedulerAssumption ==
    /\ IsFiniteSet(Workers)
    /\ NoPeer \notin Peers
    /\ {MaxParallel, PerRound, ResyncAfter, RetryAfter, Interval, QueueCap} \subseteq Nat \ {0}
    /\ Old \in Nat /\ FailOld \in Nat
    /\ Old >= ResyncAfter /\ Old >= Interval /\ FailOld >= RetryAfter
    /\ Healthy \subseteq Peers /\ Broken \subseteq Peers /\ Healthy \cap Broken = {}

VARIABLES
    connected,    \* peers the host is connected to
    support,      \* what identify has told about each peer
    events,       \* Discovery.peerConnected, a bounded channel
    okAge, failAge, running,   \* peerState of each peer
    older,        \* <<p, q>>: p's last success is before q's (both ages may saturate)
    pc, who,      \* each goroutine: where it is and for which peer
    sem,          \* slots taken in the semaphore channel
    ctxDone,      \* the context of Run is cancelled
    loop,         \* the Run loop: "select", "waiting" in wg.Wait, or "stopped"
    cands,        \* peers the current round has still to claim
    timer, tickPending   \* the ticker and its one-slot channel

peerVars == <<okAge, failAge, running, older>>
envVars  == <<connected, support, events>>
timeVars == <<timer, tickPending>>
vars == <<envVars, peerVars, pc, who, sem, ctxDone, loop, cands, timeVars>>

Never == Old + 1

TypeOK ==
    /\ connected \subseteq Peers
    /\ support \in [Peers -> {"unknown", "yes", "no"}]
    /\ events \in Seq(Peers)
    /\ okAge \in [Peers -> 0..Never]
    /\ failAge \in [Peers -> 0..FailOld]
    /\ running \in [Peers -> BOOLEAN]
    /\ older \subseteq Peers \X Peers
    /\ pc \in [Workers -> {"idle", "delay", "sem", "sync", "ok", "fail"}]
    /\ who \in [Workers -> Peers \cup {NoPeer}]
    /\ sem \in 0..MaxParallel
    /\ ctxDone \in BOOLEAN
    /\ loop \in {"select", "waiting", "stopped"}
    /\ cands \subseteq Peers
    /\ timer \in 0..Interval
    /\ tickPending \in BOOLEAN

Init ==
    /\ connected = {}
    /\ support = [p \in Peers |-> "unknown"]
    /\ events = <<>>
    /\ okAge = [p \in Peers |-> Never]
    /\ failAge = [p \in Peers |-> FailOld]
    /\ running = [p \in Peers |-> FALSE]
    /\ older = {}
    /\ pc = [w \in Workers |-> "idle"]
    /\ who = [w \in Workers |-> NoPeer]
    /\ sem = 0
    /\ ctxDone = FALSE
    /\ loop = "select"
    /\ cands = {}
    /\ timer = 0
    /\ tickPending = FALSE

-----------------------------------------------------------------------------
(* Scheduling decisions. *)

\* dueLocked: not already running, minGap since the last success, RetryAfter
\* since a failure more recent than that success.
Due(p, minGap) ==
    /\ ~running[p]
    /\ okAge[p] >= minGap
    /\ ~(failAge[p] < okAge[p] /\ failAge[p] < RetryAfter)

\* The goroutines that hold the claim on p: from claim to finish.
Owns(w, p) == who[w] = p /\ pc[w] \in {"sem", "sync", "ok", "fail"}

Idle(w) == pc[w] = "idle"

\* Mutant of Candidates: the sort is dropped.
UnsortedCandidates ==
    LET due == {p \in connected : support[p] = "yes" /\ Due(p, Interval)}
    IN  {C \in SUBSET due :
            Cardinality(C) = (IF Cardinality(due) < PerRound
                              THEN Cardinality(due) ELSE PerRound)}

\* The rounds a stable sort by lastOK can produce: the PerRound due peers that
\* have gone longest without a sync, ties in any order.
Candidates ==
    LET due == {p \in connected : support[p] = "yes" /\ Due(p, Interval)}
    IN  {C \in SUBSET due :
            /\ Cardinality(C) = (IF Cardinality(due) < PerRound
                                 THEN Cardinality(due) ELSE PerRound)
            /\ \A c \in C, d \in due \ C : <<d, c>> \notin older}

\* Mutant of Claim: checks but does not mark.
ClaimUnmarked(p) == UNCHANGED running

Claim(p) == running' = [running EXCEPT ![p] = TRUE]

-----------------------------------------------------------------------------
(* The environment: connections, identify, time and shutdown. *)

\* A connection event goes to the loop through a bounded channel and is
\* dropped when the channel is full.
Connect(p) ==
    /\ p \notin connected
    /\ connected' = connected \cup {p}
    /\ events' = IF Len(events) < QueueCap THEN Append(events, p) ELSE events
    /\ UNCHANGED <<support, peerVars, pc, who, sem, ctxDone, loop, cands, timeVars>>

Disconnect(p) ==
    /\ p \in connected \cap Flaky
    /\ connected' = connected \ {p}
    /\ UNCHANGED <<support, events, peerVars, pc, who, sem, ctxDone, loop, cands, timeVars>>

Identify(p) ==
    /\ support[p] = "unknown" /\ p \in connected
    /\ \E s \in {"yes", "no"} : support' = [support EXCEPT ![p] = s]
    /\ UNCHANGED <<connected, events, peerVars, pc, who, sem, ctxDone, loop, cands, timeVars>>

\* One tick of time.  The loop never blocks, so it serves a ticker event, and
\* finishes a round it began, before the next tick.
Tick ==
    /\ loop = "select" => ~tickPending /\ cands = {}
    /\ okAge' = [p \in Peers |-> IF okAge[p] < Old THEN okAge[p] + 1 ELSE okAge[p]]
    /\ failAge' = [p \in Peers |-> IF failAge[p] < FailOld THEN failAge[p] + 1 ELSE failAge[p]]
    /\ timer' = IF timer + 1 >= Interval THEN 0 ELSE timer + 1
    /\ tickPending' = (tickPending \/ timer + 1 >= Interval)
    /\ UNCHANGED <<envVars, running, older, pc, who, sem, ctxDone, loop, cands>>

Cancel ==
    /\ ~ctxDone
    /\ ctxDone' = TRUE
    /\ UNCHANGED <<envVars, peerVars, pc, who, sem, loop, cands, timeVars>>

-----------------------------------------------------------------------------
(* The Run loop. *)

\* case p := <-connected: onConnect starts a goroutine for p.
OnConnect(w) ==
    /\ loop = "select" /\ cands = {} /\ events # <<>>
    /\ Idle(w)
    /\ events' = Tail(events)
    /\ pc' = [pc EXCEPT ![w] = "delay"]
    /\ who' = [who EXCEPT ![w] = Head(events)]
    /\ UNCHANGED <<connected, support, peerVars, sem, ctxDone, loop, cands, timeVars>>

\* case <-t.C: round picks its candidates under the mutex, then releases it.
RoundStart ==
    /\ loop = "select" /\ cands = {} /\ tickPending
    /\ tickPending' = FALSE
    /\ cands' \in Candidates
    /\ UNCHANGED <<envVars, peerVars, pc, who, sem, ctxDone, loop, timer>>

\* round, one candidate: claimed under the mutex again, since a connection
\* goroutine may have claimed it in between; skipped if it is no longer due.
RoundClaim(p, w) ==
    /\ p \in cands
    /\ Due(p, Interval) /\ Idle(w)
    /\ Claim(p)
    /\ pc' = [pc EXCEPT ![w] = "sem"]
    /\ who' = [who EXCEPT ![w] = p]
    /\ cands' = cands \ {p}
    /\ UNCHANGED <<envVars, okAge, failAge, older, sem, ctxDone, loop, timeVars>>

RoundSkip(p) ==
    /\ p \in cands
    /\ ~Due(p, Interval)
    /\ cands' = cands \ {p}
    /\ UNCHANGED <<envVars, peerVars, pc, who, sem, ctxDone, loop, timeVars>>

\* case <-ctx.Done(): wait for every goroutine, then return.
LoopExit ==
    /\ loop = "select" /\ cands = {} /\ ctxDone
    /\ loop' = "waiting"
    /\ UNCHANGED <<envVars, peerVars, pc, who, sem, ctxDone, cands, timeVars>>

\* Mutant of WaitDone: returns without waiting for the goroutines.
WaitNobody ==
    /\ loop = "waiting"
    /\ loop' = "stopped"
    /\ UNCHANGED <<envVars, peerVars, pc, who, sem, ctxDone, cands, timeVars>>

WaitDone ==
    /\ loop = "waiting" /\ \A w \in Workers : Idle(w)
    /\ loop' = "stopped"
    /\ UNCHANGED <<envVars, peerVars, pc, who, sem, ctxDone, cands, timeVars>>

-----------------------------------------------------------------------------
(* The goroutines. *)

Return(w) ==
    /\ pc' = [pc EXCEPT ![w] = "idle"]
    /\ who' = [who EXCEPT ![w] = NoPeer]

\* onConnect after ConnectDelay: claim the peer, unless it is known not to
\* speak the protocol or a sync is not due.
DelayClaim(w) ==
    /\ pc[w] = "delay"
    /\ support[who[w]] # "no" /\ Due(who[w], ResyncAfter)
    /\ Claim(who[w])
    /\ pc' = [pc EXCEPT ![w] = "sem"]
    /\ UNCHANGED <<envVars, okAge, failAge, older, who, sem, ctxDone, loop, cands, timeVars>>

DelayGiveUp(w) ==
    /\ pc[w] = "delay"
    /\ ctxDone \/ support[who[w]] = "no" \/ ~Due(who[w], ResyncAfter)
    /\ Return(w)
    /\ UNCHANGED <<envVars, peerVars, sem, ctxDone, loop, cands, timeVars>>

\* run: take a semaphore slot and call Sync ...
AcquireSem(w) ==
    /\ pc[w] = "sem" /\ sem < MaxParallel
    /\ sem' = sem + 1
    /\ pc' = [pc EXCEPT ![w] = "sync"]
    /\ UNCHANGED <<envVars, peerVars, who, ctxDone, loop, cands, timeVars>>

\* ... or give up when the context ends first.
SkipSem(w) ==
    /\ pc[w] = "sem" /\ ctxDone
    /\ pc' = [pc EXCEPT ![w] = "fail"]
    /\ UNCHANGED <<envVars, peerVars, who, sem, ctxDone, loop, cands, timeVars>>

\* Sync returns, or panics and counts as failed; the slot is released before
\* the outcome is recorded.
SyncEnd(w) ==
    /\ pc[w] = "sync"
    /\ \E res \in {"ok", "fail"} :
        /\ res = "ok" => who[w] \notin Broken
        /\ res = "fail" => ctxDone \/ who[w] \notin Healthy \cap connected
        /\ pc' = [pc EXCEPT ![w] = res]
    /\ sem' = sem - 1
    /\ UNCHANGED <<envVars, peerVars, who, ctxDone, loop, cands, timeVars>>

\* The order of last successes once p has just had one.
MadeLatest(p) ==
    {e \in older : p \notin {e[1], e[2]}} \cup ((Peers \ {p}) \X {p})

\* Mutant of Finish: a failed sync never signals the wait group.
FinishWithoutDone(w) ==
    /\ pc[w] \in {"ok", "fail"}
    /\ running' = [running EXCEPT ![who[w]] = FALSE]
    /\ IF pc[w] = "ok" THEN Return(w) ELSE UNCHANGED <<pc, who>>
    /\ UNCHANGED <<envVars, okAge, failAge, older, sem, ctxDone, loop, cands, timeVars>>

\* finish: clear running and stamp the outcome.
Finish(w) ==
    /\ pc[w] \in {"ok", "fail"}
    /\ running' = [running EXCEPT ![who[w]] = FALSE]
    /\ \/ /\ pc[w] = "ok"
          /\ okAge' = [okAge EXCEPT ![who[w]] = 0]
          /\ older' = MadeLatest(who[w])
          /\ UNCHANGED failAge
       \/ /\ pc[w] = "fail"
          /\ failAge' = [failAge EXCEPT ![who[w]] = 0]
          /\ UNCHANGED <<okAge, older>>
    /\ Return(w)
    /\ UNCHANGED <<envVars, sem, ctxDone, loop, cands, timeVars>>

-----------------------------------------------------------------------------
Environment ==
    \/ \E p \in Peers : Connect(p) \/ Disconnect(p) \/ Identify(p)
    \/ Tick
    \/ Cancel

RunLoop ==
    \/ \E w \in Workers : OnConnect(w)
    \/ RoundStart
    \/ \E p \in Peers : RoundSkip(p) \/ \E w \in Workers : RoundClaim(p, w)
    \/ LoopExit
    \/ WaitDone

Goroutine(w) ==
    \/ DelayClaim(w)
    \/ DelayGiveUp(w)
    \/ AcquireSem(w)
    \/ SkipSem(w)
    \/ SyncEnd(w)
    \/ Finish(w)

Next ==
    \/ Environment
    \/ RunLoop
    \/ \E w \in Workers : Goroutine(w)

Spec == Init /\ [][Next]_vars

\* Goroutines are scheduled, Sync ends (its streams carry deadlines), time
\* passes.  Go serves senders blocked on a channel in order, and a select picks
\* at random among its ready cases: neither starves a case ready again and
\* again, hence strong fairness there.
Fairness ==
    /\ WF_vars(Tick)
    /\ SF_vars(RoundStart)
    /\ SF_vars(\E w \in Workers : OnConnect(w))
    /\ SF_vars(LoopExit)
    /\ WF_vars(WaitDone)
    /\ \A p \in Peers : WF_vars(RoundSkip(p) \/ \E w \in Workers : RoundClaim(p, w))
    /\ \A w \in Workers :
        /\ WF_vars(DelayClaim(w) \/ DelayGiveUp(w))
        /\ SF_vars(AcquireSem(w))
        /\ WF_vars(AcquireSem(w) \/ SkipSem(w))
        /\ WF_vars(SyncEnd(w))
        /\ WF_vars(Finish(w))

FairSpec == Spec /\ Fairness

-----------------------------------------------------------------------------
(* Properties. *)

\* Never more than MaxParallel syncs at once: what Run promises when hundreds
\* of peers connect together.  (sem counts slots; this counts goroutines.)
AtMostMaxParallel == Cardinality({w \in Workers : pc[w] = "sync"}) <= MaxParallel

\* Two syncs with one peer never overlap, whichever of onConnect and round
\* started them.
OneSyncPerPeer ==
    \A p \in Peers : \A v, w \in Workers : Owns(v, p) /\ Owns(w, p) => v = w

\* Run returns only after every sync it started: nothing uses the stores
\* once shutdown goes on to close them.
NothingAfterStop == loop = "stopped" => \A w \in Workers : Idle(w)

\* While a sync runs, its peer's last success stays at least the shorter of
\* the two gaps old: the wait for a slot cannot smuggle a second one in.
NotTooSoon ==
    \A w \in Workers, p \in Peers :
        Owns(w, p) => okAge[p] >= ResyncAfter \/ okAge[p] >= Interval

\* A cancelled scheduler stops.
Stops == ctxDone ~> loop = "stopped"

\* Anti-entropy: a healthy peer that stays connected and speaks the protocol is
\* synced again and again, though its connection never drops, unless syncs with
\* other peers fail again and again: rounds are ordered by the last success, so
\* peers that fail can take every place in them.
AntiEntropy ==
    \A p \in Healthy :
        []<>(\/ ctxDone \/ p \notin connected \/ support[p] # "yes" \/ okAge[p] = 0
             \/ \E w \in Workers : pc[w] = "fail")
=============================================================================
