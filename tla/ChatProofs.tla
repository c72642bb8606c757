----------------------------- MODULE ChatProofs -----------------------------
(***************************************************************************)
(* Proofs about the chat topic, in three parts that share no state.        *)
(*                                                                         *)
(* 1. The scheduler of the syncs, for any peers, goroutines and limits.    *)
(*    The four safety properties of PeerSync follow from one inductive     *)
(*    invariant: the mark `running' agrees with the goroutines that hold a *)
(*    claim, the semaphore counts the goroutines inside Sync, and a Run    *)
(*    loop that has left the select starts nothing more.                   *)
(*                                                                         *)
(* 2. The log and the screen, for any number of messages and any limits.   *)
(*    Of every message the node keeps it is known where it is: on the      *)
(*    screen, in the channel, in the hands of a goroutine that will show   *)
(*    it, announced by the signal, or dropped by a full channel.           *)
(*                                                                         *)
(* 3. The limits on authors, for any table of rules and any windows.  What *)
(*    was let through is compared with what the memory and the file still  *)
(*    count, at every time from now on, so that pruning, saving and        *)
(*    starting again can only make the node stricter.                      *)
(***************************************************************************)
EXTENDS PeerSync, ChatLog, AuthorLimits, FilterProofs, SequenceTheorems

-----------------------------------------------------------------------------
(* Part 1: the scheduler of the syncs.                                      *)
\* A goroutine that is not idle works for a real peer.
Employed == \A w \in Workers : ~Idle(w) => who[w] \in Peers

\* A claimed peer is marked running.
MarkedRunning == \A w \in Workers, p \in Peers : Owns(w, p) => running[p]

Syncing == {w \in Workers : pc[w] = "sync"}

\* The channel's occupancy is the number of goroutines inside Sync.
SlotsCount == sem = Cardinality(Syncing)

\* Once Run has seen the cancellation no round is left half done.
LoopLeft == loop # "select" => cands = {}

IInv ==
    /\ TypeOK
    /\ Employed
    /\ MarkedRunning
    /\ OneSyncPerPeer
    /\ SlotsCount
    /\ LoopLeft
    /\ NothingAfterStop
    /\ NotTooSoon

-----------------------------------------------------------------------------
\* How many goroutines are inside Sync after one enters or leaves.
LEMMA SyncingFinite == IsFiniteSet(Syncing)
  BY SchedulerAssumption, FS_Subset DEF Syncing

LEMMA EnterSync ==
    ASSUME NEW w \in Workers, pc[w] # "sync", TypeOK,
           pc' = [pc EXCEPT ![w] = "sync"]
    PROVE  Cardinality(Syncing') = Cardinality(Syncing) + 1
<1>1. Syncing' = Syncing \cup {w} /\ w \notin Syncing
  BY DEF Syncing, TypeOK
<1> QED
  BY <1>1, SyncingFinite, FS_AddElement

LEMMA LeaveSync ==
    ASSUME NEW w \in Workers, pc[w] = "sync", TypeOK,
           NEW s, s # "sync", pc' = [pc EXCEPT ![w] = s]
    PROVE  Cardinality(Syncing') = Cardinality(Syncing) - 1
<1>1. Syncing' = Syncing \ {w} /\ w \in Syncing
  BY DEF Syncing, TypeOK
<1> QED
  BY <1>1, SyncingFinite, FS_RemoveElement

\* A step of one goroutine between two places outside Sync moves no slot.
LEMMA OutsideSync ==
    ASSUME NEW w \in Workers, pc[w] # "sync", TypeOK,
           NEW s, s # "sync", pc' = [pc EXCEPT ![w] = s]
    PROVE  Syncing' = Syncing
  BY DEF Syncing, TypeOK

-----------------------------------------------------------------------------
\* The initial state satisfies the invariant.
LEMMA InitIInv == Init => IInv
<1> SUFFICES ASSUME Init PROVE IInv
  OBVIOUS
<1>1. Syncing = {}
  BY DEF Init, Syncing
<1>2. SlotsCount
  BY <1>1, FS_EmptySet DEF Init, SlotsCount
<1>3. TypeOK
  <2>1. 0 \in 0..MaxParallel /\ 0 \in 0..Interval /\ Never \in 0..Never /\ FailOld \in 0..FailOld
    BY SchedulerAssumption DEF Never
  <2>2. <<>> \in Seq(Peers)
    OBVIOUS
  <2> QED
    BY <2>1, <2>2 DEF Init, TypeOK
<1> QED
  BY <1>2, <1>3 DEF Init, IInv, Employed, MarkedRunning, OneSyncPerPeer, LoopLeft,
     NothingAfterStop, NotTooSoon, Owns, Idle

\* Steps of the environment, of the ticker and of the Run loop that touch no
\* goroutine and no peer's record.
LEMMA QuietSteps ==
    ASSUME IInv,
           UNCHANGED <<okAge, failAge, running, pc, who, sem>>,
           TypeOK', (loop' # "select" => cands' = {}),
           loop' = "stopped" => \A w \in Workers : Idle(w)
    PROVE  IInv'
<1>1. Syncing' = Syncing
  BY DEF Syncing
<1> QED
  BY <1>1 DEF IInv, Employed, MarkedRunning, OneSyncPerPeer, SlotsCount, LoopLeft,
     NothingAfterStop, NotTooSoon, Owns, Idle

LEMMA EnvironmentIInv == IInv /\ Environment => IInv'
<1> SUFFICES ASSUME IInv, Environment PROVE IInv'
  OBVIOUS
<1> USE SchedulerAssumption
<1>1. ASSUME NEW p \in Peers, Connect(p) PROVE IInv'
  <2>1. TypeOK'
    <3>1. events' \in Seq(Peers)
      BY <1>1 DEF IInv, TypeOK, Connect
    <3> QED
      BY <1>1, <3>1 DEF IInv, TypeOK, Connect, peerVars, timeVars
  <2> QED
    BY <1>1, <2>1, QuietSteps DEF IInv, Connect, peerVars, timeVars, LoopLeft, NothingAfterStop
<1>2. ASSUME NEW p \in Peers, Disconnect(p) PROVE IInv'
  <2>1. TypeOK'
    BY <1>2 DEF IInv, TypeOK, Disconnect, peerVars, timeVars, Never
  <2> QED
    BY <1>2, <2>1, QuietSteps DEF IInv, Disconnect, peerVars, timeVars, LoopLeft, NothingAfterStop
<1>3. ASSUME NEW p \in Peers, Identify(p) PROVE IInv'
  <2>1. TypeOK'
    BY <1>3 DEF IInv, TypeOK, Identify, peerVars, timeVars, Never
  <2> QED
    BY <1>3, <2>1, QuietSteps DEF IInv, Identify, peerVars, timeVars, LoopLeft, NothingAfterStop
<1>4. CASE Tick
  <2>1. TypeOK'
    <3>1. okAge' \in [Peers -> 0..Never]
      BY <1>4 DEF IInv, TypeOK, Tick, Never
    <3>2. failAge' \in [Peers -> 0..FailOld]
      BY <1>4 DEF IInv, TypeOK, Tick
    <3>3. timer' \in 0..Interval /\ tickPending' \in BOOLEAN
      BY <1>4 DEF IInv, TypeOK, Tick
    <3> QED
      BY <1>4, <3>1, <3>2, <3>3 DEF IInv, TypeOK, Tick, envVars
  <2>2. NotTooSoon'
    BY <1>4 DEF IInv, TypeOK, Tick, NotTooSoon, Owns, envVars, Never
  <2>3. Syncing' = Syncing
    BY <1>4 DEF Tick, Syncing
  <2> QED
    BY <1>4, <2>1, <2>2, <2>3 DEF IInv, Tick, envVars, Employed, MarkedRunning, OneSyncPerPeer,
       SlotsCount, LoopLeft, NothingAfterStop, Owns, Idle
<1>5. CASE Cancel
  <2>1. TypeOK'
    BY <1>5 DEF IInv, TypeOK, Cancel, envVars, peerVars, timeVars, Never
  <2> QED
    BY <1>5, <2>1, QuietSteps DEF IInv, Cancel, peerVars, LoopLeft, NothingAfterStop
<1> QED
  BY <1>1, <1>2, <1>3, <1>4, <1>5 DEF Environment

\* What the steps of the Run loop leave of the invariant.
LEMMA RunLoopIInv == IInv /\ RunLoop => IInv'
<1> SUFFICES ASSUME IInv, RunLoop PROVE IInv'
  OBVIOUS
<1>1. ASSUME NEW w \in Workers, OnConnect(w) PROVE IInv'
  <2>1. Head(events) \in Peers /\ Tail(events) \in Seq(Peers)
    BY <1>1 DEF IInv, TypeOK, OnConnect
  <2>2. TypeOK'
    BY <1>1, <2>1 DEF IInv, TypeOK, OnConnect, peerVars, timeVars
  <2>3. Syncing' = Syncing
    BY <1>1, OutsideSync DEF IInv, TypeOK, OnConnect, Idle, Syncing
  <2>4. MarkedRunning' /\ OneSyncPerPeer' /\ NotTooSoon'
    BY <1>1 DEF IInv, TypeOK, OnConnect, Idle, MarkedRunning, OneSyncPerPeer, NotTooSoon,
       Owns, peerVars
  <2> QED
    BY <1>1, <2>1, <2>2, <2>3, <2>4 DEF IInv, TypeOK, OnConnect, Employed, SlotsCount,
       LoopLeft, NothingAfterStop, Idle
<1>2. CASE RoundStart
  <2>1. TypeOK'
    BY <1>2 DEF IInv, TypeOK, RoundStart, Candidates, envVars, peerVars
  <2> QED
    BY <1>2, <2>1, QuietSteps DEF IInv, RoundStart, peerVars, NothingAfterStop
<1>3. ASSUME NEW p \in Peers, RoundSkip(p) PROVE IInv'
  <2>1. TypeOK'
    BY <1>3 DEF IInv, TypeOK, RoundSkip, envVars, peerVars, timeVars
  <2> QED
    BY <1>3, <2>1, QuietSteps DEF IInv, RoundSkip, peerVars, LoopLeft, NothingAfterStop
<1>4. ASSUME NEW p \in Peers, NEW w \in Workers, RoundClaim(p, w) PROVE IInv'
  <2>1. ~running[p] /\ okAge[p] >= Interval /\ pc[w] = "idle" /\ loop = "select"
    BY <1>4 DEF RoundClaim, Due, Idle, IInv, LoopLeft
  <2>2. TypeOK'
    BY <1>4 DEF IInv, TypeOK, RoundClaim, Claim, envVars, timeVars
  <2>3. Syncing' = Syncing
    BY <1>4, <2>1 DEF IInv, TypeOK, RoundClaim, Syncing
  <2>4. \A v \in Workers : ~Owns(v, p)
    BY <2>1 DEF IInv, MarkedRunning
  <2>5. \A v \in Workers, q \in Peers : Owns(v, q)' <=> Owns(v, q) \/ (v = w /\ q = p)
    BY <1>4, <2>1 DEF IInv, TypeOK, RoundClaim, Owns
  <2>6. MarkedRunning' /\ OneSyncPerPeer'
    BY <1>4, <2>4, <2>5 DEF IInv, TypeOK, RoundClaim, Claim, MarkedRunning, OneSyncPerPeer
  <2>7. NotTooSoon'
    BY <1>4, <2>1, <2>5 DEF IInv, RoundClaim, NotTooSoon
  <2> QED
    BY <1>4, <2>1, <2>2, <2>3, <2>6, <2>7 DEF IInv, TypeOK, RoundClaim, Employed,
       SlotsCount, LoopLeft, NothingAfterStop, Idle
<1>5. CASE LoopExit
  <2>1. TypeOK'
    BY <1>5 DEF IInv, TypeOK, LoopExit, envVars, peerVars, timeVars
  <2> QED
    BY <1>5, <2>1, QuietSteps DEF IInv, LoopExit, peerVars
<1>6. CASE WaitDone
  <2>1. TypeOK'
    BY <1>6 DEF IInv, TypeOK, WaitDone, envVars, peerVars, timeVars
  <2> QED
    BY <1>6, <2>1, QuietSteps DEF IInv, WaitDone, peerVars, LoopLeft
<1> QED
  BY <1>1, <1>2, <1>3, <1>4, <1>5, <1>6 DEF RunLoop

\* A goroutine only ever moves its own claim.
LEMMA GoroutineIInv == ASSUME IInv, NEW w \in Workers, Goroutine(w) PROVE IInv'
<1> USE DEF IInv, TypeOK
<1>0. loop # "stopped"
  BY DEF NothingAfterStop, Idle, Goroutine, DelayClaim, DelayGiveUp, AcquireSem, SkipSem,
     SyncEnd, Finish
<1>a. MaxParallel \in Nat
  BY SchedulerAssumption
<1>b. sem \in Nat /\ sem <= MaxParallel
  BY <1>a
<1>1. CASE DelayClaim(w)
  <2> DEFINE p == who[w]
  <2>1. p \in Peers /\ ~running[p] /\ okAge[p] >= ResyncAfter /\ pc[w] = "delay"
    BY <1>1 DEF DelayClaim, Due, Employed, Idle
  <2>2. TypeOK'
    BY <1>1 DEF DelayClaim, Claim, envVars, timeVars
  <2>3. Syncing' = Syncing
    BY <1>1, <2>1 DEF DelayClaim, Syncing
  <2>4. \A v \in Workers : ~Owns(v, p)
    BY <2>1 DEF MarkedRunning
  <2>5. \A v \in Workers, q \in Peers : Owns(v, q)' <=> Owns(v, q) \/ (v = w /\ q = p)
    BY <1>1, <2>1 DEF DelayClaim, Owns
  <2>6. MarkedRunning' /\ OneSyncPerPeer'
    <3>1. running' = [running EXCEPT ![p] = TRUE] /\ running \in [Peers -> BOOLEAN]
      BY <1>1 DEF DelayClaim, Claim
    <3>2. MarkedRunning'
      BY <2>1, <2>5, <3>1 DEF MarkedRunning
    <3>3. OneSyncPerPeer'
      BY <2>4, <2>5 DEF OneSyncPerPeer
    <3> QED
      BY <3>2, <3>3
  <2>7. NotTooSoon'
    BY <1>1, <2>1, <2>5 DEF DelayClaim, NotTooSoon
  <2> QED
    BY <1>0, <1>1, <2>1, <2>2, <2>3, <2>6, <2>7 DEF DelayClaim, Employed, SlotsCount, LoopLeft,
       NothingAfterStop, Idle
<1>2. CASE DelayGiveUp(w)
  <2>1. TypeOK'
    BY <1>2 DEF DelayGiveUp, Return, envVars, peerVars, timeVars
  <2>2. Syncing' = Syncing
    BY <1>2 DEF DelayGiveUp, Return, Syncing
  <2> QED
    BY <1>0, <1>2, <2>1, <2>2, SchedulerAssumption DEF DelayGiveUp, Return, peerVars, Employed, MarkedRunning,
       OneSyncPerPeer, SlotsCount, LoopLeft, NothingAfterStop, NotTooSoon, Owns, Idle
<1>3. CASE AcquireSem(w)
  <2>1. TypeOK'
    <3>1. sem' \in 0..MaxParallel
      BY <1>3, <1>a, <1>b DEF AcquireSem
    <3> QED
      BY <1>3, <3>1 DEF AcquireSem, envVars, peerVars, timeVars
  <2>2. SlotsCount'
    <3>1. Cardinality(Syncing') = Cardinality(Syncing) + 1
      BY <1>3, <1>a, EnterSync DEF AcquireSem
    <3> QED
      BY <1>3, <3>1 DEF AcquireSem, SlotsCount
  <2> QED
    BY <1>0, <1>3, <2>1, <2>2 DEF AcquireSem, peerVars, Employed, MarkedRunning,
       OneSyncPerPeer, LoopLeft, NothingAfterStop, NotTooSoon, Owns, Idle
<1>4. CASE SkipSem(w)
  <2>1. TypeOK'
    BY <1>4 DEF SkipSem, envVars, peerVars, timeVars
  <2>2. Syncing' = Syncing
    BY <1>4 DEF SkipSem, Syncing
  <2> QED
    BY <1>0, <1>4, <2>1, <2>2 DEF SkipSem, peerVars, Employed, MarkedRunning,
       OneSyncPerPeer, SlotsCount, LoopLeft, NothingAfterStop, NotTooSoon, Owns, Idle
<1>5. CASE SyncEnd(w)
  <2>1. PICK res \in {"ok", "fail"} : pc' = [pc EXCEPT ![w] = res]
    BY <1>5 DEF SyncEnd
  <2>2. Cardinality(Syncing') = Cardinality(Syncing) - 1
    BY <1>5, <1>a, <2>1, LeaveSync DEF SyncEnd
  <2>3. sem >= 1 /\ SlotsCount'
    <3>1. w \in Syncing
      BY <1>5 DEF SyncEnd, Syncing
    <3>2. Cardinality(Syncing) # 0
      BY <3>1, SyncingFinite, FS_EmptySet
    <3> QED
      BY <1>5, <1>b, <2>2, <3>2 DEF SyncEnd, SlotsCount
  <2>4. TypeOK'
    <3>1. sem' \in 0..MaxParallel
      BY <1>5, <1>a, <1>b, <2>3 DEF SyncEnd
    <3> QED
      BY <1>5, <2>1, <3>1 DEF SyncEnd, envVars, peerVars, timeVars
  <2> QED
    BY <1>0, <1>5, <2>1, <2>3, <2>4 DEF SyncEnd, peerVars, Employed, MarkedRunning,
       OneSyncPerPeer, LoopLeft, NothingAfterStop, NotTooSoon, Owns, Idle
<1>6. CASE Finish(w)
  <2> DEFINE p == who[w]
  <2>1. p \in Peers /\ Owns(w, p) /\ pc[w] \in {"ok", "fail"}
    BY <1>6 DEF Finish, Employed, Idle, Owns
  <2>2. TypeOK'
    <3>1. 0 \in 0..Never /\ 0 \in 0..FailOld
      BY SchedulerAssumption DEF Never
    <3>2. okAge' \in [Peers -> 0..Never] /\ failAge' \in [Peers -> 0..FailOld]
      BY <1>6, <3>1 DEF Finish
    <3>3. older' \subseteq Peers \X Peers
      BY <1>6, <2>1 DEF Finish, MadeLatest
    <3> QED
      BY <1>6, <3>2, <3>3 DEF Finish, Return, envVars, timeVars
  <2>3. Syncing' = Syncing
    BY <1>6 DEF Finish, Return, Syncing
  <2>4. \A v \in Workers, q \in Peers : Owns(v, q)' => Owns(v, q) /\ v # w /\ q # p
    BY <1>6, <2>1 DEF Finish, Return, Owns, OneSyncPerPeer
  <2>5. \A q \in Peers : q # p => running'[q] = running[q] /\ okAge'[q] = okAge[q]
    BY <1>6 DEF Finish
  <2>6. MarkedRunning' /\ OneSyncPerPeer' /\ NotTooSoon'
    BY <2>4, <2>5 DEF MarkedRunning, OneSyncPerPeer, NotTooSoon
  <2> QED
    BY <1>0, <1>6, <2>2, <2>3, <2>6, SchedulerAssumption DEF Finish, Return, Employed,
       SlotsCount, LoopLeft, NothingAfterStop, Idle
<1> QED
  BY <1>1, <1>2, <1>3, <1>4, <1>5, <1>6 DEF Goroutine

LEMMA StutterIInv == IInv /\ UNCHANGED vars => IInv'
  BY QuietSteps DEF IInv, TypeOK, vars, envVars, peerVars, timeVars, LoopLeft, NothingAfterStop, Idle

-----------------------------------------------------------------------------
\* The invariant holds of every behaviour of the scheduler.
THEOREM Invariance == Spec => []IInv
<1>1. IInv /\ [Next]_vars => IInv'
  BY EnvironmentIInv, RunLoopIInv, GoroutineIInv, StutterIInv DEF Next
<1> QED
  BY InitIInv, <1>1, PTL DEF Spec

\* Every variable keeps its type.
THEOREM TypeCorrect == Spec => []TypeOK
<1>1. IInv => TypeOK
  BY DEF IInv
<1> QED
  BY Invariance, <1>1, PTL

\* Two syncs with one peer never overlap, whichever of the connection handler
\* and the periodic round claimed it.
THEOREM NoOverlap == Spec => []OneSyncPerPeer
<1>1. IInv => OneSyncPerPeer
  BY DEF IInv
<1> QED
  BY Invariance, <1>1, PTL

\* However many peers connect at once, at most MaxParallel syncs run.
THEOREM Bounded == Spec => []AtMostMaxParallel
<1>1. IInv => AtMostMaxParallel
  BY DEF IInv, TypeOK, SlotsCount, Syncing, AtMostMaxParallel
<1> QED
  BY Invariance, <1>1, PTL

\* When Run has returned, no goroutine it started is left.
THEOREM CleanStop == Spec => []NothingAfterStop
<1>1. IInv => NothingAfterStop
  BY DEF IInv
<1> QED
  BY Invariance, <1>1, PTL

\* A claimed peer was, and while it is claimed stays, out of sync for at least
\* one of the two gaps.
THEOREM SpacedSyncs == Spec => []NotTooSoon
<1>1. IInv => NotTooSoon
  BY DEF IInv
<1> QED
  BY Invariance, <1>1, PTL

-----------------------------------------------------------------------------
(* Part 2: the log and the screen.                                          *)
\* What a goroutine has in hand.
Hands(n) == [at : Places, msg : 0..n, ids : SUBSET (1..n), news : BOOLEAN]

ChatTypes ==
    /\ sent \in 0..Count /\ old \in 0..sent /\ net \subseteq 1..sent
    /\ peer \in Seq(1..sent)
    /\ msgs \in Seq(1..sent) /\ IsInjective(msgs) /\ rows \subseteq 1..sent
    /\ thread \in [Threads -> Hands(sent)]
    /\ answer \in Seq(1..sent) /\ charged \in 0..SyncQuota
    /\ live \in Seq(1..sent) /\ Len(live) <= LiveCap
    /\ changed \in BOOLEAN /\ screen \in Seq(1..sent) /\ dropped \subseteq 1..sent
    /\ restarts \in 0..MaxRestarts

\* A goroutine that stores has a message to store, and a sync that still waits
\* for its answer has stored nothing.
Equipped ==
    /\ \A t \in Threads : thread[t].at \in {"store", "row"} => thread[t].msg # 0
    /\ At("user", "done") => thread["user"].msg # 0
    /\ At("topic", "done") => thread["topic"].msg # 0
    /\ At("sync", "asked") => ~thread["sync"].news

\* Stored by a goroutine that has yet to show it.
InHand(m) == \E t \in {"topic", "user"} : thread[t].at \in {"row", "done"} /\ thread[t].msg = m

\* A sync that has stored something and has yet to say so.
Reporting == thread["sync"].news /\ ~At("sync", "idle")

\* Where a message that the node keeps may be on its way to the screen.
Showable(m) ==
    \/ m \in ToSet(screen) \/ m \in ToSet(live) \/ m \in dropped
    \/ changed \/ Reporting \/ InHand(m)

Accounted == \A m \in Known : Showable(m)

ChatInv == ChatTypes /\ Equipped /\ Accounted

-----------------------------------------------------------------------------
\* Sequences and the sets of their elements.
LEMMA ToSetIs ==
    ASSUME NEW S, NEW s \in Seq(S)
    PROVE  /\ ToSet(s) \subseteq S
           /\ \A x : x \in ToSet(s) <=> \E i \in 1..Len(s) : x = s[i]
  BY DEF ToSet

LEMMA ToSetAppend ==
    ASSUME NEW S, NEW s \in Seq(S), NEW x \in S
    PROVE  Append(s, x) \in Seq(S) /\ ToSet(Append(s, x)) = ToSet(s) \cup {x}
<1>1. /\ Append(s, x) \in Seq(S) /\ Len(Append(s, x)) = Len(s) + 1 /\ Len(s) \in Nat
      /\ \A i \in 1..Len(s) : Append(s, x)[i] = s[i]
      /\ Append(s, x)[Len(s) + 1] = x
  <2>1. /\ Append(s, x) \in Seq(S) /\ Len(Append(s, x)) = Len(s) + 1
        /\ \A i \in 1..Len(s) : Append(s, x)[i] = s[i]
        /\ Append(s, x)[Len(s) + 1] = x
    BY AppendProperties
  <2> QED
    BY <2>1
<1> DEFINE a == Append(s, x)
<1> HIDE DEF a
<1>2. ASSUME NEW y PROVE y \in ToSet(a) <=> y \in ToSet(s) \cup {x}
  <2>1. y \in ToSet(a) <=> \E i \in 1..Len(a) : y = a[i]
    <3>1. a \in Seq(S)
      BY <1>1 DEF a
    <3> QED
      BY <3>1, ToSetIs
  <2>2. y \in ToSet(s) <=> \E i \in 1..Len(s) : y = s[i]
    BY ToSetIs
  <2>3. \A i \in 1..(Len(s) + 1) : i \in 1..Len(s) \/ i = Len(s) + 1
    BY <1>1
  <2>4. \A i \in 1..Len(s) : i \in 1..(Len(s) + 1)
    BY <1>1
  <2> QED
    BY <1>1, <2>1, <2>2, <2>3, <2>4 DEF a
<1> QED
  BY <1>1, <1>2 DEF a

LEMMA ToSetTail ==
    ASSUME NEW S, NEW s \in Seq(S), s # <<>>
    PROVE  /\ Head(s) \in S /\ Tail(s) \in Seq(S) /\ Len(Tail(s)) = Len(s) - 1
           /\ ToSet(s) \subseteq ToSet(Tail(s)) \cup {Head(s)}
<1>1. /\ Head(s) = s[1] /\ Tail(s) \in Seq(S) /\ Len(Tail(s)) = Len(s) - 1
      /\ Len(s) \in Nat /\ Len(s) # 0
      /\ \A i \in 1..Len(Tail(s)) : Tail(s)[i] = s[i + 1]
  OBVIOUS
<1>2. ASSUME NEW x \in ToSet(s), x # Head(s) PROVE x \in ToSet(Tail(s))
  <2>1. PICK i \in 1..Len(s) : x = s[i]
    BY ToSetIs
  <2>2. i - 1 \in 1..Len(Tail(s)) /\ (i - 1) + 1 = i
    BY <1>1, <1>2, <2>1
  <2>3. Tail(s)[i - 1] = x
    BY <1>1, <2>1, <2>2
  <2> QED
    BY <1>1, <2>2, <2>3, ToSetIs
<1> QED
  BY <1>1, <1>2

\* A part of a sequence.
LEMMA PartOf ==
    ASSUME NEW S, NEW s \in Seq(S), NEW m \in Nat, NEW n \in Nat, m >= 1, n <= Len(s)
    PROVE  /\ SubSeq(s, m, n) \in Seq(S) /\ ToSet(SubSeq(s, m, n)) \subseteq ToSet(s)
           /\ IsInjective(s) => IsInjective(SubSeq(s, m, n))
<1> DEFINE t == SubSeq(s, m, n)
<1>1. /\ t \in Seq(S) /\ Len(t) \in Nat /\ DOMAIN t = 1..Len(t) /\ DOMAIN s = 1..Len(s)
      /\ \A i \in 1..Len(t) : t[i] = s[m + i - 1] /\ m + i - 1 \in 1..Len(s)
  <2>1. /\ t \in Seq(S)
        /\ Len(t) = IF m <= n THEN n - m + 1 ELSE 0
        /\ \A i \in 1..Len(t) : t[i] = s[m + i - 1]
    OBVIOUS
  <2> QED
    BY <2>1
<1> HIDE DEF t
<1>2. ToSet(t) \subseteq ToSet(s)
  BY <1>1, ToSetIs
<1>3. ASSUME IsInjective(s) PROVE IsInjective(t)
  <2> SUFFICES ASSUME NEW i \in DOMAIN t, NEW j \in DOMAIN t, t[i] = t[j] PROVE i = j
    BY DEF IsInjective
  <2>1. m + i - 1 = m + j - 1
    BY <1>1, <1>3 DEF IsInjective
  <2>2. i \in Nat /\ j \in Nat
    BY <1>1
  <2> QED
    BY <2>1, <2>2
<1> QED
  BY <1>1, <1>2, <1>3 DEF t

\* A filter takes out exactly what is gone, and repeats nothing.
LEMMA WithoutIs ==
    ASSUME NEW S, NEW s \in Seq(S), NEW gone
    PROVE  /\ Without(s, gone) \in Seq(S)
           /\ ToSet(Without(s, gone)) \subseteq ToSet(s)
           /\ IsInjective(s) => IsInjective(Without(s, gone))
<1> DEFINE I == {i \in DOMAIN s : s[i] \notin gone}
           t == AtPositions(s, I)
<1>1. I \in SUBSET (DOMAIN s)
  OBVIOUS
<1>2. t \in Seq(S) /\ DOMAIN t = 1..Cardinality(I) /\ Selects(t, s, I)
  BY <1>1, FilterKeeps
<1>3. t = Without(s, gone)
  BY DEF Without
<1> HIDE DEF t, I
<1>4. PICK f \in [DOMAIN t -> I] :
        /\ \A k \in DOMAIN t : t[k] = s[f[k]]
        /\ \A k, l \in DOMAIN t : k < l <=> f[k] < f[l]
  BY <1>2 DEF Selects
<1>5. ToSet(t) \subseteq ToSet(s)
  BY <1>1, <1>4 DEF ToSet
<1>6. ASSUME IsInjective(s) PROVE IsInjective(t)
  <2> SUFFICES ASSUME NEW k \in DOMAIN t, NEW l \in DOMAIN t, t[k] = t[l] PROVE k = l
    BY DEF IsInjective
  <2>1. f[k] = f[l] /\ f[k] \in DOMAIN s
    BY <1>1, <1>4, <1>6 DEF IsInjective
  <2>2. k \in Int /\ l \in Int /\ f[k] \in Int
    <3>1. DOMAIN s \subseteq Int /\ DOMAIN t \subseteq Int
      BY <1>2
    <3> QED
      BY <2>1, <3>1
  <2>3. ~(k < l) /\ ~(l < k)
    BY <1>4, <2>1, <2>2
  <2> QED
    BY <2>2, <2>3
<1> QED
  BY <1>2, <1>3, <1>5, <1>6

LEMMA RoomIs ==
    ASSUME ChatAssumption, NEW S, NEW s \in Seq(S)
    PROVE  /\ Room(s) \in Seq(S) /\ ToSet(Room(s)) \subseteq ToSet(s)
           /\ IsInjective(s) => IsInjective(Room(s))
<1>1. Len(s) \in Nat /\ MaxStored \in Nat \ {0}
  BY DEF ChatAssumption
<1>2. CASE Len(s) > MaxStored
  <2>1. Len(s) - MaxStored + 1 \in Nat /\ Len(s) - MaxStored + 1 >= 1
    BY <1>1, <1>2
  <2>2. Room(s) = SubSeq(s, Len(s) - MaxStored + 1, Len(s))
    BY <1>2 DEF Room
  <2> QED
    BY <1>1, <2>1, <2>2, PartOf
<1>3. CASE ~(Len(s) > MaxStored)
  BY <1>3 DEF Room
<1> QED
  BY <1>2, <1>3

LEMMA MissingIs ==
    ASSUME ChatAssumption, NEW S, NEW s \in Seq(S), NEW have
    PROVE  Missing(s, have) \in Seq(S)
<1> DEFINE t == Without(s, have)
           n == IF Len(t) < MaxSync THEN Len(t) ELSE MaxSync
<1>1. t \in Seq(S)
  BY WithoutIs, Zenon
<1> HIDE DEF t
<1>2. n \in Nat /\ n <= Len(t)
  BY <1>1 DEF ChatAssumption
<1>3. Missing(s, have) = SubSeq(t, 1, n)
  BY DEF Missing, t
<1> HIDE DEF n
<1> QED
  BY <1>1, <1>2, <1>3, PartOf

-----------------------------------------------------------------------------
(* Steps of the goroutines that store.                                      *)

LEMMA ChatInitially == ASSUME ChatAssumption, ChatInit PROVE ChatInv
<1>1. 0 \in Nat /\ SyncQuota \in Nat /\ MaxRestarts \in Nat /\ LiveCap \in Nat /\ Count \in Nat
  BY DEF ChatAssumption
<1>2. ToSet(msgs) = {} /\ IsInjective(msgs)
  BY DEF ChatInit, ToSet, IsInjective
<1>3. ChatTypes
  <2>1. Resting \in Hands(0)
    BY DEF Resting, Hands, Places
  <2>2. thread \in [Threads -> Hands(sent)]
    BY <2>1 DEF ChatInit
  <2>3. Len(live) = 0 /\ live \in Seq(1..sent)
    BY DEF ChatInit
  <2>4. /\ sent = 0 /\ old = 0 /\ net = {} /\ peer = <<>> /\ msgs = <<>> /\ rows = {}
        /\ answer = <<>> /\ charged = 0 /\ live = <<>> /\ changed = FALSE /\ screen = <<>>
        /\ dropped = {} /\ restarts = 0
    BY DEF ChatInit
  <2>5. sent \in 0..Count /\ old \in 0..sent /\ charged \in 0..SyncQuota /\ restarts \in 0..MaxRestarts
    BY <1>1, <2>4
  <2>6. peer \in Seq(1..sent) /\ msgs \in Seq(1..sent) /\ answer \in Seq(1..sent) /\ screen \in Seq(1..sent)
    BY <2>4
  <2>7. net \subseteq 1..sent /\ rows \subseteq 1..sent /\ dropped \subseteq 1..sent /\ changed \in BOOLEAN
    BY <2>4
  <2>8. Len(live) <= LiveCap
    BY <1>1, <2>3
  <2> QED
    BY <1>2, <2>2, <2>3, <2>5, <2>6, <2>7, <2>8 DEF ChatTypes
<1>4. Equipped
  BY DEF ChatInit, Equipped, Resting, At, Threads
<1>5. Accounted
  BY <1>2 DEF Accounted, Known
<1> QED
  BY <1>3, <1>4, <1>5 DEF ChatInv

\* A message that is shown or on its way stays so when nothing of the way
\* changes but to grow.
LEMMA StillShowable ==
    ASSUME NEW m, Showable(m),
           ToSet(screen) \subseteq ToSet(screen'), ToSet(live) \subseteq ToSet(live'),
           dropped \subseteq dropped', changed => changed',
           Reporting => Reporting' \/ changed', InHand(m) => InHand(m)'
    PROVE  Showable(m)'
  BY DEF Showable

LEMMA PersistInv == ASSUME ChatAssumption, ChatInv, NEW t \in Threads, Persist(t) PROVE ChatInv'
<1> DEFINE m == thread[t].msg
           s == Append(msgs, m)
<1>1. /\ ChatTypes /\ Equipped /\ Accounted
  BY DEF ChatInv
<1>2. /\ At(t, "store") /\ UNCHANGED <<sent, old, net, peer, rows, answer, charged, live, changed, screen, dropped, restarts>>
  BY DEF Persist, world, tui
<1>3. m \in 1..sent /\ thread[t] \in Hands(sent) /\ sent \in Nat
  <2>1. thread[t] \in Hands(sent) /\ thread[t].msg # 0
    BY <1>1, <1>2 DEF Equipped, ChatTypes, At
  <2>2. sent \in Nat
    BY <1>1 DEF ChatTypes, ChatAssumption
  <2> QED
    BY <2>1, <2>2 DEF Hands
<1>4. CASE m \in Known
  <2>1. thread' = [thread EXCEPT ![t].at = "done"] /\ msgs' = msgs
    BY <1>4 DEF Persist
  <2>2. thread' \in [Threads -> Hands(sent)]
    BY <1>1, <1>3, <2>1 DEF ChatTypes, Hands, Places
  <2>3. ChatTypes'
    BY <1>1, <1>2, <2>1, <2>2 DEF ChatTypes
  <2>4. Equipped'
    BY <1>1, <1>2, <1>3, <2>1 DEF Equipped, ChatTypes, At
  <2>5. ASSUME NEW x \in Known' PROVE Showable(x)'
    <3>1. x \in Known /\ Showable(x)
      BY <1>1, <2>1, <2>5 DEF Accounted, Known
    <3>2. Reporting => Reporting'
      BY <1>1, <1>2, <2>1 DEF Reporting, ChatTypes, At, Threads
    <3>3. InHand(x) => InHand(x)'
      BY <1>1, <1>2, <2>1 DEF InHand, ChatTypes, At, Threads
    <3> QED
      BY <1>2, <3>1, <3>2, <3>3, StillShowable
  <2> QED
    BY <2>3, <2>4, <2>5 DEF ChatInv, Accounted
<1>5. CASE m \notin Known
  <2>1. /\ msgs' = Room(s)
        /\ thread' = [thread EXCEPT ![t].at = "row", ![t].news = TRUE,
                                   ![t].ids = ToSet(s) \ ToSet(Room(s))]
    BY <1>5 DEF Persist
  <2>2. s \in Seq(1..sent) /\ ToSet(s) = Known \cup {m}
    <3>1. msgs \in Seq(1..sent)
      BY <1>1 DEF ChatTypes
    <3> QED
      BY <1>3, <3>1, ToSetAppend DEF Known
  <2>3. IsInjective(s)
    <3>1. /\ Len(s) = Len(msgs) + 1 /\ Len(msgs) \in Nat /\ DOMAIN s = 1..Len(s) /\ DOMAIN msgs = 1..Len(msgs)
          /\ \A i \in 1..Len(msgs) : s[i] = msgs[i]
          /\ s[Len(msgs) + 1] = m
      <4>1. msgs \in Seq(1..sent)
        BY <1>1 DEF ChatTypes
      <4>2. /\ Len(s) = Len(msgs) + 1 /\ Len(msgs) \in Nat
            /\ \A i \in 1..Len(msgs) : s[i] = msgs[i]
            /\ s[Len(msgs) + 1] = m
        <5>1. /\ Len(s) = Len(msgs) + 1
              /\ \A i \in 1..Len(msgs) : s[i] = msgs[i]
              /\ s[Len(msgs) + 1] = m
          BY <1>3, <4>1, AppendProperties
        <5> QED
          BY <4>1, <5>1
      <4> QED
        BY <2>2, <4>1, <4>2
    <3>2. \A i \in 1..Len(msgs) : msgs[i] # m
      BY <1>5, <3>1 DEF Known, ToSet
    <3> SUFFICES ASSUME NEW i \in DOMAIN s, NEW j \in DOMAIN s, s[i] = s[j] PROVE i = j
      BY DEF IsInjective
    <3>3. IsInjective(msgs)
      BY <1>1 DEF ChatTypes
    <3>4. i \in 1..Len(msgs) \/ i = Len(msgs) + 1
      BY <3>1
    <3>5. j \in 1..Len(msgs) \/ j = Len(msgs) + 1
      BY <3>1
    <3> HIDE DEF s, m
    <3> QED
      BY <3>1, <3>2, <3>3, <3>4, <3>5 DEF IsInjective
  <2>4. Room(s) \in Seq(1..sent) /\ ToSet(Room(s)) \subseteq ToSet(s) /\ IsInjective(Room(s))
    BY <2>2, <2>3, RoomIs
  <2>5. thread' \in [Threads -> Hands(sent)]
    <3>1. ToSet(s) \ ToSet(Room(s)) \in SUBSET (1..sent)
      BY <2>2, ToSetIs
    <3> HIDE DEF s
    <3>2. [thread[t] EXCEPT !.at = "row", !.news = TRUE, !.ids = ToSet(s) \ ToSet(Room(s))] \in Hands(sent)
      BY <1>3, <3>1 DEF Hands, Places
    <3>3. thread' = [thread EXCEPT ![t] = [thread[t] EXCEPT !.at = "row", !.news = TRUE, !.ids = ToSet(s) \ ToSet(Room(s))]]
      BY <1>1, <2>1 DEF ChatTypes
    <3> QED
      BY <1>1, <3>2, <3>3 DEF ChatTypes
  <2> HIDE DEF s
  <2>6. ChatTypes'
    BY <1>1, <1>2, <2>1, <2>4, <2>5 DEF ChatTypes
  <2>7. /\ \A u \in Threads : u # t => thread'[u] = thread[u]
        /\ thread'[t].at = "row" /\ thread'[t].msg = m /\ thread'[t].news = TRUE
    BY <1>1, <1>3, <2>1 DEF ChatTypes, Hands
  <2>8. Equipped'
    BY <1>1, <1>2, <1>3, <2>7 DEF Equipped, At, Threads
  <2>9. ASSUME NEW x \in Known' PROVE Showable(x)'
    <3>1. x \in Known \/ x = m
      BY <2>1, <2>2, <2>4, <2>9 DEF Known
    <3>2. Reporting => Reporting'
      BY <1>1, <1>2, <2>7 DEF Reporting, ChatTypes, At, Threads
    <3>3. InHand(x) => InHand(x)'
      BY <1>1, <1>2, <2>7 DEF InHand, ChatTypes, At, Threads
    <3>4. x = m => InHand(x)' \/ Reporting'
      BY <2>7 DEF InHand, Reporting, At, Threads
    <3>5. CASE x \in Known
      <4>1. Showable(x)
        BY <1>1, <3>5 DEF Accounted
      <4> QED
        BY <1>2, <3>2, <3>3, <4>1, StillShowable
    <3> QED
      BY <3>1, <3>4, <3>5 DEF Showable
  <2> QED
    BY <2>6, <2>8, <2>9 DEF ChatInv, Accounted
<1> QED
  BY <1>4, <1>5

LEMMA RowsInv == ASSUME ChatAssumption, ChatInv, NEW t \in Threads, Rows(t) PROVE ChatInv'
<1>1. /\ ChatTypes /\ Equipped /\ Accounted
  BY DEF ChatInv
<1>2. /\ At(t, "row") /\ UNCHANGED <<sent, old, net, peer, msgs, answer, charged, live, screen, dropped, restarts>>
      /\ rows' = (rows \cup {thread[t].msg}) \ thread[t].ids
      /\ changed' = (changed \/ thread[t].ids # {})
      /\ thread' = [thread EXCEPT ![t].at = "done", ![t].ids = {}]
  BY DEF Rows, world
<1>3. thread[t].msg \in 1..sent /\ thread[t] \in Hands(sent) /\ sent \in Nat
  <2>1. thread[t] \in Hands(sent) /\ thread[t].msg # 0
    BY <1>1, <1>2 DEF Equipped, ChatTypes, At
  <2>2. sent \in Nat
    BY <1>1 DEF ChatTypes, ChatAssumption
  <2> QED
    BY <2>1, <2>2 DEF Hands
<1>4. /\ \A u \in Threads : u # t => thread'[u] = thread[u]
      /\ thread'[t] = [thread[t] EXCEPT !.at = "done", !.ids = {}]
      /\ thread'[t].at = "done" /\ thread'[t].msg = thread[t].msg /\ thread'[t].news = thread[t].news
      /\ thread' \in [Threads -> Hands(sent)]
  <2>1. [thread[t] EXCEPT !.at = "done", !.ids = {}] \in Hands(sent)
    BY <1>3 DEF Hands, Places
  <2>2. thread' = [thread EXCEPT ![t] = [thread[t] EXCEPT !.at = "done", !.ids = {}]]
    BY <1>1, <1>2 DEF ChatTypes
  <2> QED
    BY <1>1, <1>3, <2>1, <2>2 DEF ChatTypes, Hands
<1>5. ChatTypes'
  <2>1. changed' \in BOOLEAN /\ rows' \subseteq 1..sent
    BY <1>1, <1>2, <1>3 DEF ChatTypes
  <2> QED
    BY <1>1, <1>2, <1>4, <2>1 DEF ChatTypes
<1>6. Equipped'
  BY <1>1, <1>2, <1>3, <1>4 DEF Equipped, At, Threads
<1>7. ASSUME NEW x \in Known' PROVE Showable(x)'
  <2>1. Showable(x)
    BY <1>1, <1>2, <1>7 DEF Accounted, Known
  <2>2. Reporting => Reporting'
    BY <1>1, <1>2, <1>4 DEF Reporting, ChatTypes, At, Threads
  <2>3. InHand(x) => InHand(x)'
    BY <1>1, <1>2, <1>4 DEF InHand, ChatTypes, At, Threads
  <2>4. changed => changed'
    BY <1>2, Zenon
  <2> QED
    BY <1>2, <2>1, <2>2, <2>3, <2>4, StillShowable
<1> QED
  BY <1>5, <1>6, <1>7 DEF ChatInv, Accounted

\* A goroutine takes a message in hand; more messages may have been sent by then.
LEMMA Begins ==
    ASSUME ChatInv, NEW t \in Threads, NEW n \in Nat, sent <= n, NEW m \in 1..n, Begin(t, m)
    PROVE  /\ thread' \in [Threads -> Hands(n)]
           /\ \A u \in Threads : u # t => thread'[u] = thread[u]
           /\ thread'[t].at = "store" /\ thread'[t].msg = m /\ thread'[t].news = thread[t].news
<1>1. sent \in Nat /\ thread \in [Threads -> Hands(sent)] /\ ChatTypes
  BY DEF ChatInv, ChatTypes
<1>2. \A h \in Hands(sent) : h \in Hands(n)
  BY <1>1 DEF Hands
<1>3. [thread[t] EXCEPT !.at = "store", !.msg = m, !.ids = {}] \in Hands(n)
  <2>1. thread[t] \in Hands(n)
    BY <1>1, <1>2
  <2>2. m \in 0..n
    OBVIOUS
  <2> QED
    BY <2>1, <2>2 DEF Hands, Places
<1>4. thread' = [thread EXCEPT ![t] = [thread[t] EXCEPT !.at = "store", !.msg = m, !.ids = {}]]
  BY <1>1 DEF Begin
<1>5. thread[t] \in Hands(sent)
  BY <1>1
<1> QED
  BY <1>1, <1>2, <1>3, <1>4, <1>5 DEF Hands

\* What has been sent only grows.
LEMMA MoreSent ==
    ASSUME ChatTypes, NEW n \in Nat, sent <= n
    PROVE  /\ 1..sent \subseteq 1..n
           /\ peer \in Seq(1..n) /\ msgs \in Seq(1..n) /\ answer \in Seq(1..n)
           /\ live \in Seq(1..n) /\ screen \in Seq(1..n)
           /\ thread \in [Threads -> Hands(n)]
<1>1. sent \in Nat /\ 1..sent \subseteq 1..n
  BY DEF ChatTypes
<1>2. \A s \in Seq(1..sent) : s \in Seq(1..n)
  BY <1>1
<1>3. \A h \in Hands(sent) : h \in Hands(n)
  BY <1>1 DEF Hands
<1> QED
  BY <1>1, <1>2, <1>3 DEF ChatTypes

LEMMA SendInv == ASSUME ChatAssumption, ChatInv, Send PROVE ChatInv'
<1>1. /\ ChatTypes /\ Equipped /\ Accounted
  BY DEF ChatInv
<1>2. /\ sent + 1 \in Messages /\ At("user", "idle") /\ sent' = sent + 1 /\ Begin("user", sent + 1)
      /\ UNCHANGED <<old, net, peer, msgs, rows, answer, charged, live, changed, screen, dropped, restarts>>
  BY DEF Send, tui, ChatAssumption
<1>3. sent \in Nat /\ sent + 1 \in Nat /\ sent <= sent + 1 /\ sent + 1 \in 1..(sent + 1) /\ sent + 1 # 0
  BY <1>1 DEF ChatTypes
<1> DEFINE n == sent + 1
<1>4. /\ thread' \in [Threads -> Hands(n)]
      /\ \A u \in Threads : u # "user" => thread'[u] = thread[u]
      /\ thread'["user"].at = "store" /\ thread'["user"].msg = n
  BY <1>2, <1>3, Begins DEF Threads
<1>5. /\ 1..sent \subseteq 1..n
      /\ peer \in Seq(1..n) /\ msgs \in Seq(1..n) /\ answer \in Seq(1..n)
      /\ live \in Seq(1..n) /\ screen \in Seq(1..n)
  BY <1>1, <1>3, MoreSent
<1>6. sent' = n /\ sent' \in 0..Count /\ old \in 0..sent'
  BY <1>1, <1>2, <1>3 DEF Messages, ChatTypes, ChatAssumption
<1> HIDE DEF n
<1>7. ChatTypes'
  BY <1>1, <1>2, <1>4, <1>5, <1>6 DEF ChatTypes
<1>8. Equipped'
  BY <1>1, <1>2, <1>3, <1>4 DEF Equipped, At, Threads, n
<1>9. ASSUME NEW x \in Known' PROVE Showable(x)'
  <2>1. Showable(x)
    BY <1>1, <1>2, <1>9 DEF Accounted, Known
  <2>2. (Reporting => Reporting') /\ (InHand(x) => InHand(x)')
    BY <1>2, <1>4 DEF Reporting, InHand, At, Threads
  <2> QED
    BY <1>2, <2>1, <2>2, StillShowable
<1> QED
  BY <1>7, <1>8, <1>9 DEF ChatInv, Accounted

LEMMA HearInv == ASSUME ChatAssumption, ChatInv, NEW m, Hear(m) PROVE ChatInv'
<1>1. /\ ChatTypes /\ Equipped /\ Accounted
  BY DEF ChatInv
<1>2. /\ m \in net /\ At("topic", "idle") /\ Begin("topic", m)
      /\ UNCHANGED <<sent, old, net, peer, msgs, rows, answer, charged, live, changed, screen, dropped, restarts>>
  BY DEF Hear, tui, world
<1>3. sent \in Nat /\ sent <= sent /\ m \in 1..sent /\ m # 0
  BY <1>1, <1>2 DEF ChatTypes
<1>4. /\ thread' \in [Threads -> Hands(sent)]
      /\ \A u \in Threads : u # "topic" => thread'[u] = thread[u]
      /\ thread'["topic"].at = "store" /\ thread'["topic"].msg = m
  BY <1>2, <1>3, Begins DEF Threads
<1>7. ChatTypes'
  BY <1>1, <1>2, <1>4 DEF ChatTypes
<1>8. Equipped'
  BY <1>1, <1>2, <1>3, <1>4 DEF Equipped, At, Threads
<1>9. ASSUME NEW x \in Known' PROVE Showable(x)'
  <2>1. Showable(x)
    BY <1>1, <1>2, <1>9 DEF Accounted, Known
  <2>2. (Reporting => Reporting') /\ (InHand(x) => InHand(x)')
    BY <1>2, <1>4 DEF Reporting, InHand, At, Threads
  <2> QED
    BY <1>2, <2>1, <2>2, StillShowable
<1> QED
  BY <1>7, <1>8, <1>9 DEF ChatInv, Accounted

\* Send is over: the line is on the screen.
LEMMA PublishInv == ASSUME ChatAssumption, ChatInv, Publish PROVE ChatInv'
<1>1. /\ ChatTypes /\ Equipped /\ Accounted
  BY DEF ChatInv
<1> DEFINE m == thread["user"].msg
<1>2. /\ At("user", "done") /\ (net' = net \cup {m} \/ net' = net) /\ screen' = Append(screen, m)
      /\ thread' = [thread EXCEPT !["user"] = Resting]
      /\ UNCHANGED <<sent, old, peer, msgs, rows, answer, charged, live, changed, dropped, restarts>>
  BY DEF Publish
<1>3. m \in 1..sent
  BY <1>1, <1>2 DEF ChatTypes, Equipped, Hands, Threads
<1>4. /\ thread' \in [Threads -> Hands(sent)]
      /\ \A u \in Threads : u # "user" => thread'[u] = thread[u]
      /\ thread'["user"] = Resting
  <2>1. Resting \in Hands(sent)
    BY <1>1 DEF Resting, Hands, Places, ChatTypes
  <2> QED
    BY <1>1, <1>2, <2>1 DEF ChatTypes, Threads
<1>5. screen \in Seq(1..sent)
  BY <1>1 DEF ChatTypes
<1>6. screen' \in Seq(1..sent) /\ ToSet(screen') = ToSet(screen) \cup {m}
  BY <1>2, <1>3, <1>5, ToSetAppend
<1>7. ChatTypes'
  <2>1. net' \subseteq 1..sent
    BY <1>1, <1>2, <1>3 DEF ChatTypes
  <2> QED
    BY <1>1, <1>2, <1>4, <1>6, <2>1 DEF ChatTypes
<1>8. Equipped'
  BY <1>1, <1>2, <1>4 DEF Equipped, At, Threads, Resting
<1>9. ASSUME NEW x \in Known' PROVE Showable(x)'
  <2>1. Showable(x)
    BY <1>1, <1>2, <1>9 DEF Accounted, Known
  <2>2. CASE x = m
    BY <1>6, <2>2 DEF Showable
  <2>3. CASE x # m
    <3>1. (Reporting => Reporting') /\ (InHand(x) => InHand(x)')
      BY <1>2, <1>4, <2>3 DEF Reporting, InHand, At, Threads
    <3> QED
      BY <1>2, <1>6, <2>1, <3>1, StillShowable
  <2> QED
    BY <2>2, <2>3
<1> QED
  BY <1>7, <1>8, <1>9 DEF ChatInv, Accounted

\* The topic's line goes to the channel, or is noted as dropped.
LEMMA PublishLiveInv == ASSUME ChatAssumption, ChatInv, PublishLive PROVE ChatInv'
<1>1. /\ ChatTypes /\ Equipped /\ Accounted
  BY DEF ChatInv
<1> DEFINE m == thread["topic"].msg
<1>2. /\ At("topic", "done")
      /\ thread' = [thread EXCEPT !["topic"] = Resting]
      /\ UNCHANGED <<sent, old, net, peer, msgs, rows, answer, charged, changed, screen, restarts>>
  BY DEF PublishLive, world
<1>3. m \in 1..sent
  BY <1>1, <1>2 DEF ChatTypes, Equipped, Hands, Threads
<1>4. /\ thread' \in [Threads -> Hands(sent)]
      /\ \A u \in Threads : u # "topic" => thread'[u] = thread[u]
      /\ thread'["topic"] = Resting
  <2>1. Resting \in Hands(sent)
    BY <1>1 DEF Resting, Hands, Places, ChatTypes
  <2> QED
    BY <1>1, <1>2, <2>1 DEF ChatTypes, Threads
<1>5. /\ live' \in Seq(1..sent) /\ Len(live') <= LiveCap /\ ToSet(live) \subseteq ToSet(live')
      /\ dropped' \subseteq 1..sent /\ dropped \subseteq dropped'
      /\ m \in ToSet(screen) \cup ToSet(live') \cup dropped'
  <2>1. live \in Seq(1..sent) /\ dropped \subseteq 1..sent /\ LiveCap \in Nat /\ Len(live) <= LiveCap
    BY <1>1 DEF ChatTypes, ChatAssumption
  <2>2. CASE Len(live) < LiveCap
    <3>1. live' = Append(live, m) /\ dropped' = dropped
      BY <2>2 DEF PublishLive
    <3>2. live' \in Seq(1..sent) /\ ToSet(live') = ToSet(live) \cup {m}
      BY <1>3, <2>1, <3>1, ToSetAppend
    <3>3. Len(live') = Len(live) + 1
      BY <1>3, <2>1, <3>1
    <3>4. Len(live) \in Nat
      BY <2>1
    <3>5. Len(live') <= LiveCap
      BY <2>1, <2>2, <3>3, <3>4
    <3> QED
      BY <2>1, <3>1, <3>2, <3>5
  <2>3. CASE ~(Len(live) < LiveCap)
    <3>1. live' = live /\ dropped' = dropped \cup ({m} \ (ToSet(screen) \cup ToSet(live)))
      BY <2>3 DEF PublishLive
    <3> QED
      BY <1>3, <2>1, <3>1
  <2> QED
    BY <2>2, <2>3
<1>7. ChatTypes'
  BY <1>1, <1>2, <1>4, <1>5 DEF ChatTypes
<1>8. Equipped'
  BY <1>1, <1>2, <1>4 DEF Equipped, At, Threads, Resting
<1>9. ASSUME NEW x \in Known' PROVE Showable(x)'
  <2>1. Showable(x)
    BY <1>1, <1>2, <1>9 DEF Accounted, Known
  <2>2. CASE x = m
    BY <1>2, <1>5, <2>2 DEF Showable
  <2>3. CASE x # m
    <3>1. (Reporting => Reporting') /\ (InHand(x) => InHand(x)')
      BY <1>2, <1>4, <2>3 DEF Reporting, InHand, At, Threads
    <3> QED
      BY <1>2, <1>5, <2>1, <3>1, StillShowable
  <2> QED
    BY <2>2, <2>3
<1> QED
  BY <1>7, <1>8, <1>9 DEF ChatInv, Accounted

-----------------------------------------------------------------------------
(* A sync.                                                                  *)

\* The sync alone moves, and nothing on the way to the screen changes.
LEMMA SyncMoves ==
    ASSUME ChatAssumption, ChatInv, NEW h \in Hands(sent), NEW s \in Seq(1..sent), NEW c \in 0..SyncQuota,
           thread' = [thread EXCEPT !["sync"] = h], answer' = s, charged' = c,
           h.at \in {"store", "row"} => h.msg # 0,
           h.at = "asked" => ~h.news,
           Reporting => (h.news /\ h.at # "idle") \/ changed',
           changed' \in BOOLEAN, changed => changed',
           UNCHANGED <<sent, old, net, peer, msgs, rows, live, screen, dropped, restarts>>
    PROVE  ChatInv'
<1>1. /\ ChatTypes /\ Equipped /\ Accounted
  BY DEF ChatInv
<1>2. /\ thread' \in [Threads -> Hands(sent)]
      /\ \A u \in Threads : u # "sync" => thread'[u] = thread[u]
      /\ thread'["sync"] = h
  BY <1>1 DEF ChatTypes, Threads
<1>3. ChatTypes'
  BY <1>1, <1>2 DEF ChatTypes
<1>4. Equipped'
  BY <1>1, <1>2 DEF Equipped, At, Threads
<1>5. ASSUME NEW x \in Known' PROVE Showable(x)'
  <2>1. Showable(x)
    BY <1>1, <1>5 DEF Accounted, Known
  <2>2. Reporting => Reporting' \/ changed'
    BY <1>2 DEF Reporting, At
  <2>3. InHand(x) => InHand(x)'
    BY <1>2 DEF InHand, Threads
  <2> QED
    BY <2>1, <2>2, <2>3, StillShowable
<1> QED
  BY <1>3, <1>4, <1>5 DEF ChatInv, Accounted

LEMMA SyncTypes ==
    ASSUME ChatInv
    PROVE  /\ sent \in Nat /\ sent <= sent /\ answer \in Seq(1..sent) /\ charged \in 0..SyncQuota
           /\ thread["sync"] \in Hands(sent) /\ changed \in BOOLEAN
           /\ peer \in Seq(1..sent) /\ Resting \in Hands(sent)
<1>1. ChatTypes
  BY DEF ChatInv
<1>2. sent \in Nat
  BY <1>1 DEF ChatTypes
<1> QED
  BY <1>1, <1>2 DEF ChatTypes, Threads, Resting, Hands, Places

LEMMA SyncAskInv == ASSUME ChatAssumption, ChatInv, SyncAsk PROVE ChatInv'
<1> DEFINE h == [Resting EXCEPT !.at = "asked", !.ids = Known]
<1>1. Known \subseteq 1..sent
  <2>1. msgs \in Seq(1..sent)
    BY DEF ChatInv, ChatTypes
  <2> QED
    BY <2>1, ToSetIs DEF Known
<1>2. h \in Hands(sent) /\ h.at = "asked" /\ h.news = FALSE
  BY <1>1, SyncTypes DEF Resting, Hands, Places
<1>3. /\ At("sync", "idle") /\ thread' = [thread EXCEPT !["sync"] = h]
      /\ UNCHANGED <<sent, old, net, peer, msgs, rows, answer, charged, live, changed, screen, dropped, restarts>>
  BY DEF SyncAsk, world, tui
<1>4. ~Reporting
  BY <1>3 DEF Reporting, At
<1> HIDE DEF h
<1> QED
  BY <1>2, <1>3, <1>4, SyncTypes, SyncMoves

LEMMA SyncAnswerInv == ASSUME ChatAssumption, ChatInv, SyncAnswer PROVE ChatInv'
<1> DEFINE h == [Resting EXCEPT !.at = "done"]
           s == Missing(peer, thread["sync"].ids)
<1>1. h \in Hands(sent) /\ h.at = "done"
  BY SyncTypes DEF Resting, Hands, Places
<1>2. /\ At("sync", "asked") /\ thread' = [thread EXCEPT !["sync"] = h] /\ answer' = s
      /\ UNCHANGED <<sent, old, net, peer, msgs, rows, charged, live, changed, screen, dropped, restarts>>
  BY DEF SyncAnswer, world, tui
<1>3. ~Reporting
  BY <1>2 DEF Reporting, At, ChatInv, Equipped
<1>4. s \in Seq(1..sent)
  BY SyncTypes, MissingIs
<1> HIDE DEF h, s
<1> QED
  BY <1>1, <1>2, <1>3, <1>4, SyncTypes, SyncMoves

LEMMA SyncFailInv == ASSUME ChatAssumption, ChatInv, SyncFail PROVE ChatInv'
<1>1. Resting \in Hands(sent) /\ Resting.at = "idle"
  BY SyncTypes DEF Resting
<1>2. /\ At("sync", "asked") /\ thread' = [thread EXCEPT !["sync"] = Resting]
      /\ UNCHANGED <<sent, old, net, peer, msgs, rows, answer, charged, live, changed, screen, dropped, restarts>>
  BY DEF SyncFail, world, tui
<1>3. ~Reporting
  BY <1>2 DEF Reporting, At, ChatInv, Equipped
<1> QED
  BY <1>1, <1>2, <1>3, SyncTypes, SyncMoves

LEMMA SyncEndsInv == ASSUME ChatAssumption, ChatInv, SyncEnds PROVE ChatInv'
<1>1. Resting \in Hands(sent) /\ Resting.at = "idle"
  BY SyncTypes DEF Resting
<1>2. /\ thread' = [thread EXCEPT !["sync"] = Resting] /\ changed' = (changed \/ thread["sync"].news)
      /\ UNCHANGED <<sent, old, net, peer, msgs, rows, answer, charged, live, screen, dropped, restarts>>
  BY DEF SyncEnds, world
<1>3. Reporting => changed'
  BY <1>2, Zenon DEF Reporting
<1>4. changed => changed'
  BY <1>2, Zenon
<1>5. changed' \in BOOLEAN
  <2>1. thread["sync"].news \in BOOLEAN
    BY SyncTypes DEF Hands
  <2> QED
    BY <1>2, <2>1, SyncTypes
<1> QED
  BY <1>1, <1>2, <1>3, <1>4, <1>5, SyncTypes, SyncMoves

LEMMA SyncNextInv == ASSUME ChatAssumption, ChatInv, SyncNext PROVE ChatInv'
<1> DEFINE m == Head(answer)
           g == [thread["sync"] EXCEPT !.at = "store", !.msg = m, !.ids = {}]
<1>1. /\ At("sync", "done") /\ answer # <<>> /\ answer' = Tail(answer)
      /\ UNCHANGED <<sent, old, net, peer, msgs, rows, live, changed, screen, dropped, restarts>>
  BY DEF SyncNext, world, tui
<1>2. m \in 1..sent /\ Tail(answer) \in Seq(1..sent)
  BY <1>1, SyncTypes, ToSetTail
<1>3. CASE m \in Own \/ charged < SyncQuota
  <2>1. /\ charged' = IF m \in Own THEN charged ELSE charged + 1
        /\ Begin("sync", m)
    BY <1>3 DEF SyncNext
  <2>2. charged' \in 0..SyncQuota
    BY <1>3, <2>1, SyncTypes DEF ChatAssumption
  <2>3. thread' = [thread EXCEPT !["sync"] = g]
    <3>1. thread \in [Threads -> Hands(sent)]
      BY DEF ChatInv, ChatTypes
    <3> QED
      BY <2>1, <3>1 DEF Begin
  <2>4. g \in Hands(sent) /\ g.at = "store" /\ g.msg = m /\ g.news = thread["sync"].news
    <3>1. thread["sync"] \in Hands(sent) /\ m \in 0..sent
      BY <1>2, SyncTypes
    <3> HIDE DEF m
    <3> QED
      BY <3>1 DEF Hands, Places
  <2> HIDE DEF g, m
  <2>5. m # 0 /\ (Reporting => g.news)
    BY <1>2, <2>4 DEF Reporting
  <2> QED
    BY <1>1, <1>2, <2>2, <2>3, <2>4, <2>5, SyncTypes, SyncMoves
<1>4. CASE ~(m \in Own \/ charged < SyncQuota)
  <2>1. charged' = charged /\ thread' = thread
    BY <1>4 DEF SyncNext
  <2>2. thread' = [thread EXCEPT !["sync"] = thread["sync"]]
    <3>1. thread \in [Threads -> Hands(sent)]
      BY DEF ChatInv, ChatTypes
    <3> QED
      BY <2>1, <3>1
  <2>3. /\ Reporting => thread["sync"].news
        /\ thread["sync"].at = "done"
    BY <1>1 DEF Reporting, At
  <2> QED
    BY <1>1, <1>2, <2>1, <2>2, <2>3, SyncTypes, SyncMoves
<1> QED
  BY <1>3, <1>4

-----------------------------------------------------------------------------
(* The screen, the peer and the clean-ups.                                  *)

LEMMA ShowLiveInv == ASSUME ChatAssumption, ChatInv, ShowLive PROVE ChatInv'
<1>1. /\ ChatTypes /\ Equipped /\ Accounted
  BY DEF ChatInv
<1>2. /\ live # <<>> /\ screen' = Append(screen, Head(live)) /\ live' = Tail(live)
      /\ UNCHANGED <<sent, old, net, peer, msgs, rows, thread, answer, charged, changed, dropped, restarts>>
  BY DEF ShowLive, world, store
<1>3. live \in Seq(1..sent) /\ screen \in Seq(1..sent) /\ Len(live) <= LiveCap
  BY <1>1 DEF ChatTypes
<1>4. /\ Head(live) \in 1..sent /\ live' \in Seq(1..sent) /\ Len(live') = Len(live) - 1
      /\ ToSet(live) \subseteq ToSet(live') \cup {Head(live)}
  BY <1>2, <1>3, ToSetTail
<1>5. screen' \in Seq(1..sent) /\ ToSet(screen') = ToSet(screen) \cup {Head(live)}
  BY <1>2, <1>3, <1>4, ToSetAppend
<1>6. Len(live') <= LiveCap
  <2>1. Len(live) \in Nat /\ LiveCap \in Nat
    BY <1>3 DEF ChatAssumption
  <2> QED
    BY <1>3, <1>4, <2>1
<1>7. ChatTypes'
  BY <1>1, <1>2, <1>4, <1>5, <1>6 DEF ChatTypes
<1>8. Equipped'
  BY <1>1, <1>2 DEF Equipped, At
<1>9. ASSUME NEW x \in Known' PROVE Showable(x)'
  <2>1. Showable(x)
    BY <1>1, <1>2, <1>9 DEF Accounted, Known
  <2> QED
    BY <1>2, <1>4, <1>5, <2>1 DEF Showable, Reporting, InHand, At
<1> QED
  BY <1>7, <1>8, <1>9 DEF ChatInv, Accounted

LEMMA ShowHistoryInv == ASSUME ChatAssumption, ChatInv, ShowHistory PROVE ChatInv'
<1>1. /\ ChatTypes /\ Equipped /\ Accounted
  BY DEF ChatInv
<1>2. /\ screen' = msgs /\ dropped' = {} /\ changed' = FALSE
      /\ UNCHANGED <<sent, old, net, peer, msgs, rows, thread, answer, charged, live, restarts>>
  BY DEF ShowHistory, world, store
<1>3. ChatTypes'
  BY <1>1, <1>2 DEF ChatTypes
<1>4. Equipped'
  BY <1>1, <1>2 DEF Equipped, At
<1>5. Accounted'
  BY <1>2 DEF Accounted, Known, Showable
<1> QED
  BY <1>3, <1>4, <1>5 DEF ChatInv

\* Nothing of the node changes but, at most, what it keeps, which shrinks.
LEMMA LessKept ==
    ASSUME ChatInv, ToSet(msgs') \subseteq ToSet(msgs), msgs' \in Seq(1..sent'), IsInjective(msgs'),
           UNCHANGED <<thread, charged, changed, dropped, restarts, answer, live, screen>>,
           sent' \in 0..Count, sent \in Nat, sent <= sent', old' \in 0..sent', net' \subseteq 1..sent',
           peer' \in Seq(1..sent'), rows' \subseteq rows
    PROVE  ChatInv'
<1>1. /\ ChatTypes /\ Equipped /\ Accounted
  BY DEF ChatInv
<1>2. sent' \in Nat
  OBVIOUS
<1>3. /\ 1..sent \subseteq 1..sent'
      /\ answer' \in Seq(1..sent') /\ live' \in Seq(1..sent') /\ screen' \in Seq(1..sent')
      /\ thread' \in [Threads -> Hands(sent')]
  BY <1>1, <1>2, MoreSent
<1>4. ChatTypes'
  <2>1. /\ rows' \subseteq 1..sent' /\ dropped' \subseteq 1..sent' /\ charged' \in 0..SyncQuota
        /\ Len(live') <= LiveCap /\ changed' \in BOOLEAN /\ restarts' \in 0..MaxRestarts
    BY <1>1, <1>3 DEF ChatTypes
  <2> QED
    BY <1>3, <2>1 DEF ChatTypes
<1>5. Equipped'
  BY <1>1 DEF Equipped, At
<1>6. ASSUME NEW x \in Known' PROVE Showable(x)'
  <2>1. Showable(x)
    BY <1>1, <1>6 DEF Accounted, Known
  <2> QED
    BY <2>1 DEF Showable, Reporting, InHand, At
<1> QED
  BY <1>4, <1>5, <1>6 DEF ChatInv, Accounted

LEMMA PeerStoresTypes ==
    ASSUME ChatAssumption, NEW n \in Nat, peer \in Seq(1..n), NEW m \in 1..n, PeerStores(m)
    PROVE  peer' \in Seq(1..n)
<1>1. Append(peer, m) \in Seq(1..n)
  BY ToSetAppend
<1>2. Room(Append(peer, m)) \in Seq(1..n)
  BY <1>1, RoomIs
<1> QED
  BY <1>2 DEF PeerStores

LEMMA EnvironmentInv ==
    ASSUME ChatAssumption, ChatInv, SendElsewhere \/ PeerSyncs \/ Expire \/ PeerCleans \/ Cleanup
    PROVE  ChatInv'
<1>1. ChatTypes
  BY DEF ChatInv
<1>2. /\ sent \in Nat /\ Count \in Nat /\ sent \in 0..Count /\ old \in 0..sent /\ net \subseteq 1..sent
      /\ peer \in Seq(1..sent) /\ msgs \in Seq(1..sent) /\ IsInjective(msgs) /\ rows \subseteq rows
      /\ ToSet(msgs) \subseteq ToSet(msgs) /\ sent <= sent
  BY <1>1 DEF ChatTypes, ChatAssumption
<1>3. CASE SendElsewhere
  <2>1. /\ sent' = sent + 1 /\ sent < Count /\ PeerStores(sent + 1) /\ net' \in {net, net \cup {sent + 1}}
        /\ UNCHANGED <<old, msgs, rows, thread, answer, charged, live, changed, screen, dropped, restarts>>
    BY <1>3 DEF SendElsewhere, store, tui
  <2>2. sent + 1 \in Nat /\ sent + 1 \in 1..(sent + 1) /\ sent <= sent + 1
    BY <1>2
  <2>3. /\ 1..sent \subseteq 1..(sent + 1) /\ peer \in Seq(1..(sent + 1)) /\ msgs \in Seq(1..(sent + 1))
    BY <1>1, <2>2, MoreSent
  <2>4. peer' \in Seq(1..(sent + 1))
    <3> DEFINE n == sent + 1
    <3>1. n \in Nat /\ n \in 1..n /\ peer \in Seq(1..n) /\ PeerStores(n)
      BY <2>1, <2>2, <2>3
    <3> HIDE DEF n
    <3>2. peer' \in Seq(1..n)
      BY <3>1, PeerStoresTypes, Zenon
    <3> QED
      BY <3>2 DEF n
  <2>5. sent' \in 0..Count /\ old' \in 0..sent' /\ sent <= sent'
    BY <1>2, <2>1
  <2>6. net' \subseteq 1..sent'
    BY <1>2, <2>1, <2>2, <2>3, Zenon
  <2> QED
    BY <1>2, <2>1, <2>3, <2>4, <2>5, <2>6, LessKept
<1>4. CASE PeerSyncs
  <2>1. /\ Missing(msgs, ToSet(peer)) # <<>> /\ PeerStores(Missing(msgs, ToSet(peer))[1])
        /\ UNCHANGED <<sent, old, net, msgs, rows, thread, answer, charged, live, changed, screen, dropped, restarts>>
    BY <1>4 DEF PeerSyncs, store, tui
  <2>2. Missing(msgs, ToSet(peer)) \in Seq(1..sent)
    BY <1>2, MissingIs
  <2>3. Missing(msgs, ToSet(peer))[1] \in 1..sent
    <3> DEFINE s == Missing(msgs, ToSet(peer))
    <3>1. s # <<>> /\ s \in Seq(1..sent)
      BY <2>1, <2>2
    <3> HIDE DEF s
    <3>2. s[1] \in 1..sent
      <4>1. 1 \in 1..Len(s)
        BY <3>1
      <4> QED
        BY <3>1, <4>1, ElementOfSeq
    <3> QED
      BY <3>2 DEF s
  <2>4. peer' \in Seq(1..sent)
    BY <1>2, <2>1, <2>3, PeerStoresTypes
  <2> QED
    BY <1>2, <2>1, <2>4, LessKept
<1>5. CASE Expire
  <2>1. /\ old < sent /\ old' = old + 1
        /\ UNCHANGED <<sent, net, peer, msgs, rows, thread, answer, charged, live, changed, screen, dropped, restarts>>
    BY <1>5 DEF Expire, store, tui
  <2>2. old' \in 0..sent
    BY <1>2, <2>1
  <2> QED
    BY <1>2, <2>1, <2>2, LessKept
<1>6. CASE PeerCleans
  <2>1. /\ peer' = Without(peer, Overdue)
        /\ UNCHANGED <<sent, old, net, msgs, rows, thread, answer, charged, live, changed, screen, dropped, restarts>>
    BY <1>6 DEF PeerCleans, store, tui
  <2>2. peer' \in Seq(1..sent)
    BY <1>2, <2>1, WithoutIs
  <2> QED
    BY <1>2, <2>1, <2>2, LessKept
<1>7. CASE Cleanup
  <2>1. /\ rows' = rows \ Overdue /\ msgs' = Without(msgs, Overdue)
        /\ UNCHANGED <<sent, old, net, peer, thread, answer, charged, live, changed, screen, dropped, restarts>>
    BY <1>7 DEF Cleanup, world, tui
  <2>2. msgs' \in Seq(1..sent) /\ ToSet(msgs') \subseteq ToSet(msgs) /\ IsInjective(msgs')
    BY <1>2, <2>1, WithoutIs
  <2>3. rows' \subseteq rows
    BY <2>1
  <2> QED
    BY <1>2, <2>1, <2>2, <2>3, LessKept
<1> QED
  BY <1>3, <1>4, <1>5, <1>6, <1>7

\* A restart shows what the table kept.
LEMMA ChatRestartInv == ASSUME ChatAssumption, ChatInv, ChatRestart PROVE ChatInv'
<1> DEFINE all == [m \in Messages |-> m]
           lost == Messages \ (rows \ Overdue)
           s == Without(all, lost)
<1>1. ChatTypes
  BY DEF ChatInv
<1>2. /\ restarts < MaxRestarts /\ restarts' = restarts + 1 /\ msgs' = s /\ screen' = s
      /\ thread' = [t \in Threads |-> Resting] /\ answer' = <<>> /\ charged' = 0
      /\ live' = <<>> /\ changed' = FALSE /\ dropped' = {}
      /\ UNCHANGED <<sent, old, net, peer, rows>>
  BY DEF ChatRestart, world
<1>3. Count \in Nat /\ SyncQuota \in Nat /\ LiveCap \in Nat /\ MaxRestarts \in Nat /\ sent \in 0..Count
  BY <1>1 DEF ChatTypes, ChatAssumption
<1>4. all \in Seq(1..Count) /\ IsInjective(all) /\ DOMAIN all = 1..Count
  BY <1>3 DEF Messages, IsInjective
<1>5. /\ s \in Seq(1..sent) /\ IsInjective(s)
  <2> DEFINE I == {i \in DOMAIN all : all[i] \notin lost}
  <2>1. s = AtPositions(all, I)
    BY DEF Without
  <2>2. I \in SUBSET (DOMAIN all)
    OBVIOUS
  <2>3. s \in Seq(1..Count) /\ IsInjective(s)
    BY <1>4, WithoutIs
  <2>4. DOMAIN s = 1..Cardinality(I) /\ Selects(s, all, I)
    <3> HIDE DEF s, I, all
    <3>1. DOMAIN AtPositions(all, I) = 1..Cardinality(I) /\ Selects(AtPositions(all, I), all, I)
      BY <1>4, <2>2, FilterKeeps, Zenon
    <3> QED
      BY <2>1, <3>1
  <2>5. \A i \in I : all[i] \in 1..sent
    <3>1. rows \subseteq 1..sent
      BY <1>1 DEF ChatTypes
    <3> QED
      BY <1>4, <3>1 DEF Messages
  <2> HIDE DEF s, I, all
  <2>6. \A k \in DOMAIN s : s[k] \in 1..sent
    BY <2>4, <2>5 DEF Selects
  <2>7. s \in Seq(1..sent)
    <3>1. Len(s) \in Nat /\ s = [k \in 1..Len(s) |-> s[k]] /\ DOMAIN s = 1..Len(s)
      BY <2>3
    <3>2. \A k \in 1..Len(s) : s[k] \in 1..sent
      BY <2>6, <3>1
    <3>3. s \in [1..Len(s) -> 1..sent]
      BY <3>1, <3>2
    <3> QED
      BY <3>1, <3>3, SeqDef
  <2> QED
    BY <2>3, <2>7
<1> HIDE DEF s
<1>6. Resting \in Hands(sent)
  BY SyncTypes
<1>7. thread' \in [Threads -> Hands(sent')] /\ \A t \in Threads : thread'[t] = Resting
  BY <1>2, <1>6
<1>8. ChatTypes'
  <2>1. live' \in Seq(1..sent') /\ Len(live') = 0 /\ answer' \in Seq(1..sent')
    BY <1>2
  <2>2. restarts' \in 0..MaxRestarts /\ charged' \in 0..SyncQuota /\ Len(live') <= LiveCap
    BY <1>1, <1>2, <1>3, <2>1 DEF ChatTypes
  <2> QED
    BY <1>1, <1>2, <1>5, <1>7, <2>1, <2>2 DEF ChatTypes
<1>9. Equipped'
  BY <1>7 DEF Equipped, At, Threads, Resting
<1>10. Accounted'
  BY <1>2 DEF Accounted, Known, Showable
<1> QED
  BY <1>8, <1>9, <1>10 DEF ChatInv

-----------------------------------------------------------------------------
LEMMA ChatStep == ASSUME ChatAssumption, ChatInv, [ChatNext]_chatVars PROVE ChatInv'
<1>1. CASE UNCHANGED chatVars
  <2>1. UNCHANGED <<sent, old, net, peer, msgs, rows, thread, answer, charged, live, changed, screen, dropped, restarts>>
    BY <1>1 DEF chatVars, world, store, tui
  <2> QED
    BY <2>1 DEF ChatInv, ChatTypes, Equipped, Accounted, Showable, Known, Reporting, InHand, At
<1>2. ASSUME NEW t \in Threads, Storing(t) PROVE ChatInv'
  BY <1>2, PersistInv, RowsInv DEF Storing
<1>3. CASE SyncSteps
  BY <1>2, <1>3, SyncAskInv, SyncAnswerInv, SyncNextInv, SyncEndsInv DEF SyncSteps, Threads
<1>4. CASE ChatNext
  BY <1>2, <1>3, <1>4, SendInv, PublishInv, HearInv, PublishLiveInv, SyncFailInv, ShowLiveInv, ShowHistoryInv,
     EnvironmentInv, ChatRestartInv DEF ChatNext, Threads
<1> QED
  BY <1>1, <1>4

LEMMA ChatComplete == ASSUME ChatInv PROVE ScreenComplete
<1>1. /\ ChatTypes /\ Equipped /\ Accounted
  BY DEF ChatInv
<1>2. ChatTypeOK
  <2>1. Known \subseteq 1..sent
    <3>1. msgs \in Seq(1..sent)
      BY <1>1 DEF ChatTypes
    <3> QED
      BY <3>1, ToSetIs DEF Known
  <2>2. \A t \in Threads : thread[t].at \in Places
    BY <1>1 DEF ChatTypes, Hands
  <2> QED
    BY <1>1, <2>1, <2>2 DEF ChatTypeOK, ChatTypes
<1>3. ASSUME Quiet PROVE Known \subseteq ToSet(screen) \cup dropped
  <2>1. ToSet(live) = {}
    BY <1>3 DEF Quiet, ToSet
  <2>2. \A m \in Known : m \in ToSet(screen) \cup dropped
    BY <1>1, <1>3, <2>1 DEF Quiet, Accounted, Showable, Reporting, InHand, At, Threads
  <2> QED
    BY <2>2
<1> QED
  BY <1>2, <1>3 DEF ScreenComplete

\* The inductive invariant of the chat: types, what each goroutine has in
\* hand, and that every message the node keeps is on the screen, on its way
\* there or noted as dropped.
THEOREM ChatInvariance == ChatSpec => []ChatInv
  BY ChatAssumption, ChatInitially, ChatStep, PTL DEF ChatSpec

\* For any number of messages and any limits, nothing falls between the live
\* channel, the signal and the rebuilt history (chatlog.go:645-713).
THEOREM AlwaysComplete == ChatSpec => []ScreenComplete
  BY ChatInvariance, ChatComplete, PTL

-----------------------------------------------------------------------------
(* Part 3: the limits on authors.                                           *)
\* What the memory and the file hold of an author.
Buckets == [times : [Kinds -> Seq(Nat)], seen : Nat, violations : Seq(Nat), mutedUntil : Nat,
            muteCount : Nat, lastMute : Nat, said : [Texts -> [count : Nat, at : Nat]]]

\* Times in the order they were noted, none of them to come.
Ordered(s, n) ==
    /\ \A i \in DOMAIN s : s[i] \in 1..n
    /\ \A i, j \in DOMAIN s : i <= j => s[i] <= s[j]

\* A bucket that can exist at n: no kind has more than its limit, and a mute
\* just given is in force.
BucketFine(b, n) ==
    /\ b \in Buckets
    /\ \A k \in Kinds : Ordered(b.times[k], n) /\ Len(b.times[k]) <= Rule[k].max
    /\ Ordered(b.violations, n)
    /\ b.seen <= n /\ b.lastMute <= n
    /\ b.mutedUntil <= b.lastMute + MuteCap
    /\ b.lastMute = n => b.mutedUntil > n

Fine(b, n) == b = None \/ BucketFine(b, n)

TimesOf(b, k) == IF b = None THEN <<>> ELSE b.times[k]

\* How many of the times s still count at t.
Late(s, t) == Cardinality({i \in DOMAIN s : s[i] + Window > t})

\* Whatever of the times s counts, now or later, is counted in r.
CountedIn(s, r, n) == \A t \in Nat : t >= n => Late(s, t) <= Late(r, t)

\* The last mute has no effect any more: neither in force nor remembered.
Over(s, n) == s.length = 0 \/ (n > s.at + Decay /\ s.at + s.length <= n)

\* No bucket knows of a later mute than the last, and one that knows of the
\* last knows its length and its end.
Matches(b, s, n) ==
    b # None =>
        /\ b.lastMute <= s.at
        /\ b.lastMute = s.at /\ s.length > 0 =>
             /\ b.muteCount > 0
             /\ s.length = IF MuteBase * b.muteCount > MuteCap THEN MuteCap ELSE MuteBase * b.muteCount
             /\ \/ b.mutedUntil = s.at + s.length
                \/ b.mutedUntil = 0 /\ s.at + s.length <= n

\* A mute that still has an effect is not forgotten.
Remembers(b, s, n) == Over(s, n) \/ (b # None /\ b.lastMute = s.at)

Sentences(n) == [at : 0..n, length : 0..MuteCap]

LimitsTypes ==
    /\ now \in 1..MaxTime /\ dirty \in BOOLEAN
    /\ DOMAIN bucket = Authors /\ DOMAIN file = Authors
    /\ \A a \in Authors : Fine(bucket[a], now) /\ Fine(file[a], now)
    /\ global \in [Kinds -> Seq(Nat)]
    /\ taken \in [Authors -> [Kinds -> Seq(Nat)]]
    /\ sentence \in [Authors -> Sentences(now)]
    /\ \A a \in Authors : sentence[a].length > 0 => sentence[a].at > 0

\* Everything that was let through is counted, in memory and, unless a save is
\* due, in the file.
AllCounted ==
    \A a \in Authors, k \in Kinds :
        /\ CountedIn(taken[a][k], TimesOf(bucket[a], k), now)
        /\ ~dirty => CountedIn(taken[a][k], TimesOf(file[a], k), now)

\* So is the last mute, and the file knows of no mute the memory has forgotten.
MutesKnown ==
    \A a \in Authors :
        /\ Matches(bucket[a], sentence[a], now) /\ Matches(file[a], sentence[a], now)
        /\ Remembers(bucket[a], sentence[a], now)
        /\ ~dirty => Remembers(file[a], sentence[a], now)
        /\ file[a] # None /\ file[a].lastMute = now
             => bucket[a] # None /\ bucket[a].lastMute = now

\* The inductive invariant of the limits.
LimitsInv == LimitsTypes /\ AllCounted /\ MutesKnown

-----------------------------------------------------------------------------
LEMMA NotNone == None \notin Buckets
<1> SUFFICES ASSUME None \in Buckets PROVE FALSE
  OBVIOUS
<1>1. DOMAIN None = {"none"}
  BY DEF None
<1>2. \A b \in Buckets : "seen" \in DOMAIN b
  BY DEF Buckets
<1> QED
  BY <1>1, <1>2

LEMMA CountTo == \A n \in Nat : IsFiniteSet(1..n) /\ Cardinality(1..n) = n
  BY FS_Interval

\* The times that are kept, and how many of them count.
LEMMA KeepAfterIs ==
    ASSUME LimitsAssumption, NEW s \in Seq(Nat), NEW age \in Nat, now \in Nat
    PROVE  /\ KeepAfter(s, age) \in Seq(Nat)
           /\ Len(KeepAfter(s, age)) \in Nat
           /\ Len(KeepAfter(s, age)) <= Len(s)
           /\ Ordered(s, now) => Ordered(KeepAfter(s, age), now)
<1> DEFINE I == {i \in DOMAIN s : s[i] + age > now}
           t == AtPositions(s, I)
<1>0. t = KeepAfter(s, age)
  BY DEF KeepAfter
<1>1. I \in SUBSET (DOMAIN s)
  OBVIOUS
<1>2. t \in Seq(Nat) /\ DOMAIN t = 1..Cardinality(I) /\ Cardinality(I) \in Nat /\ Selects(t, s, I)
  BY <1>1, FilterKeeps
<1>3. Len(s) \in Nat /\ DOMAIN s = 1..Len(s)
  OBVIOUS
<1> HIDE DEF t, I
<1>4. Cardinality(I) <= Len(s)
  <2>1. IsFiniteSet(1..Len(s)) /\ Cardinality(1..Len(s)) = Len(s)
    BY <1>3, CountTo
  <2> QED
    BY <1>1, <1>3, <2>1, FS_Subset
<1>5. Len(t) = Cardinality(I)
  BY <1>2
<1>6. PICK f \in [DOMAIN t -> I] :
        /\ \A k \in DOMAIN t : t[k] = s[f[k]]
        /\ \A k, l \in DOMAIN t : k < l <=> f[k] < f[l]
  BY <1>2 DEF Selects
<1>7. ASSUME Ordered(s, now) PROVE Ordered(t, now)
  <2>1. \A k \in DOMAIN t : f[k] \in DOMAIN s /\ f[k] \in Nat /\ k \in Nat
    BY <1>1, <1>2, <1>3, <1>6
  <2>2. \A k \in DOMAIN t : t[k] \in 1..now
    BY <1>6, <1>7, <2>1 DEF Ordered
  <2>3. ASSUME NEW k \in DOMAIN t, NEW l \in DOMAIN t, k <= l PROVE t[k] <= t[l]
    <3>1. f[k] <= f[l]
      BY <1>6, <2>1, <2>3
    <3> QED
      BY <1>6, <1>7, <2>1, <3>1 DEF Ordered
  <2> QED
    BY <2>2, <2>3 DEF Ordered
<1> QED
  BY <1>0, <1>2, <1>4, <1>5, <1>7

LEMMA LateIs ==
    ASSUME LimitsAssumption, NEW s \in Seq(Nat), NEW t \in Nat
    PROVE  /\ Late(s, t) \in Nat /\ Late(s, t) <= Len(s)
           /\ \A x \in Nat : Late(Append(s, x), t) = Late(s, t) + (IF x + Window > t THEN 1 ELSE 0)
<1> DEFINE J == {i \in DOMAIN s : s[i] + Window > t}
<1>1. Len(s) \in Nat /\ J \in SUBSET (1..Len(s))
  OBVIOUS
<1>2. IsFiniteSet(1..Len(s)) /\ Cardinality(1..Len(s)) = Len(s)
  BY <1>1, CountTo
<1>3. IsFiniteSet(J) /\ Cardinality(J) <= Len(s)
  BY <1>1, <1>2, FS_Subset
<1>4. Cardinality(J) \in Nat
  BY <1>3, FS_CardinalityType
<1>5. ASSUME NEW x \in Nat
      PROVE  Late(Append(s, x), t) = Late(s, t) + (IF x + Window > t THEN 1 ELSE 0)
  <2> DEFINE n == Len(s) + 1
             K == {i \in DOMAIN Append(s, x) : Append(s, x)[i] + Window > t}
  <2>1. n \notin J /\ DOMAIN Append(s, x) = 1..n /\ Append(s, x)[n] = x
        /\ \A i \in 1..Len(s) : Append(s, x)[i] = s[i]
    BY <1>1
  <2>2. \A i \in 1..n : i \in 1..Len(s) \/ i = n
    BY <1>1
  <2>3. n \in 1..n /\ \A i \in 1..Len(s) : i \in 1..n
    BY <1>1
  <2>4. DOMAIN s = 1..Len(s)
    OBVIOUS
  <2> DEFINE r == Append(s, x)
  <2> HIDE DEF n, r
  <2>5. CASE x + Window > t
    <3>1. K = J \cup {n}
      BY <2>1, <2>2, <2>3, <2>4, <2>5
    <3>2. Cardinality(K) = Cardinality(J) + 1
      BY <1>3, <2>1, <3>1, FS_AddElement
    <3> QED
      BY <2>5, <3>2 DEF Late
  <2>6. CASE ~(x + Window > t)
    <3>1. K = J
      BY <2>1, <2>2, <2>3, <2>4, <2>6
    <3>2. Late(Append(s, x), t) = Cardinality(K) /\ Late(s, t) = Cardinality(J)
      BY Zenon DEF Late
    <3> HIDE DEF J, K
    <3> QED
      BY <1>4, <2>6, <3>1, <3>2
  <2> QED
    BY <2>5, <2>6
<1> QED
  BY <1>3, <1>4, <1>5 DEF Late

\* Dropping what is outside the window changes no later count.
LEMMA LateKept ==
    ASSUME LimitsAssumption, NEW s \in Seq(Nat), now \in Nat, NEW t \in Nat, t >= now
    PROVE  Late(KeepAfter(s, Window), t) = Late(s, t)
<1> DEFINE I == {i \in DOMAIN s : s[i] + Window > now}
           r == AtPositions(s, I)
           X == {x \in Nat : x + Window > t}
<1>0. r = KeepAfter(s, Window) /\ Window \in Nat
  BY DEF KeepAfter, LimitsAssumption
<1>1. I \in SUBSET (DOMAIN s)
  OBVIOUS
<1>2. Cardinality(Hits(r, DOMAIN r, X)) = Cardinality(Hits(s, I, X))
  BY <1>1, FilterCounts
<1>3. Hits(s, I, X) = {i \in DOMAIN s : s[i] + Window > t}
  <2>1. \A i \in DOMAIN s : s[i] \in Nat
    OBVIOUS
  <2>2. \A i \in DOMAIN s : s[i] + Window > t => s[i] + Window > now
    BY <1>0, <2>1
  <2> QED
    BY <2>1, <2>2 DEF Hits
<1>4. Hits(r, DOMAIN r, X) = {i \in DOMAIN r : r[i] + Window > t}
  <2>1. r \in Seq(Nat)
    BY <1>1, FilterKeeps
  <2> HIDE DEF r
  <2>2. \A i \in DOMAIN r : r[i] \in Nat
    BY <2>1
  <2> QED
    BY <2>2 DEF Hits
<1> QED
  BY <1>0, <1>2, <1>3, <1>4 DEF Late

LEMMA KeptLength ==
    ASSUME LimitsAssumption, NEW s \in Seq(Nat), now \in Nat
    PROVE  Len(KeepAfter(s, Window)) = Late(s, now)
<1> DEFINE I == {i \in DOMAIN s : s[i] + Window > now}
           r == AtPositions(s, I)
<1>1. I \in SUBSET (DOMAIN s)
  OBVIOUS
<1>2. r \in Seq(Nat) /\ DOMAIN r = 1..Cardinality(I) /\ Cardinality(I) \in Nat
  BY <1>1, FilterKeeps
<1> HIDE DEF r, I
<1>3. Len(r) = Cardinality(I)
  BY <1>2
<1> QED
  BY <1>3 DEF r, I, KeepAfter, Late

-----------------------------------------------------------------------------
(* What a bucket becomes.                                                   *)

LEMMA BucketIs ==
    ASSUME NEW b, BucketFine(b, now)
    PROVE  /\ b \in Buckets /\ b # None
           /\ b.seen \in Nat /\ b.mutedUntil \in Nat /\ b.muteCount \in Nat /\ b.lastMute \in Nat
           /\ b.times \in [Kinds -> Seq(Nat)] /\ b.violations \in Seq(Nat)
           /\ b.said \in [Texts -> [count : Nat, at : Nat]]
<1>1. b \in Buckets
  BY DEF BucketFine
<1> QED
  BY <1>1, NotNone DEF Buckets

\* The name of a constant and its type.
LEMMA LimitsNumbers ==
    ASSUME LimitsAssumption, RuleAssumption
    PROVE  /\ Window \in Nat /\ ViolationWindow \in Nat /\ Threshold \in Nat /\ Decay \in Nat /\ DupWindow \in Nat
           /\ MuteBase \in Nat \ {0} /\ MuteCap \in Nat \ {0} /\ MaxTime \in Nat \ {0}
           /\ \A k \in Kinds : /\ Rule[k].max \in Nat /\ Rule[k].newMax \in Nat /\ Rule[k].newMax <= Rule[k].max
                               /\ Rule[k].text \in BOOLEAN
  BY DEF LimitsAssumption, RuleAssumption, Rules

LEMMA NewBucketFine ==
    ASSUME LimitsAssumption, RuleAssumption, now \in Nat \ {0}
    PROVE  BucketFine(NewBucket, now)
<1>1. NewBucket \in Buckets
  BY DEF NewBucket, Buckets, NoTimes, Unsaid
<1>2. \A k \in Kinds : NewBucket.times[k] = <<>>
  BY DEF NewBucket, NoTimes
<1>3. Ordered(<<>>, now) /\ Len(<<>>) = 0
  BY DEF Ordered
<1> QED
  BY <1>1, <1>2, <1>3, LimitsNumbers DEF BucketFine, NewBucket

LEMMA OrderedAppend ==
    ASSUME now \in Nat \ {0}, NEW s \in Seq(Nat), Ordered(s, now)
    PROVE  Append(s, now) \in Seq(Nat) /\ Len(Append(s, now)) = Len(s) + 1 /\ Ordered(Append(s, now), now)
<1> DEFINE r == Append(s, now)
           n == Len(s)
<1>1. /\ r \in Seq(Nat) /\ Len(r) = n + 1 /\ n \in Nat /\ DOMAIN r = 1..(n + 1) /\ DOMAIN s = 1..n
      /\ \A i \in 1..n : r[i] = s[i]
      /\ r[n + 1] = now
  OBVIOUS
<1> HIDE DEF r, n
<1>2. \A i \in 1..(n + 1) : i \in 1..n \/ i = n + 1
  BY <1>1
<1>3. \A i \in 1..n : s[i] \in 1..now
  BY <1>1 DEF Ordered
<1>4. \A i \in DOMAIN r : r[i] \in 1..now
  BY <1>1, <1>2, <1>3
<1>5. ASSUME NEW i \in DOMAIN r, NEW j \in DOMAIN r, i <= j PROVE r[i] <= r[j]
  <2>1. CASE j = n + 1
    BY <1>1, <1>4, <2>1
  <2>2. CASE j \in 1..n
    <3>1. i \in 1..n
      BY <1>1, <1>2, <1>5, <2>2
    <3> QED
      BY <1>1, <1>5, <2>2, <3>1 DEF Ordered
  <2> QED
    BY <1>1, <1>2, <2>1, <2>2
<1> QED
  BY <1>1, <1>4, <1>5 DEF Ordered, r, n

\* One more in the window of kind k.
LEMMA ChargedFine ==
    ASSUME LimitsAssumption, RuleAssumption, now \in Nat \ {0}, NEW b, BucketFine(b, now), NEW k \in Kinds, Allowed(b, k)
    PROVE  /\ BucketFine(Charged(b, k), now)
           /\ Charged(b, k).times[k] = Append(KeepAfter(b.times[k], Window), now)
           /\ \A l \in Kinds : l # k => Charged(b, k).times[l] = b.times[l]
           /\ Charged(b, k).lastMute = b.lastMute /\ Charged(b, k).mutedUntil = b.mutedUntil
           /\ Charged(b, k).muteCount = b.muteCount
<1> DEFINE ts == KeepAfter(b.times[k], Window)
           c == Charged(b, k)
<1>1. b.times[k] \in Seq(Nat) /\ Ordered(b.times[k], now) /\ b \in Buckets
  BY BucketIs DEF BucketFine
<1>2. ts \in Seq(Nat) /\ Ordered(ts, now) /\ Len(ts) \in Nat
  BY <1>1, KeepAfterIs, LimitsNumbers
<1>3. Len(ts) < Rule[k].max
  BY <1>2, LimitsNumbers DEF Allowed, Limit
<1> HIDE DEF ts
<1>4. Append(ts, now) \in Seq(Nat) /\ Ordered(Append(ts, now), now) /\ Len(Append(ts, now)) <= Rule[k].max
  <2>1. Append(ts, now) \in Seq(Nat) /\ Ordered(Append(ts, now), now) /\ Len(Append(ts, now)) = Len(ts) + 1
    BY <1>2, OrderedAppend
  <2> QED
    BY <1>2, <1>3, <2>1, LimitsNumbers
<1>5. c = [b EXCEPT !.times = [b.times EXCEPT ![k] = Append(ts, now)]]
  BY <1>1 DEF Charged, Buckets, ts
<1> DEFINE us == [b.times EXCEPT ![k] = Append(ts, now)]
<1>6. us \in [Kinds -> Seq(Nat)] /\ us[k] = Append(ts, now) /\ \A l \in Kinds : l # k => us[l] = b.times[l]
  BY <1>1, <1>4 DEF Buckets
<1> HIDE DEF us, c
<1>7. /\ c \in Buckets /\ c.times = us /\ c.violations = b.violations /\ c.seen = b.seen
      /\ c.lastMute = b.lastMute /\ c.mutedUntil = b.mutedUntil /\ c.muteCount = b.muteCount
  BY <1>1, <1>5, <1>6 DEF Buckets, us
<1>8. BucketFine(c, now)
  BY <1>4, <1>6, <1>7 DEF BucketFine
<1> QED
  BY <1>6, <1>7, <1>8 DEF c, ts

LEMMA SaidFine ==
    ASSUME LimitsAssumption, RuleAssumption, now \in Nat \ {0}, NEW b, BucketFine(b, now), NEW t \in Texts
    PROVE  /\ BucketFine(Said(b, t), now)
           /\ Said(b, t).times = b.times /\ Said(b, t).lastMute = b.lastMute
           /\ Said(b, t).mutedUntil = b.mutedUntil /\ Said(b, t).muteCount = b.muteCount
<1>1. Fresh(b) \in [Texts -> [count : Nat, at : Nat]]
  BY BucketIs DEF Fresh, Unsaid
<1> DEFINE f == [Fresh(b) EXCEPT ![t].count = @ + 1, ![t].at = now]
<1>2. f \in [Texts -> [count : Nat, at : Nat]]
  <2>1. [Fresh(b)[t] EXCEPT !.count = Fresh(b)[t].count + 1, !.at = now] \in [count : Nat, at : Nat]
    <3> DEFINE r == Fresh(b)[t]
    <3>1. r \in [count : Nat, at : Nat]
      BY <1>1
    <3> HIDE DEF r
    <3> DEFINE x == r.count + 1
    <3>2. x \in Nat
      BY <3>1
    <3> HIDE DEF x
    <3>3. [r EXCEPT !.count = x, !.at = now] \in [count : Nat, at : Nat]
      BY <3>1, <3>2
    <3> QED
      BY <3>3 DEF r, x
  <2>2. f = [Fresh(b) EXCEPT ![t] = [Fresh(b)[t] EXCEPT !.count = Fresh(b)[t].count + 1, !.at = now]]
    BY <1>1
  <2> QED
    BY <1>1, <2>1, <2>2
<1>3. Said(b, t) = [b EXCEPT !.said = f] /\ b \in Buckets
  BY BucketIs DEF Said
<1> HIDE DEF f
<1>4. /\ Said(b, t) \in Buckets /\ Said(b, t).times = b.times /\ Said(b, t).violations = b.violations
      /\ Said(b, t).lastMute = b.lastMute /\ Said(b, t).mutedUntil = b.mutedUntil
      /\ Said(b, t).muteCount = b.muteCount /\ Said(b, t).seen = b.seen
  BY <1>2, <1>3 DEF Buckets
<1> QED
  BY <1>4 DEF BucketFine

LEMMA BlamedFine ==
    ASSUME LimitsAssumption, RuleAssumption, now \in Nat \ {0}, NEW b, BucketFine(b, now)
    PROVE  /\ BucketFine(Blamed(b), now) /\ Blamed(b).times = b.times /\ Blamed(b).lastMute = b.lastMute
           /\ Blamed(b).mutedUntil = b.mutedUntil /\ Blamed(b).muteCount = b.muteCount
<1> DEFINE vs == KeepAfter(b.violations, ViolationWindow)
<1>1. vs \in Seq(Nat) /\ Ordered(vs, now)
  BY BucketIs, KeepAfterIs, LimitsNumbers DEF BucketFine
<1> HIDE DEF vs
<1>2. Append(vs, now) \in Seq(Nat) /\ Ordered(Append(vs, now), now)
  BY <1>1, OrderedAppend
<1>3. Blamed(b) = [b EXCEPT !.violations = Append(vs, now)] /\ b \in Buckets
  BY BucketIs DEF Blamed, vs, Buckets
<1>4. /\ Blamed(b) \in Buckets /\ Blamed(b).times = b.times /\ Blamed(b).violations = Append(vs, now)
      /\ Blamed(b).lastMute = b.lastMute /\ Blamed(b).mutedUntil = b.mutedUntil
      /\ Blamed(b).muteCount = b.muteCount /\ Blamed(b).seen = b.seen
  BY <1>2, <1>3 DEF Buckets
<1> QED
  BY <1>2, <1>4 DEF BucketFine

\* How long a mute is.
Term(count) == IF MuteBase * count > MuteCap THEN MuteCap ELSE MuteBase * count

LEMMA TermIs ==
    ASSUME LimitsAssumption, RuleAssumption, NEW c \in Nat \ {0}
    PROVE  /\ Term(c) \in 1..MuteCap
           /\ Term(c) <= Term(c + 1)
           /\ Term(c) < MuteCap => Term(c) < Term(c + 1)
<1>1. MuteBase \in Nat \ {0} /\ MuteCap \in Nat \ {0}
  BY LimitsNumbers
<1>2. MuteBase * c \in Nat /\ MuteBase * c >= 1 /\ MuteBase * (c + 1) = MuteBase * c + MuteBase
  BY <1>1
<1> DEFINE p == MuteBase * c
           q == MuteBase * (c + 1)
<1>3. p \in Nat /\ p >= 1 /\ q = p + MuteBase
  BY <1>2
<1>4. Term(c) = (IF p > MuteCap THEN MuteCap ELSE p) /\ Term(c + 1) = IF q > MuteCap THEN MuteCap ELSE q
  BY DEF Term
<1> HIDE DEF p, q
<1> QED
  BY <1>1, <1>3, <1>4

LEMMA PunishedFine ==
    ASSUME LimitsAssumption, RuleAssumption, now \in Nat \ {0}, NEW b, BucketFine(b, now)
    PROVE  /\ BucketFine(Punished(b), now) /\ Punished(b).times = b.times /\ Punished(b).lastMute = now
           /\ Punished(b).muteCount = Mutes(b).count /\ Mutes(b).count \in Nat \ {0}
           /\ Mutes(b).length = Term(Mutes(b).count) /\ Mutes(b).length \in 1..MuteCap
           /\ Punished(b).mutedUntil = now + Mutes(b).length
<1> DEFINE c == Mutes(b).count
           n == Mutes(b).length
           v == Blamed(b)
<1>1. /\ BucketFine(v, now) /\ v.times = b.times /\ v \in Buckets
  BY BlamedFine, BucketIs
<1>2. c \in Nat \ {0} /\ n = Term(c)
  BY BucketIs DEF Mutes, Term
<1>3. n \in 1..MuteCap /\ n \in Nat /\ MuteCap \in Nat
  BY <1>2, TermIs, LimitsNumbers
<1>4. Punished(b) = [v EXCEPT !.mutedUntil = now + n, !.muteCount = c, !.lastMute = now]
  BY DEF Punished
<1> DEFINE e == now + n
<1>7. e \in Nat
  BY <1>3
<1> HIDE DEF c, n, v, e
<1>5. /\ Punished(b) \in Buckets /\ Punished(b).times = v.times /\ Punished(b).violations = v.violations
      /\ Punished(b).seen = v.seen /\ Punished(b).lastMute = now /\ Punished(b).mutedUntil = now + n
      /\ Punished(b).muteCount = c
  BY <1>1, <1>2, <1>4, <1>7 DEF Buckets, e
<1>6. BucketFine(Punished(b), now)
  <2>1. now + n <= now + MuteCap /\ now + n > now
    BY <1>3
  <2> QED
    BY <1>1, <1>5, <2>1 DEF BucketFine
<1> QED
  BY <1>1, <1>2, <1>3, <1>5, <1>6 DEF c, n

\* What is still in force is kept, and counts as it did.
LEMMA KeptIs ==
    ASSUME LimitsAssumption, RuleAssumption, now \in Nat \ {0}, NEW b, Fine(b, now)
    PROVE  /\ Fine(Kept(b), now)
           /\ \A k \in Kinds : /\ TimesOf(b, k) \in Seq(Nat) /\ TimesOf(Kept(b), k) \in Seq(Nat)
                               /\ \A t \in Nat : t >= now => Late(TimesOf(Kept(b), k), t) = Late(TimesOf(b, k), t)
           /\ Kept(b) # None => /\ b # None /\ Kept(b).lastMute = b.lastMute /\ Kept(b).muteCount = b.muteCount
                                /\ Kept(b).mutedUntil = IF b.mutedUntil > now THEN b.mutedUntil ELSE 0
           /\ b # None /\ Kept(b) = None => b.mutedUntil <= now /\ ~MuteHistory(b)
<1>1. CASE b = None
  <2>1. Kept(b) = None
    BY <1>1 DEF Kept
  <2> QED
    BY <1>1, <2>1 DEF Fine, TimesOf
<1>2. CASE b # None
  <2> DEFINE p == Pruned(b)
             ts == [k \in Kinds |-> KeepAfter(b.times[k], Window)]
             vs == KeepAfter(b.violations, ViolationWindow)
             m == IF b.mutedUntil > now THEN b.mutedUntil ELSE 0
  <2>1. BucketFine(b, now) /\ b \in Buckets
    BY <1>2, BucketIs DEF Fine
  <2>2. \A k \in Kinds : b.times[k] \in Seq(Nat) /\ Ordered(b.times[k], now) /\ Len(b.times[k]) <= Rule[k].max
                         /\ Rule[k].max \in Nat /\ Len(b.times[k]) \in Nat
    <3>1. \A k \in Kinds : b.times[k] \in Seq(Nat)
      BY <2>1, BucketIs
    <3> QED
      BY <2>1, <3>1, LimitsNumbers DEF BucketFine
  <2>3. \A k \in Kinds : ts[k] \in Seq(Nat) /\ Ordered(ts[k], now) /\ Len(ts[k]) <= Len(b.times[k]) /\ Len(ts[k]) \in Nat
    BY <2>2, KeepAfterIs, LimitsNumbers
  <2>4. vs \in Seq(Nat) /\ Ordered(vs, now)
    BY <2>1, BucketIs, KeepAfterIs, LimitsNumbers DEF BucketFine
  <2>5. Fresh(b) \in [Texts -> [count : Nat, at : Nat]] /\ m \in Nat
    BY <2>1, BucketIs DEF Fresh, Unsaid
  <2>6. p = [b EXCEPT !.times = ts, !.violations = vs, !.mutedUntil = m, !.said = Fresh(b)]
    BY <2>1 DEF Pruned, Buckets
  <2>7. ts \in [Kinds -> Seq(Nat)]
    BY <2>3
  <2> HIDE DEF vs, m, p
  <2>8. /\ p \in Buckets /\ p.times = ts /\ p.violations = vs /\ p.mutedUntil = m /\ p.seen = b.seen
        /\ p.lastMute = b.lastMute /\ p.muteCount = b.muteCount
    <3> HIDE DEF ts
    <3> QED
      BY <2>1, <2>4, <2>5, <2>6, <2>7 DEF Buckets
  <2>9. BucketFine(p, now)
    <3>1. \A k \in Kinds : Ordered(p.times[k], now) /\ Len(p.times[k]) <= Rule[k].max
      <4> SUFFICES ASSUME NEW k \in Kinds PROVE Ordered(p.times[k], now) /\ Len(p.times[k]) <= Rule[k].max
        OBVIOUS
      <4>1. p.times[k] = ts[k]
        BY <2>8
      <4> DEFINE x == ts[k]
                 y == b.times[k]
      <4>2. Ordered(x, now) /\ Len(x) <= Len(y) /\ Len(x) \in Nat /\ Len(y) <= Rule[k].max
            /\ Rule[k].max \in Nat /\ Len(y) \in Nat
        BY <2>2, <2>3
      <4> HIDE DEF x, y
      <4>3. Len(x) <= Rule[k].max
        BY <4>2
      <4> QED
        BY <4>1, <4>2, <4>3 DEF x
    <3>2. p.mutedUntil <= p.lastMute + MuteCap /\ (p.lastMute = now => p.mutedUntil > now)
      BY <2>1, <2>8, BucketIs, LimitsNumbers DEF BucketFine, m
    <3> QED
      BY <2>1, <2>4, <2>8, <3>1, <3>2 DEF BucketFine
  <2>10. p # None
    BY <2>8, NotNone
  <2>11. ASSUME NEW k \in Kinds, NEW t \in Nat, t >= now
         PROVE  Late(p.times[k], t) = Late(b.times[k], t)
    BY <2>2, <2>8, <2>11, LateKept
  <2>12. \A k \in Kinds : TimesOf(b, k) = b.times[k]
    BY <1>2 DEF TimesOf
  <2>13. CASE BucketEmpty(p)
    <3>1. Kept(b) = None
      BY <2>13 DEF Kept, p
    <3>2. /\ p.times = NoTimes /\ p.mutedUntil = 0 /\ ~MuteHistory(p)
      BY <2>13 DEF BucketEmpty
    <3>3. ASSUME NEW k \in Kinds, NEW t \in Nat, t >= now PROVE Late(<<>>, t) = Late(b.times[k], t)
      <4>1. p.times[k] = <<>>
        BY <3>2 DEF NoTimes
      <4> QED
        BY <2>11, <3>3, <4>1
    <3>4. b.mutedUntil <= now /\ ~MuteHistory(b)
      BY <2>1, <2>8, <3>2, BucketIs DEF MuteHistory, m
    <3>5. \A k \in Kinds : TimesOf(Kept(b), k) = <<>>
      BY <3>1 DEF TimesOf
    <3>6. ASSUME NEW k \in Kinds
          PROVE  /\ TimesOf(b, k) \in Seq(Nat) /\ TimesOf(Kept(b), k) \in Seq(Nat)
                 /\ \A t \in Nat : t >= now => Late(TimesOf(Kept(b), k), t) = Late(TimesOf(b, k), t)
      <4>1. TimesOf(b, k) = b.times[k] /\ TimesOf(Kept(b), k) = <<>> /\ b.times[k] \in Seq(Nat)
        BY <2>2, <2>12, <3>5
      <4> QED
        BY <3>3, <4>1
    <3> QED
      BY <3>1, <3>4, <3>6 DEF Fine
  <2>14. CASE ~BucketEmpty(p)
    <3>1. Kept(b) = p
      BY <1>2, <2>14 DEF Kept, p
    <3>2. \A k \in Kinds : TimesOf(Kept(b), k) = p.times[k] /\ p.times[k] \in Seq(Nat)
      BY <2>8, <2>10, <3>1, <2>3 DEF TimesOf
    <3> HIDE DEF ts
    <3> QED
      BY <1>2, <2>2, <2>8, <2>9, <2>10, <2>11, <2>12, <3>1, <3>2 DEF Fine, m
  <2> QED
    BY <2>13, <2>14
<1> QED
  BY <1>1, <1>2

\* Pruning forgets no mute that still has an effect.
LEMMA KeptRemembers ==
    ASSUME LimitsAssumption, RuleAssumption, now \in Nat \ {0}, NEW b, Fine(b, now),
           NEW s \in Sentences(now), s.length > 0 => s.at > 0,
           Matches(b, s, now), Remembers(b, s, now)
    PROVE  Matches(Kept(b), s, now) /\ Remembers(Kept(b), s, now)
<1>1. /\ s.at \in Nat /\ s.length \in Nat /\ s.at <= now
  BY LimitsNumbers DEF Sentences
<1>2. Matches(Kept(b), s, now)
  <2> SUFFICES ASSUME Kept(b) # None, Kept(b).lastMute = s.at, s.length > 0
               PROVE  /\ Kept(b).muteCount > 0
                      /\ s.length = Term(Kept(b).muteCount)
                      /\ \/ Kept(b).mutedUntil = s.at + s.length
                         \/ Kept(b).mutedUntil = 0 /\ s.at + s.length <= now
    <3>1. Kept(b) # None => b # None /\ Kept(b).lastMute = b.lastMute
      BY KeptIs
    <3> QED
      BY <3>1 DEF Matches, Term
  <2>1. /\ b # None /\ Kept(b).lastMute = b.lastMute /\ Kept(b).muteCount = b.muteCount
        /\ Kept(b).mutedUntil = IF b.mutedUntil > now THEN b.mutedUntil ELSE 0
    BY KeptIs
  <2>2. /\ b.muteCount > 0 /\ s.length = Term(b.muteCount)
        /\ \/ b.mutedUntil = s.at + s.length
           \/ b.mutedUntil = 0 /\ s.at + s.length <= now
    BY <2>1 DEF Matches, Term
  <2>3. b.mutedUntil \in Nat
    BY <2>1, BucketIs DEF Fine
  <2> QED
    BY <1>1, <2>1, <2>2, <2>3
<1>3. Remembers(Kept(b), s, now)
  <2>1. CASE Over(s, now)
    BY <2>1 DEF Remembers
  <2>2. CASE ~Over(s, now)
    <3>1. b # None /\ b.lastMute = s.at /\ s.length > 0 /\ s.at > 0
      BY <1>1, <2>2 DEF Remembers, Over
    <3>2. CASE Kept(b) = None
      <4>1. b.mutedUntil <= now /\ ~MuteHistory(b) /\ b.mutedUntil \in Nat
        BY <3>1, <3>2, KeptIs, BucketIs DEF Fine
      <4>2. /\ b.muteCount > 0
            /\ \/ b.mutedUntil = s.at + s.length
               \/ b.mutedUntil = 0 /\ s.at + s.length <= now
        BY <3>1 DEF Matches
      <4>3. now > s.at + Decay
        BY <1>1, <3>1, <4>1, <4>2, LimitsNumbers DEF MuteHistory
      <4> QED
        BY <1>1, <2>2, <4>1, <4>2, <4>3 DEF Over
    <3>3. CASE Kept(b) # None
      BY <3>1, <3>3, KeptIs DEF Remembers
    <3> QED
      BY <3>2, <3>3
  <2> QED
    BY <2>1, <2>2
<1> QED
  BY <1>2, <1>3

-----------------------------------------------------------------------------
(* The steps.                                                               *)

LEMMA LimitsInitially == ASSUME LimitsAssumption, RuleAssumption, LimitsInit PROVE LimitsInv
<1>1. now = 1 /\ dirty = FALSE /\ MaxTime \in Nat \ {0} /\ MuteCap \in Nat
  BY LimitsNumbers DEF LimitsInit
<1>2. \A a \in Authors : bucket[a] = None /\ file[a] = None /\ sentence[a] = [at |-> 0, length |-> 0]
                      /\ taken[a] = NoTimes
  BY DEF LimitsInit
<1>3. NoTimes \in [Kinds -> Seq(Nat)]
  BY DEF NoTimes
<1>4. LimitsTypes
  <2>1. /\ DOMAIN bucket = Authors /\ DOMAIN file = Authors /\ global = NoTimes
        /\ taken = [a \in Authors |-> NoTimes]
        /\ sentence = [a \in Authors |-> [at |-> 0, length |-> 0]]
    BY DEF LimitsInit
  <2>2. [at |-> 0, length |-> 0] \in Sentences(now)
    BY <1>1 DEF Sentences
  <2>3. dirty \in BOOLEAN /\ now \in 1..MaxTime
    <3>1. now \in 1..MaxTime
      BY <1>1
    <3> QED
      BY <1>1, <3>1
  <2>4. /\ global \in [Kinds -> Seq(Nat)] /\ taken \in [Authors -> [Kinds -> Seq(Nat)]]
        /\ sentence \in [Authors -> Sentences(now)]
    BY <1>3, <2>1, <2>2
  <2>5. \A a \in Authors : Fine(bucket[a], now) /\ Fine(file[a], now)
                        /\ (sentence[a].length > 0 => sentence[a].at > 0)
    BY <1>2 DEF Fine
  <2> QED
    BY <2>1, <2>3, <2>4, <2>5 DEF LimitsTypes
<1>5. AllCounted
  <2>1. \A a \in Authors, k \in Kinds : taken[a][k] = <<>> /\ TimesOf(bucket[a], k) = <<>> /\ TimesOf(file[a], k) = <<>>
    BY <1>2 DEF TimesOf, NoTimes
  <2>2. CountedIn(<<>>, <<>>, now)
    <3>1. <<>> \in Seq(Nat)
      OBVIOUS
    <3>2. \A t \in Nat : Late(<<>>, t) \in Nat
      BY <3>1, LateIs
    <3> QED
      BY <3>2 DEF CountedIn
  <2> QED
    BY <2>1, <2>2 DEF AllCounted
<1>6. MutesKnown
  BY <1>2 DEF MutesKnown, Matches, Remembers, Over
<1> QED
  BY <1>4, <1>5, <1>6 DEF LimitsInv

LEMMA BucketFineOf ==
    ASSUME LimitsAssumption, RuleAssumption, LimitsInv, NEW a \in Authors
    PROVE  /\ now \in Nat \ {0}
           /\ BucketFine(Bucket(a), now)
           /\ \A k \in Kinds : TimesOf(bucket[a], k) = Bucket(a).times[k]
           /\ bucket[a] = None => Bucket(a).lastMute = 0
           /\ bucket[a] # None => Bucket(a) = bucket[a]
           /\ Matches(Bucket(a), sentence[a], now)
<1>1. LimitsTypes /\ now \in Nat \ {0}
  BY LimitsNumbers DEF LimitsInv, LimitsTypes
<1>2. CASE bucket[a] = None
  <2>1. Bucket(a) = NewBucket /\ NewBucket.lastMute = 0 /\ \A k \in Kinds : NewBucket.times[k] = <<>>
    BY <1>2 DEF Bucket, NewBucket, NoTimes
  <2>2. BucketFine(NewBucket, now)
    BY <1>1, NewBucketFine
  <2>3. Matches(NewBucket, sentence[a], now)
    <3>1. (sentence[a].length > 0 => sentence[a].at # 0) /\ 0 <= sentence[a].at
      BY <1>1 DEF LimitsTypes, Sentences
    <3> QED
      BY <2>1, <3>1 DEF Matches
  <2> QED
    BY <1>1, <1>2, <2>1, <2>2, <2>3 DEF TimesOf
<1>3. CASE bucket[a] # None
  <2>1. Bucket(a) = bucket[a] /\ BucketFine(bucket[a], now)
    BY <1>1, <1>3 DEF Bucket, LimitsTypes, Fine
  <2> QED
    BY <1>1, <1>3, <2>1 DEF TimesOf, LimitsInv, MutesKnown
<1> QED
  BY <1>2, <1>3

LEMMA AcceptInv ==
    ASSUME LimitsAssumption, RuleAssumption, LimitsInv,
           NEW a \in Authors, NEW k \in Kinds, NEW t \in Texts, Accept(a, k, t)
    PROVE  LimitsInv'
<1> DEFINE b == Bucket(a)
           c == Charged(b, k)
           d == IF Rule[k].text THEN Said(c, t) ELSE c
           tk == KeepAfter(taken[a][k], Window)
<1>1. /\ Allowed(b, k) /\ bucket' = [bucket EXCEPT ![a] = d] /\ dirty' = TRUE
      /\ global' = [global EXCEPT ![k] = Append(KeepAfter(global[k], Window), now)]
      /\ taken' = [taken EXCEPT ![a][k] = Append(tk, now)]
      /\ now' = now /\ file' = file /\ sentence' = sentence
  BY DEF Accept
<1>2. LimitsTypes /\ AllCounted /\ MutesKnown
  BY DEF LimitsInv
<1>3. /\ now \in Nat \ {0} /\ BucketFine(b, now)
      /\ TimesOf(bucket[a], k) = b.times[k] /\ \A l \in Kinds : TimesOf(bucket[a], l) = b.times[l]
      /\ bucket[a] = None => b.lastMute = 0
      /\ bucket[a] # None => b = bucket[a]
      /\ Matches(b, sentence[a], now)
  BY BucketFineOf
<1>4. /\ BucketFine(c, now) /\ c.times[k] = Append(KeepAfter(b.times[k], Window), now)
      /\ \A l \in Kinds : l # k => c.times[l] = b.times[l]
      /\ c.lastMute = b.lastMute /\ c.mutedUntil = b.mutedUntil /\ c.muteCount = b.muteCount
  <2> HIDE DEF b
  <2> QED
    BY <1>1, <1>3, ChargedFine
<1> HIDE DEF b, c
<1>5. /\ BucketFine(d, now) /\ d.times[k] = Append(KeepAfter(b.times[k], Window), now)
      /\ \A l \in Kinds : l # k => d.times[l] = b.times[l]
      /\ d.lastMute = b.lastMute /\ d.mutedUntil = b.mutedUntil /\ d.muteCount = b.muteCount
  BY <1>3, <1>4, SaidFine
<1> HIDE DEF d
<1>6. /\ d # None /\ bucket'[a] = d /\ \A e \in Authors : e # a => bucket'[e] = bucket[e]
      /\ DOMAIN bucket' = Authors
  BY <1>1, <1>2, <1>5, BucketIs DEF LimitsTypes
<1>7. /\ taken[a][k] \in Seq(Nat) /\ tk \in Seq(Nat) /\ Append(tk, now) \in Seq(Nat) /\ b.times[k] \in Seq(Nat)
      /\ KeepAfter(b.times[k], Window) \in Seq(Nat)
  <2>1. taken[a][k] \in Seq(Nat) /\ b.times[k] \in Seq(Nat)
    BY <1>2, <1>3, BucketIs DEF LimitsTypes
  <2>2. tk \in Seq(Nat) /\ KeepAfter(b.times[k], Window) \in Seq(Nat)
    BY <1>3, <2>1, KeepAfterIs, LimitsNumbers
  <2> HIDE DEF tk
  <2> QED
    BY <1>3, <2>1, <2>2
<1>8. taken' \in [Authors -> [Kinds -> Seq(Nat)]]
      /\ \A e \in Authors, l \in Kinds : taken'[e][l] = IF e = a /\ l = k THEN Append(tk, now) ELSE taken[e][l]
  <2> HIDE DEF tk
  <2> QED
    BY <1>1, <1>2, <1>7 DEF LimitsTypes
<1>9. global' \in [Kinds -> Seq(Nat)]
  <2>1. global[k] \in Seq(Nat)
    BY <1>2 DEF LimitsTypes
  <2>2. Append(KeepAfter(global[k], Window), now) \in Seq(Nat)
    BY <1>3, <2>1, KeepAfterIs, LimitsNumbers
  <2> QED
    BY <1>1, <1>2, <2>2 DEF LimitsTypes
<1>11. LimitsTypes'
  <2>1. \A e \in Authors : Fine(bucket'[e], now) /\ Fine(file'[e], now)
    BY <1>1, <1>2, <1>5, <1>6 DEF LimitsTypes, Fine
  <2>2. DOMAIN file' = Authors /\ dirty' \in BOOLEAN /\ now' \in 1..MaxTime /\ sentence' \in [Authors -> Sentences(now')]
        /\ \A e \in Authors : sentence'[e].length > 0 => sentence'[e].at > 0
    BY <1>1, <1>2 DEF LimitsTypes
  <2> QED
    BY <1>1, <1>6, <1>8, <1>9, <2>1, <2>2 DEF LimitsTypes
<1>12. AllCounted'
  <2>1. ASSUME NEW e \in Authors, NEW l \in Kinds, ~(e = a /\ l = k)
        PROVE  CountedIn(taken'[e][l], TimesOf(bucket'[e], l), now)
    <3>1. CountedIn(taken[e][l], TimesOf(bucket[e], l), now)
      BY <1>2 DEF AllCounted
    <3>2. TimesOf(bucket'[e], l) = TimesOf(bucket[e], l)
      BY <1>3, <1>5, <1>6, <2>1 DEF TimesOf
    <3>3. taken'[e][l] = taken[e][l]
      BY <1>8, <2>1
    <3> QED
      BY <1>1, <3>1, <3>2, <3>3 DEF CountedIn
  <2>2. CountedIn(taken'[a][k], TimesOf(bucket'[a], k), now)
    <3>1. taken'[a][k] = Append(tk, now) /\ TimesOf(bucket'[a], k) = Append(KeepAfter(b.times[k], Window), now)
      BY <1>5, <1>6, <1>8 DEF TimesOf
    <3>2. ASSUME NEW u \in Nat, u >= now
          PROVE  Late(Append(tk, now), u) <= Late(Append(KeepAfter(b.times[k], Window), now), u)
      <4>1. Late(tk, u) = Late(taken[a][k], u) /\ Late(KeepAfter(b.times[k], Window), u) = Late(b.times[k], u)
        BY <1>3, <1>7, <3>2, LateKept
      <4>2. Late(taken[a][k], u) <= Late(b.times[k], u)
        BY <1>2, <1>3, <3>2 DEF AllCounted, CountedIn
      <4>3. Late(taken[a][k], u) \in Nat /\ Late(b.times[k], u) \in Nat
        BY <1>7, LateIs
      <4>4. /\ Late(Append(tk, now), u) = Late(tk, u) + (IF now + Window > u THEN 1 ELSE 0)
            /\ Late(Append(KeepAfter(b.times[k], Window), now), u)
                 = Late(KeepAfter(b.times[k], Window), u) + (IF now + Window > u THEN 1 ELSE 0)
        BY <1>3, <1>7, LateIs
      <4> QED
        BY <4>1, <4>2, <4>3, <4>4
    <3> QED
      BY <1>1, <3>1, <3>2 DEF CountedIn
  <2> QED
    BY <1>1, <2>1, <2>2 DEF AllCounted
<1>13. MutesKnown'
  <2>2. Matches(d, sentence[a], now)
    BY <1>3, <1>5, BucketIs DEF Matches
  <2>3. Remembers(d, sentence[a], now)
    <3>1. Remembers(bucket[a], sentence[a], now)
      BY <1>2 DEF MutesKnown
    <3> QED
      BY <1>3, <1>5, <1>6, <3>1 DEF Remembers
  <2>4. file[a] # None /\ file[a].lastMute = now => d # None /\ d.lastMute = now
    BY <1>2, <1>3, <1>5, <1>6 DEF MutesKnown
  <2> QED
    BY <1>1, <1>2, <1>6, <2>2, <2>3, <2>4 DEF MutesKnown
<1> QED
  BY <1>11, <1>12, <1>13 DEF LimitsInv

LEMMA RejectInv ==
    ASSUME LimitsAssumption, RuleAssumption, LimitsInv,
           NEW a \in Authors, NEW k \in Kinds, Reject(a, k)
    PROVE  LimitsInv'
<1> DEFINE b == Bucket(a)
           d == bucket'[a]
<1>1. /\ ~Muted(a) /\ dirty' = TRUE
      /\ now' = now /\ global' = global /\ file' = file /\ taken' = taken
  BY DEF Reject
<1>2. LimitsTypes /\ AllCounted /\ MutesKnown
  BY DEF LimitsInv
<1>3. /\ now \in Nat \ {0} /\ BucketFine(b, now)
      /\ \A l \in Kinds : TimesOf(bucket[a], l) = b.times[l]
      /\ bucket[a] = None => b.lastMute = 0
      /\ bucket[a] # None => b = bucket[a]
      /\ Matches(b, sentence[a], now)
  BY BucketFineOf
<1>4. ~(file[a] # None /\ file[a].lastMute = now)
  <2> SUFFICES ASSUME file[a] # None, file[a].lastMute = now PROVE FALSE
    OBVIOUS
  <2>1. bucket[a] # None /\ bucket[a].lastMute = now
    BY <1>2 DEF MutesKnown
  <2>2. bucket[a].mutedUntil > now
    BY <1>3, <2>1 DEF BucketFine
  <2> QED
    BY <1>1, <2>1, <2>2 DEF Muted
<1>5. /\ DOMAIN bucket' = Authors /\ DOMAIN sentence' = Authors
      /\ BucketFine(d, now) /\ d.times = b.times
      /\ \A e \in Authors : e # a => bucket'[e] = bucket[e] /\ sentence'[e] = sentence[e]
      /\ sentence'[a] \in Sentences(now) /\ (sentence'[a].length > 0 => sentence'[a].at > 0)
      /\ Matches(d, sentence'[a], now) /\ Remembers(d, sentence'[a], now)
      /\ Matches(file[a], sentence'[a], now)
  <2>0. /\ DOMAIN bucket = Authors /\ sentence \in [Authors -> Sentences(now)]
        /\ sentence[a].length > 0 => sentence[a].at > 0
    BY <1>2 DEF LimitsTypes
  <2>1. CASE MuteDue(b)
    <3> DEFINE n == Mutes(b).length
    <3>1. /\ bucket' = [bucket EXCEPT ![a] = Punished(b)]
          /\ sentence' = [sentence EXCEPT ![a] = [at |-> now, length |-> n]]
      BY <2>1 DEF Reject
    <3>2. d = Punished(b) /\ sentence'[a] = [at |-> now, length |-> n]
      BY <2>0, <3>1
    <3>3. /\ BucketFine(d, now) /\ d.times = b.times /\ d.lastMute = now
          /\ d.muteCount \in Nat \ {0} /\ n = Term(d.muteCount) /\ n \in 1..MuteCap
          /\ d.mutedUntil = now + n
      <4> HIDE DEF b, d, n
      <4>1. /\ BucketFine(Punished(b), now) /\ Punished(b).times = b.times /\ Punished(b).lastMute = now
            /\ Punished(b).muteCount = Mutes(b).count /\ Mutes(b).count \in Nat \ {0}
            /\ Mutes(b).length = Term(Mutes(b).count) /\ Mutes(b).length \in 1..MuteCap
            /\ Punished(b).mutedUntil = now + Mutes(b).length
        BY <1>3, PunishedFine
      <4> QED
        BY <3>2, <4>1 DEF n
    <3> HIDE DEF n, d, b
    <3>4. [at |-> now, length |-> n] \in Sentences(now)
      BY <1>3, <3>3, LimitsNumbers DEF Sentences
    <3>5. Matches(d, sentence'[a], now)
      BY <1>3, <3>2, <3>3 DEF Matches, Term
    <3>6. Matches(file[a], sentence'[a], now)
      <4>1. file[a] # None => file[a].lastMute <= now
        BY <1>2 DEF LimitsTypes, Fine, BucketFine
      <4> QED
        BY <1>4, <3>2, <4>1 DEF Matches
    <3>7. Remembers(d, sentence'[a], now)
      BY <3>2, <3>3, BucketIs DEF Remembers
    <3> QED
      BY <1>3, <2>0, <3>1, <3>2, <3>3, <3>4, <3>5, <3>6, <3>7
  <2>2. CASE ~MuteDue(b)
    <3>1. bucket' = [bucket EXCEPT ![a] = Blamed(b)] /\ sentence' = sentence
      BY <2>2 DEF Reject
    <3>2. d = Blamed(b)
      BY <2>0, <3>1
    <3>3. /\ BucketFine(d, now) /\ d.times = b.times /\ d.lastMute = b.lastMute
          /\ d.mutedUntil = b.mutedUntil /\ d.muteCount = b.muteCount
      <4> HIDE DEF b, d
      <4> QED
        BY <1>3, <3>2, BlamedFine
    <3> HIDE DEF b, d
    <3>4. Matches(d, sentence[a], now)
      BY <1>3, <3>3, BucketIs DEF Matches
    <3>5. Remembers(d, sentence[a], now)
      <4>1. Remembers(bucket[a], sentence[a], now)
        BY <1>2 DEF MutesKnown
      <4> QED
        BY <1>3, <3>3, <4>1, BucketIs DEF Remembers
    <3>6. Matches(file[a], sentence[a], now)
      BY <1>2 DEF MutesKnown
    <3>7. bucket' = [bucket EXCEPT ![a] = d]
      BY <3>1, <3>2
    <3> QED
      BY <2>0, <3>1, <3>3, <3>4, <3>5, <3>6, <3>7
  <2> QED
    BY <2>1, <2>2
<1> HIDE DEF b
<1>6. LimitsTypes'
  <2>1. \A e \in Authors : Fine(bucket'[e], now) /\ Fine(file'[e], now)
    BY <1>1, <1>2, <1>5 DEF LimitsTypes, Fine
  <2>2. sentence' \in [Authors -> Sentences(now)]
    <3>1. sentence' = [e \in Authors |-> IF e = a THEN sentence'[a] ELSE sentence[e]]
      <4>1. sentence' = [sentence EXCEPT ![a] = sentence'[a]]
        <5>1. sentence \in [Authors -> Sentences(now)]
          BY <1>2 DEF LimitsTypes
        <5> QED
          BY <5>1 DEF Reject
      <4> QED
        BY <1>2, <4>1 DEF LimitsTypes
    <3> QED
      BY <1>2, <1>5, <3>1 DEF LimitsTypes
  <2>3. DOMAIN file' = Authors /\ dirty' \in BOOLEAN /\ now' \in 1..MaxTime
        /\ global' \in [Kinds -> Seq(Nat)] /\ taken' \in [Authors -> [Kinds -> Seq(Nat)]]
    BY <1>1, <1>2 DEF LimitsTypes
  <2>4. \A e \in Authors : sentence'[e].length > 0 => sentence'[e].at > 0
    BY <1>2, <1>5 DEF LimitsTypes
  <2> QED
    BY <1>1, <1>5, <2>1, <2>2, <2>3, <2>4 DEF LimitsTypes
<1>7. d # None
  BY <1>5, BucketIs
<1>8. AllCounted'
  <2>1. \A e \in Authors, l \in Kinds : TimesOf(bucket'[e], l) = TimesOf(bucket[e], l)
    BY <1>3, <1>5, <1>7 DEF TimesOf
  <2> QED
    BY <1>1, <1>2, <2>1 DEF AllCounted
<1>9. MutesKnown'
  BY <1>1, <1>2, <1>4, <1>5 DEF MutesKnown
<1> QED
  BY <1>6, <1>8, <1>9 DEF LimitsInv

LEMMA TickInv == ASSUME LimitsAssumption, RuleAssumption, LimitsInv, LimitsTick PROVE LimitsInv'
<1>1. /\ now < MaxTime /\ now' = now + 1
      /\ UNCHANGED <<bucket, global, dirty, file, taken, sentence>>
  BY DEF LimitsTick
<1>2. LimitsTypes /\ AllCounted /\ MutesKnown
  BY DEF LimitsInv
<1>3. now \in Nat \ {0} /\ now' \in Nat /\ now' > now /\ now' \in 1..MaxTime
  BY <1>1, <1>2, LimitsNumbers DEF LimitsTypes
<1>4. ASSUME NEW s, Ordered(s, now) PROVE Ordered(s, now')
  BY <1>3, <1>4 DEF Ordered
<1>5. ASSUME NEW b, Fine(b, now) PROVE Fine(b, now')
  <2>1. CASE b = None
    BY <2>1 DEF Fine
  <2>2. CASE b # None
    <3>1. BucketFine(b, now) /\ b.seen \in Nat /\ b.lastMute \in Nat
      BY <1>5, <2>2, BucketIs DEF Fine
    <3>2. b.seen <= now' /\ b.lastMute < now'
      BY <1>3, <3>1 DEF BucketFine
    <3>3. BucketFine(b, now')
      BY <1>3, <1>4, <3>1, <3>2 DEF BucketFine
    <3> QED
      BY <3>3 DEF Fine
  <2> QED
    BY <2>1, <2>2
<1>6. LimitsTypes'
  <2>1. \A s \in Sentences(now) : s \in Sentences(now')
    BY <1>3 DEF Sentences
  <2>2. sentence' \in [Authors -> Sentences(now')]
    BY <1>1, <1>2, <2>1 DEF LimitsTypes
  <2>3. \A a \in Authors : Fine(bucket'[a], now') /\ Fine(file'[a], now')
    BY <1>1, <1>2, <1>5 DEF LimitsTypes
  <2> QED
    BY <1>1, <1>2, <1>3, <2>2, <2>3 DEF LimitsTypes
<1>7. AllCounted'
  <2>1. ASSUME NEW s, NEW r, CountedIn(s, r, now) PROVE CountedIn(s, r, now')
    BY <1>3, <2>1 DEF CountedIn
  <2> QED
    BY <1>1, <1>2, <2>1 DEF AllCounted
<1>8. MutesKnown'
  <2>1. ASSUME NEW s \in Sentences(now), Over(s, now) PROVE Over(s, now')
    BY <1>3, <2>1, LimitsNumbers DEF Over, Sentences
  <2>2. ASSUME NEW b, NEW s \in Sentences(now), Matches(b, s, now) PROVE Matches(b, s, now')
    <3>1. s.at + s.length <= now => s.at + s.length <= now'
      BY <1>3, LimitsNumbers DEF Sentences
    <3> QED
      BY <2>2, <3>1 DEF Matches
  <2>3. ASSUME NEW b, NEW s \in Sentences(now), Remembers(b, s, now) PROVE Remembers(b, s, now')
    BY <2>1, <2>3 DEF Remembers
  <2>4. \A a \in Authors : file[a] # None => file[a].lastMute # now'
    <3> SUFFICES ASSUME NEW a \in Authors, file[a] # None PROVE file[a].lastMute # now'
      OBVIOUS
    <3>1. BucketFine(file[a], now) /\ file[a].lastMute \in Nat
      BY <1>2, BucketIs DEF LimitsTypes, Fine
    <3> QED
      BY <1>3, <3>1 DEF BucketFine
  <2>5. \A a \in Authors : sentence[a] \in Sentences(now)
    BY <1>2 DEF LimitsTypes
  <2> QED
    BY <1>1, <1>2, <2>2, <2>3, <2>4, <2>5 DEF MutesKnown
<1> QED
  BY <1>6, <1>7, <1>8 DEF LimitsInv

\* What a save writes counts as the memory does.
LEMMA SavedIs ==
    ASSUME LimitsAssumption, RuleAssumption, LimitsInv, NEW f, f = bucket \/ (f = file /\ ~dirty),
           NEW g, g = [a \in Authors |-> Kept(f[a])]
    PROVE  \A a \in Authors :
              /\ Fine(f[a], now) /\ Fine(g[a], now)
              /\ \A k \in Kinds : CountedIn(taken[a][k], TimesOf(g[a], k), now)
              /\ Matches(g[a], sentence[a], now) /\ Remembers(g[a], sentence[a], now)
<1>1. LimitsTypes /\ AllCounted /\ MutesKnown
  BY DEF LimitsInv
<1>2. now \in Nat \ {0}
  BY <1>1, LimitsNumbers DEF LimitsTypes
<1> SUFFICES ASSUME NEW a \in Authors
             PROVE  /\ Fine(f[a], now) /\ Fine(g[a], now)
                    /\ \A k \in Kinds : CountedIn(taken[a][k], TimesOf(g[a], k), now)
                    /\ Matches(g[a], sentence[a], now) /\ Remembers(g[a], sentence[a], now)
  OBVIOUS
<1>3. /\ Fine(f[a], now) /\ Matches(f[a], sentence[a], now) /\ Remembers(f[a], sentence[a], now)
      /\ sentence[a] \in Sentences(now) /\ (sentence[a].length > 0 => sentence[a].at > 0)
      /\ \A k \in Kinds : CountedIn(taken[a][k], TimesOf(f[a], k), now)
  BY <1>1 DEF LimitsTypes, AllCounted, MutesKnown
<1>4. g[a] = Kept(f[a])
  OBVIOUS
<1>5. /\ Fine(Kept(f[a]), now)
      /\ \A k \in Kinds : /\ TimesOf(f[a], k) \in Seq(Nat) /\ TimesOf(Kept(f[a]), k) \in Seq(Nat)
                          /\ \A t \in Nat : t >= now => Late(TimesOf(Kept(f[a]), k), t) = Late(TimesOf(f[a], k), t)
  BY <1>2, <1>3, KeptIs
<1>6. Matches(Kept(f[a]), sentence[a], now) /\ Remembers(Kept(f[a]), sentence[a], now)
  BY <1>2, <1>3, KeptRemembers
<1>7. \A k \in Kinds : CountedIn(taken[a][k], TimesOf(Kept(f[a]), k), now)
  BY <1>3, <1>5 DEF CountedIn
<1> QED
  BY <1>3, <1>4, <1>5, <1>6, <1>7

LEMMA SaveInv == ASSUME LimitsAssumption, RuleAssumption, LimitsInv, Save PROVE LimitsInv'
<1>1. /\ dirty' = FALSE /\ file' = [a \in Authors |-> Kept(bucket[a])]
      /\ UNCHANGED <<now, bucket, global, taken, sentence>>
  BY DEF Save, Saved
<1>2. LimitsTypes /\ AllCounted /\ MutesKnown
  BY DEF LimitsInv
<1>3. \A a \in Authors :
         /\ Fine(file'[a], now)
         /\ \A k \in Kinds : CountedIn(taken[a][k], TimesOf(file'[a], k), now)
         /\ Matches(file'[a], sentence[a], now) /\ Remembers(file'[a], sentence[a], now)
  BY <1>1, SavedIs
<1>4. now \in Nat \ {0}
  BY <1>2, LimitsNumbers DEF LimitsTypes
<1>5. LimitsTypes'
  BY <1>1, <1>2, <1>3 DEF LimitsTypes
<1>6. AllCounted'
  BY <1>1, <1>2, <1>3 DEF AllCounted
<1>7. MutesKnown'
  <2>1. ASSUME NEW a \in Authors, file'[a] # None, file'[a].lastMute = now
        PROVE  bucket[a] # None /\ bucket[a].lastMute = now
    <3>1. file'[a] = Kept(bucket[a]) /\ Fine(bucket[a], now)
      BY <1>1, <1>2 DEF LimitsTypes
    <3> QED
      BY <1>4, <2>1, <3>1, KeptIs
  <2> QED
    BY <1>1, <1>2, <1>3, <2>1 DEF MutesKnown
<1> QED
  BY <1>5, <1>6, <1>7 DEF LimitsInv

LEMMA RestartInv == ASSUME LimitsAssumption, RuleAssumption, LimitsInv, Restart PROVE LimitsInv'
<1> DEFINE f == IF dirty THEN Saved ELSE file
<1>1. /\ file' = f /\ bucket' = [a \in Authors |-> Kept(f[a])] /\ global' = NoTimes /\ dirty' = FALSE
      /\ UNCHANGED <<now, taken, sentence>>
  BY DEF Restart, Load
<1>2. LimitsTypes /\ AllCounted /\ MutesKnown
  BY DEF LimitsInv
<1>3. now \in Nat \ {0}
  BY <1>2, LimitsNumbers DEF LimitsTypes
<1>4. /\ DOMAIN f = Authors
      /\ \A a \in Authors :
         /\ Fine(f[a], now)
         /\ \A k \in Kinds : CountedIn(taken[a][k], TimesOf(f[a], k), now)
         /\ Matches(f[a], sentence[a], now) /\ Remembers(f[a], sentence[a], now)
  <2>1. CASE dirty
    <3>1. f = [a \in Authors |-> Kept(bucket[a])]
      BY <2>1 DEF Saved
    <3> HIDE DEF f
    <3> QED
      BY <3>1, SavedIs
  <2>2. CASE ~dirty
    <3>1. f = file
      BY <2>2
    <3> QED
      BY <1>2, <2>2, <3>1 DEF LimitsTypes, AllCounted, MutesKnown
  <2> QED
    BY <2>1, <2>2
<1> HIDE DEF f
<1>5. \A a \in Authors : bucket'[a] = Kept(f[a])
  BY <1>1
<1>6. ASSUME NEW a \in Authors
      PROVE  /\ Fine(bucket'[a], now)
             /\ \A k \in Kinds : CountedIn(taken[a][k], TimesOf(bucket'[a], k), now)
             /\ Matches(bucket'[a], sentence[a], now) /\ Remembers(bucket'[a], sentence[a], now)
  <2>1. Fine(Kept(f[a]), now)
    BY <1>3, <1>4, KeptIs
  <2>2. \A k \in Kinds, t \in Nat : t >= now => Late(TimesOf(Kept(f[a]), k), t) = Late(TimesOf(f[a], k), t)
    BY <1>3, <1>4, KeptIs
  <2>3. Matches(Kept(f[a]), sentence[a], now) /\ Remembers(Kept(f[a]), sentence[a], now)
    <3>1. sentence[a] \in Sentences(now) /\ (sentence[a].length > 0 => sentence[a].at > 0)
      BY <1>2 DEF LimitsTypes
    <3> QED
      BY <1>3, <1>4, <3>1, KeptRemembers
  <2>4. \A k \in Kinds : CountedIn(taken[a][k], TimesOf(Kept(f[a]), k), now)
    BY <1>4, <2>2 DEF CountedIn
  <2> QED
    BY <1>5, <2>1, <2>3, <2>4
<1>7. NoTimes \in [Kinds -> Seq(Nat)]
  BY DEF NoTimes
<1>8. LimitsTypes'
  <2>1. DOMAIN bucket' = Authors /\ DOMAIN file' = Authors
    BY <1>1, <1>4
  <2> QED
    BY <1>1, <1>2, <1>4, <1>6, <1>7, <2>1 DEF LimitsTypes
<1>9. AllCounted'
  BY <1>1, <1>4, <1>6 DEF AllCounted
<1>10. MutesKnown'
  <2>1. ASSUME NEW a \in Authors, f[a] # None, f[a].lastMute = now
        PROVE  Kept(f[a]) # None /\ Kept(f[a]).lastMute = now
    <3>1. f[a].mutedUntil > now /\ f[a].mutedUntil \in Nat
      BY <1>4, <2>1, BucketIs DEF Fine, BucketFine
    <3> QED
      BY <1>3, <1>4, <2>1, <3>1, KeptIs
  <2> QED
    BY <1>1, <1>4, <1>5, <1>6, <2>1 DEF MutesKnown
<1> QED
  BY <1>8, <1>9, <1>10 DEF LimitsInv

\* After a crash the file is all there is, and all that is claimed.
LEMMA CrashInv == ASSUME LimitsAssumption, RuleAssumption, LimitsInv, Crash PROVE LimitsInv'
<1>1. /\ bucket' = [a \in Authors |-> Kept(file[a])] /\ global' = NoTimes /\ dirty' = FALSE
      /\ taken' = [a \in Authors |-> IF file[a] = None THEN NoTimes ELSE file[a].times]
      /\ sentence' = [a \in Authors |->
                        IF file[a] = None THEN [at |-> 0, length |-> 0]
                        ELSE [at |-> file[a].lastMute,
                              length |-> IF file[a].lastMute = sentence[a].at
                                         THEN sentence[a].length ELSE 0]]
      /\ now' = now /\ file' = file
  BY DEF Crash, Load
<1>2. LimitsTypes /\ AllCounted /\ MutesKnown
  BY DEF LimitsInv
<1>3. now \in Nat \ {0} /\ MuteCap \in Nat
  BY <1>2, LimitsNumbers DEF LimitsTypes
<1>4. NoTimes \in [Kinds -> Seq(Nat)]
  BY DEF NoTimes
<1>5. ASSUME NEW a \in Authors
      PROVE  /\ Fine(file[a], now) /\ Fine(Kept(file[a]), now)
             /\ taken'[a] \in [Kinds -> Seq(Nat)]
             /\ \A k \in Kinds : /\ taken'[a][k] = TimesOf(file[a], k)
                                 /\ CountedIn(taken'[a][k], TimesOf(file[a], k), now)
                                 /\ CountedIn(taken'[a][k], TimesOf(Kept(file[a]), k), now)
  <2>1. Fine(file[a], now)
    BY <1>2 DEF LimitsTypes
  <2>2. /\ Fine(Kept(file[a]), now)
        /\ \A k \in Kinds : /\ TimesOf(file[a], k) \in Seq(Nat)
                            /\ \A t \in Nat : t >= now => Late(TimesOf(Kept(file[a]), k), t) = Late(TimesOf(file[a], k), t)
    BY <1>3, <2>1, KeptIs
  <2>3. taken'[a] \in [Kinds -> Seq(Nat)] /\ \A k \in Kinds : taken'[a][k] = TimesOf(file[a], k)
    BY <1>1, <1>4, <2>1, BucketIs DEF Fine, TimesOf, NoTimes
  <2>4. \A k \in Kinds, t \in Nat : Late(TimesOf(file[a], k), t) \in Nat
    BY <2>2, LateIs
  <2>5. ASSUME NEW k \in Kinds
        PROVE  /\ CountedIn(TimesOf(file[a], k), TimesOf(file[a], k), now)
               /\ CountedIn(TimesOf(file[a], k), TimesOf(Kept(file[a]), k), now)
    <3> DEFINE r == TimesOf(file[a], k)
               q == TimesOf(Kept(file[a]), k)
    <3>1. \A t \in Nat : t >= now => Late(q, t) = Late(r, t)
      BY <2>2
    <3>2. \A t \in Nat : Late(r, t) \in Nat
      BY <2>4
    <3> HIDE DEF r, q
    <3>3. \A t \in Nat : t >= now => Late(r, t) <= Late(r, t) /\ Late(r, t) <= Late(q, t)
      <4> SUFFICES ASSUME NEW t \in Nat, t >= now
                   PROVE  Late(r, t) <= Late(r, t) /\ Late(r, t) <= Late(q, t)
        OBVIOUS
      <4> HIDE DEF Late
      <4> QED
        BY <3>1, <3>2
    <3>4. CountedIn(r, r, now) /\ CountedIn(r, q, now)
      BY <3>3, Zenon DEF CountedIn
    <3> QED
      BY <3>4 DEF r, q
  <2> QED
    BY <2>1, <2>2, <2>3, <2>5
<1>6. ASSUME NEW a \in Authors
      PROVE  /\ sentence'[a] \in Sentences(now) /\ (sentence'[a].length > 0 => sentence'[a].at > 0)
             /\ Matches(file[a], sentence'[a], now) /\ Remembers(file[a], sentence'[a], now)
  <2>1. sentence[a] \in Sentences(now) /\ (sentence[a].length > 0 => sentence[a].at > 0)
        /\ Matches(file[a], sentence[a], now)
    BY <1>2 DEF LimitsTypes, MutesKnown
  <2>2. CASE file[a] = None
    <3>1. sentence'[a] = [at |-> 0, length |-> 0]
      BY <1>1, <2>2
    <3> QED
      BY <1>3, <2>2, <3>1 DEF Sentences, Matches, Remembers, Over
  <2>3. CASE file[a] # None /\ file[a].lastMute = sentence[a].at
    <3>1. sentence'[a] = [at |-> sentence[a].at, length |-> sentence[a].length]
      BY <1>1, <2>3
    <3>2. sentence'[a] = sentence[a]
      BY <2>1, <3>1 DEF Sentences
    <3> QED
      BY <2>1, <2>3, <3>2 DEF Remembers
  <2>4. CASE file[a] # None /\ file[a].lastMute # sentence[a].at
    <3>1. sentence'[a] = [at |-> file[a].lastMute, length |-> 0]
      BY <1>1, <2>4
    <3>2. file[a].lastMute \in 0..now
      <4>1. BucketFine(file[a], now) /\ file[a].lastMute \in Nat
        BY <1>5, <2>4, BucketIs DEF Fine
      <4> QED
        BY <1>3, <4>1 DEF BucketFine
    <3> QED
      BY <1>3, <3>1, <3>2 DEF Sentences, Matches, Remembers, Over
  <2> QED
    BY <2>2, <2>3, <2>4
<1>7. \A a \in Authors : Matches(Kept(file[a]), sentence'[a], now) /\ Remembers(Kept(file[a]), sentence'[a], now)
  BY <1>3, <1>5, <1>6, KeptRemembers
<1>8. LimitsTypes'
  <2>1. DOMAIN bucket' = Authors /\ DOMAIN file' = Authors /\ \A a \in Authors : bucket'[a] = Kept(file[a])
    BY <1>1, <1>2 DEF LimitsTypes
  <2>2. taken' \in [Authors -> [Kinds -> Seq(Nat)]]
    BY <1>1, <1>5
  <2>3. sentence' \in [Authors -> Sentences(now)]
    BY <1>1, <1>6
  <2> QED
    BY <1>1, <1>2, <1>4, <1>5, <1>6, <2>1, <2>2, <2>3 DEF LimitsTypes
<1>9. AllCounted'
  BY <1>1, <1>5 DEF AllCounted
<1>10. MutesKnown'
  <2>1. ASSUME NEW a \in Authors, file[a] # None, file[a].lastMute = now
        PROVE  Kept(file[a]) # None /\ Kept(file[a]).lastMute = now
    <3>1. file[a].mutedUntil > now /\ file[a].mutedUntil \in Nat
      BY <1>5, <2>1, BucketIs DEF Fine, BucketFine
    <3> QED
      BY <1>3, <1>5, <2>1, <3>1, KeptIs
  <2> QED
    BY <1>1, <1>6, <1>7, <2>1 DEF MutesKnown
<1> QED
  BY <1>8, <1>9, <1>10 DEF LimitsInv

-----------------------------------------------------------------------------
LEMMA LimitsStep == ASSUME LimitsAssumption, RuleAssumption, LimitsInv, [LimitsNext]_limitsVars PROVE LimitsInv'
<1>1. CASE UNCHANGED limitsVars
  BY <1>1 DEF limitsVars, LimitsInv, LimitsTypes, AllCounted, MutesKnown
<1>2. CASE LimitsNext
  BY <1>2, AcceptInv, RejectInv, TickInv, SaveInv, RestartInv, CrashInv DEF LimitsNext
<1> QED
  BY <1>1, <1>2

LEMMA TypesShown ==
    ASSUME LimitsAssumption, RuleAssumption, LimitsInv
    PROVE  LimitsTypeOK
<1>1. LimitsTypes /\ now \in Nat \ {0}
  BY LimitsNumbers DEF LimitsInv, LimitsTypes
<1>2. ASSUME NEW ts \in Seq(Nat), Ordered(ts, now) PROVE TimesOK(ts)
  <2>1. DOMAIN ts = 1..Len(ts) /\ Len(ts) \in Nat
    OBVIOUS
  <2> SUFFICES ASSUME NEW i \in 1..Len(ts) PROVE ts[i] \in 1..now /\ (i > 1 => ts[i - 1] <= ts[i])
    BY DEF TimesOK
  <2>2. i > 1 => i - 1 \in 1..Len(ts) /\ i - 1 <= i
    BY <2>1
  <2> QED
    BY <1>2, <2>1, <2>2 DEF Ordered
<1>3. ASSUME NEW b, BucketFine(b, now) PROVE BucketOK(b)
  <2>1. \A k \in Kinds : TimesOK(b.times[k])
    BY <1>2, <1>3, BucketIs DEF BucketFine
  <2>2. TimesOK(b.violations)
    BY <1>2, <1>3, BucketIs DEF BucketFine
  <2>3. b.seen \in 0..now /\ b.lastMute \in 0..now
    BY <1>1, <1>3, BucketIs DEF BucketFine
  <2> QED
    BY <1>3, <2>1, <2>2, <2>3 DEF BucketOK, BucketFine
<1> QED
  BY <1>1, <1>3 DEF LimitsTypeOK, LimitsTypes, Fine

LEMMA BoundShown ==
    ASSUME LimitsAssumption, RuleAssumption, LimitsInv
    PROVE  WindowBound
<1>1. LimitsTypes /\ AllCounted /\ now \in Nat
  BY LimitsNumbers DEF LimitsInv, LimitsTypes
<1>2. ASSUME NEW a \in Authors, NEW k \in Kinds PROVE Len(KeepAfter(taken[a][k], Window)) <= Rule[k].max
  <2> DEFINE s == taken[a][k]
             r == TimesOf(bucket[a], k)
  <2>1. s \in Seq(Nat)
    BY <1>1 DEF LimitsTypes
  <2>2. r \in Seq(Nat) /\ Len(r) \in Nat /\ Len(r) <= Rule[k].max
    <3>1. CASE bucket[a] = None
      <4>1. r = <<>>
        BY <3>1 DEF TimesOf
      <4>2. Len(<<>>) = 0 /\ <<>> \in Seq(Nat)
        OBVIOUS
      <4> HIDE DEF r
      <4> QED
        BY <4>1, <4>2, LimitsNumbers
    <3>2. CASE bucket[a] # None
      <4>1. BucketFine(bucket[a], now)
        BY <1>1, <3>2 DEF LimitsTypes, Fine
      <4>2. r = bucket[a].times[k] /\ bucket[a].times \in [Kinds -> Seq(Nat)]
        BY <3>2, <4>1, BucketIs DEF TimesOf
      <4>3. r \in Seq(Nat)
        BY <4>2
      <4>4. Len(r) <= Rule[k].max
        BY <4>1, <4>2 DEF BucketFine
      <4> QED
        BY <4>3, <4>4
    <3> QED
      BY <3>1, <3>2
  <2>3. Late(s, now) <= Late(r, now)
    BY <1>1 DEF AllCounted, CountedIn
  <2> HIDE DEF s, r
  <2>4. Late(s, now) \in Nat /\ Late(r, now) \in Nat /\ Late(r, now) <= Len(r)
    BY <1>1, <2>1, <2>2, LateIs
  <2>5. Len(KeepAfter(s, Window)) = Late(s, now)
    BY <1>1, <2>1, KeptLength
  <2>6. Rule[k].max \in Nat
    BY LimitsNumbers
  <2> QED
    BY <2>2, <2>3, <2>4, <2>5, <2>6 DEF s
<1> QED
  BY <1>2, TypesShown DEF WindowBound

\* What a step may not do to mutes.
MutesKeptOf(a) ==
    /\ sentence'[a].at > sentence[a].at /\ sentence[a].length > 0
         /\ now <= sentence[a].at + Decay
       => sentence'[a].length >= sentence[a].length
            /\ (sentence[a].length < MuteCap => sentence'[a].length > sentence[a].length)
    /\ sentence'[a] = sentence[a] /\ sentence[a].at + sentence[a].length > now'
       => Muted(a)'

\* A mute in force is known to the memory.
LEMMA InForce ==
    ASSUME LimitsAssumption, RuleAssumption, LimitsInv, NEW a \in Authors,
           sentence[a].at + sentence[a].length > now
    PROVE  Muted(a)
<1>1. /\ LimitsTypes /\ now \in Nat \ {0} /\ sentence[a] \in Sentences(now)
      /\ Matches(bucket[a], sentence[a], now) /\ Remembers(bucket[a], sentence[a], now)
  BY LimitsNumbers DEF LimitsInv, LimitsTypes, MutesKnown
<1>2. sentence[a].length > 0 /\ ~Over(sentence[a], now)
  BY <1>1, LimitsNumbers DEF Sentences, Over
<1>3. bucket[a] # None /\ bucket[a].lastMute = sentence[a].at
  BY <1>1, <1>2 DEF Remembers
<1>4. bucket[a].mutedUntil = sentence[a].at + sentence[a].length
  BY <1>1, <1>2, <1>3, LimitsNumbers DEF Matches, Sentences
<1> QED
  BY <1>3, <1>4 DEF Muted

LEMMA InForceThen ==
    ASSUME LimitsAssumption, RuleAssumption
    PROVE  (\A a \in Authors : LimitsInv /\ sentence[a].at + sentence[a].length > now => Muted(a))'
<1>1. \A a \in Authors : LimitsInv /\ sentence[a].at + sentence[a].length > now => Muted(a)
  BY InForce
<1> QED
  BY <1>1, PTL

\* A new mute soon after the last one is longer.
LEMMA LongerMute ==
    ASSUME LimitsAssumption, RuleAssumption, LimitsInv, LimitsNext, NEW a \in Authors,
           sentence'[a].at > sentence[a].at, sentence[a].length > 0, now <= sentence[a].at + Decay
    PROVE  /\ sentence'[a].length >= sentence[a].length
           /\ sentence[a].length < MuteCap => sentence'[a].length > sentence[a].length
<1>1. /\ LimitsTypes /\ now \in Nat \ {0} /\ sentence \in [Authors -> Sentences(now)] /\ sentence[a] \in Sentences(now)
      /\ Matches(bucket[a], sentence[a], now) /\ Remembers(bucket[a], sentence[a], now)
      /\ Matches(file[a], sentence[a], now)
      /\ ~dirty => Remembers(file[a], sentence[a], now)
  BY LimitsNumbers DEF LimitsInv, LimitsTypes, MutesKnown
<1>2. sentence'[a] # sentence[a]
  BY <1>1 DEF Sentences
<1>3. CASE \E e \in Authors, k \in Kinds : Reject(e, k)
  <2>1. PICK e \in Authors, k \in Kinds : Reject(e, k)
    BY <1>3
  <2> DEFINE b == Bucket(e)
  <2>2. /\ MuteDue(b) /\ sentence' = [sentence EXCEPT ![e] = [at |-> now, length |-> Mutes(b).length]]
    BY <1>2, <2>1 DEF Reject
  <2>3. e = a /\ sentence'[a].length = Mutes(b).length
    BY <1>1, <1>2, <2>2
  <2>4. bucket[a] # None /\ b = bucket[a] /\ b.lastMute = sentence[a].at /\ BucketFine(b, now)
    <3>1. ~Over(sentence[a], now)
      BY <1>1, LimitsNumbers DEF Sentences, Over
    <3> QED
      BY <1>1, <2>3, <3>1, BucketFineOf DEF Remembers
  <2> HIDE DEF b
  <2>5. b.muteCount \in Nat \ {0} /\ sentence[a].length = Term(b.muteCount) /\ b.lastMute \in Nat
    BY <1>1, <2>4, BucketIs DEF Matches, Term
  <2>6. Mutes(b).count = b.muteCount + 1 /\ Mutes(b).length = Term(b.muteCount + 1)
    <3>1. ~(b.lastMute # 0 /\ now > b.lastMute + Decay)
      <4>1. sentence[a].at \in Nat
        BY <1>1 DEF Sentences
      <4> QED
        BY <1>1, <2>4, <4>1, LimitsNumbers
    <3>2. Mutes(b) = [length |-> Term(b.muteCount + 1), count |-> b.muteCount + 1]
      BY <3>1 DEF Mutes, Term
    <3> QED
      BY <3>2
  <2> QED
    BY <2>3, <2>5, <2>6, TermIs
<1>4. CASE Crash
  <2>1. /\ file[a] # None => sentence'[a].at = file[a].lastMute
        /\ file[a] = None => sentence'[a].at = 0
    BY <1>4 DEF Crash
  <2>2. file[a] # None /\ file[a].lastMute > sentence[a].at
    BY <1>1, <2>1 DEF Sentences
  <2>3. file[a].lastMute <= sentence[a].at /\ file[a].lastMute \in Nat /\ sentence[a].at \in Nat
    BY <1>1, <2>2, BucketIs DEF Matches, Sentences, LimitsTypes, Fine
  <2> QED
    BY <2>2, <2>3
<1>5. CASE ~(\E e \in Authors, k \in Kinds : Reject(e, k)) /\ ~Crash
  BY <1>2, <1>5 DEF LimitsNext, Accept, LimitsTick, Save, Restart
<1> QED
  BY <1>3, <1>4, <1>5

LEMMA MutesShown ==
    ASSUME LimitsAssumption, RuleAssumption, LimitsInv, LimitsInv', [LimitsNext]_limitsVars,
           NEW a \in Authors
    PROVE  MutesKeptOf(a)
<1>1. ASSUME sentence'[a].at > sentence[a].at, sentence[a].length > 0, now <= sentence[a].at + Decay
      PROVE  /\ sentence'[a].length >= sentence[a].length
             /\ sentence[a].length < MuteCap => sentence'[a].length > sentence[a].length
  <2>1. CASE LimitsNext
    BY <1>1, <2>1, LongerMute
  <2>2. CASE UNCHANGED limitsVars
    <3>1. sentence' = sentence /\ sentence[a].at \in Nat
      BY <2>2 DEF limitsVars, LimitsInv, LimitsTypes, Sentences
    <3> QED
      BY <1>1, <3>1
  <2> QED
    BY <2>1, <2>2
<1>2. ASSUME sentence'[a] = sentence[a], sentence[a].at + sentence[a].length > now'
      PROVE  Muted(a)'
  <2>1. (sentence[a].at + sentence[a].length > now)'
    BY <1>2
  <2> QED
    BY <2>1, InForceThen
<1> QED
  BY <1>1, <1>2 DEF MutesKeptOf

-----------------------------------------------------------------------------
\* For every rule table and every length of the windows: what was let through
\* and the last mute of each author stay counted in memory and in the file.
THEOREM LimitsInvariance == LimitsSpec => []LimitsInv
<1>1. LimitsInit => LimitsInv
  BY LimitsInitially, LimitsAssumption, RuleAssumption
<1>2. LimitsInv /\ [LimitsNext]_limitsVars => LimitsInv'
  BY LimitsStep, LimitsAssumption, RuleAssumption
<1> QED
  BY <1>1, <1>2, PTL DEF LimitsSpec

\* No window ever holds more of an author than the limit, over restarts and
\* crashes too (ratelimit.go: allow, saveRates, loadRates): a restart brings the
\* saved lists back, and what came after the last save is no longer counted.
THEOREM AlwaysBounded == LimitsSpec => []WindowBound
<1>1. LimitsInv => WindowBound
  BY BoundShown, LimitsAssumption, RuleAssumption
<1> QED
  BY <1>1, LimitsInvariance, PTL

\* No step gives an author a shorter mute than the last while that one is
\* remembered, and none lifts a mute in force (recordViolation, pruneBucket).
THEOREM AlwaysGrow == LimitsSpec => MutesGrow
<1>1. LimitsInv /\ LimitsInv' /\ [LimitsNext]_limitsVars
        => [\A a \in Authors : MutesKeptOf(a)]_limitsVars
  BY MutesShown, LimitsAssumption, RuleAssumption
<1>2. [\A a \in Authors : MutesKeptOf(a)]_limitsVars
        => [\A a \in Authors :
              /\ sentence'[a].at > sentence[a].at /\ sentence[a].length > 0
                   /\ now <= sentence[a].at + Decay
                 => sentence'[a].length >= sentence[a].length
                      /\ (sentence[a].length < MuteCap => sentence'[a].length > sentence[a].length)
              /\ sentence'[a] = sentence[a] /\ sentence[a].at + sentence[a].length > now'
                 => Muted(a)']_limitsVars
  BY DEF MutesKeptOf
<1> QED
  BY <1>1, <1>2, LimitsInvariance, PTL DEF LimitsSpec, MutesGrow
=============================================================================
