--------------------------- MODULE DmOutboxProofs ---------------------------
(***************************************************************************)
(* Proofs about the private-message store, for any peers, messages, limits *)
(* and number of restarts.                                                 *)
(*                                                                         *)
(* SaveInv: the file never lags behind the state in memory once every      *)
(* goroutine has saved what it changed, although each save copies the      *)
(* state under one lock and writes it under another.  OutboxInv adds what  *)
(* the goroutines owe each other: one worker per peer, and the queues in   *)
(* memory, in the copy being written and in the file in step with what has *)
(* been sent.  QueueInv is the part about the queues.                      *)
(***************************************************************************)
EXTENDS DmOutbox, FilterProofs, FunctionTheorems, SequenceTheorems

\* kayitMu is held by the goroutine that is writing, and by no other.
OneWriter == \A t \in Threads : pc[t] = "write" <=> saver = t

Owing == {t \in Threads : pc[t] \in {"recordPending", "save"}}

\* The newest state is in memory only while somebody owes a save, then in the
\* copy the holder of kayitMu is about to write, then in the file.
Newest ==
    \/ Owing # {}
    \/ saver # NoThread /\ shot = Memory
    \/ saver = NoThread /\ disk = Memory

\* The inductive invariant.
SaveInv ==
    /\ pc \in [Threads -> Places]
    /\ saver \in Threads \cup {NoThread}
    /\ OneWriter
    /\ open => Newest

-----------------------------------------------------------------------------
\* A step of t that leaves the locks, the file and the state alone, and does not
\* touch a save, keeps the invariant.
LEMMA Aside ==
    ASSUME SaveInv, NEW t \in Threads, NEW place \in Places,
           pc[t] \notin {"recordPending", "save", "write"}, place # "write",
           pc' = [pc EXCEPT ![t] = place],
           UNCHANGED <<open, memVars, saver, shot, disk>>
    PROVE  SaveInv'
<1>1. OneWriter' /\ (pc \in [Threads -> Places])'
  BY OutboxAssumption DEF SaveInv, OneWriter
<1>2. Owing \subseteq Owing'
  BY DEF Owing, SaveInv
<1> QED
  BY <1>1, <1>2 DEF SaveInv, Newest, Memory, memVars

\* A step after which t owes a save keeps the invariant, whatever it changes.
LEMMA Owes ==
    ASSUME SaveInv, NEW t \in Threads, NEW place \in {"recordPending", "save"},
           pc[t] # "write",
           pc' = [pc EXCEPT ![t] = place],
           UNCHANGED saver
    PROVE  SaveInv'
<1>1. OneWriter' /\ (pc \in [Threads -> Places])'
  BY OutboxAssumption DEF SaveInv, OneWriter, Places
<1>2. t \in Owing'
  BY DEF Owing, SaveInv
<1> QED
  BY <1>1, <1>2 DEF SaveInv, Newest

\* A step that moves no goroutine and leaves the store alone.
LEMMA Still ==
    ASSUME SaveInv, UNCHANGED <<open, memVars, saver, shot, disk, pc>>
    PROVE  SaveInv'
  BY DEF SaveInv, OneWriter, Newest, Owing, Memory, memVars

-----------------------------------------------------------------------------
LEMMA InitSave == Init => SaveInv
  BY OutboxAssumption DEF Init, SaveInv, OneWriter, Places

LEMMA StepEnvironment == SaveInv /\ Environment => SaveInv'
<1> SUFFICES ASSUME SaveInv, Environment PROVE SaveInv'
  OBVIOUS
<1>1. CASE Tick
  BY <1>1, Still DEF Tick, saveVars
<1>2. ASSUME NEW p \in Peers, Connected(p) PROVE SaveInv'
  <2>1. CASE sending[p] \/ ForPeer(p) = <<>>
    BY <1>2, <2>1, Still DEF Connected, saveVars
  <2>2. CASE ~(sending[p] \/ ForPeer(p) = <<>>)
    <3>1. PICK w \in Workers : pc[w] = "idle" /\ StartWorker(w, p)
      BY <1>2, <2>2 DEF Connected
    <3>2. w \in Threads /\ pc' = [pc EXCEPT ![w] = "expire"]
      BY <3>1 DEF StartWorker, Goto, Threads
    <3> QED
      BY <1>2, <3>1, <3>2, Aside DEF Connected, saveVars, Places
  <2> QED
    BY <2>1, <2>2
<1>3. ASSUME NEW p \in Peers, Disconnect(p) PROVE SaveInv'
  BY <1>3, Still DEF Disconnect, saveVars
<1>4. CASE Open
  <2>1. Opener \in Threads
    BY DEF Threads
  <2> QED
    BY <1>4, <2>1, Owes DEF Open, Goto, saveVars
<1>5. CASE Crash
  <2>1. pc' \in [Threads -> Places]
    BY <1>5 DEF Crash, SaveInv, Places
  <2>2. \A t \in Threads : pc'[t] # "write"
    BY <1>5 DEF Crash
  <2> QED
    BY <1>5, <2>1, <2>2, OutboxAssumption DEF Crash, SaveInv, OneWriter
<1> QED
  BY <1>1, <1>2, <1>3, <1>4, <1>5 DEF Environment

LEMMA StepCall ==
    ASSUME SaveInv, NEW m \in Out, Attempt(m) \/ Enqueue(m) \/ RecordOut(m)
    PROVE  SaveInv'
<1>1. m \in Threads
  BY DEF Threads, Msgs
<1>2. CASE Attempt(m)
  <2>1. PICK place \in {"recordSent", "enqueue"} : Goto(m, place)
    BY <1>2 DEF Attempt
  <2> QED
    BY <1>1, <1>2, <2>1, Aside DEF Attempt, Goto, envVars, saveVars, Places
<1>3. CASE Enqueue(m)
  <2>1. CASE Goto(m, "recordPending")
    BY <1>1, <1>3, <2>1, Owes DEF Enqueue, Goto, saveVars
  <2>2. CASE Goto(m, "refused") /\ UNCHANGED outbox
    BY <1>1, <1>3, <2>2, Aside DEF Enqueue, Goto, envVars, memVars, saveVars, Places
  <2> QED
    BY <1>3, <2>1, <2>2 DEF Enqueue
<1>4. CASE RecordOut(m)
  BY <1>1, <1>4, Owes DEF RecordOut, Record, Goto, saveVars
<1> QED
  BY <1>2, <1>3, <1>4

LEMMA StepWorker ==
    ASSUME SaveInv, NEW w \in Workers, Worker(w)
    PROVE  SaveInv'
<1>1. w \in Threads
  BY DEF Threads
<1>2. CASE ExpireOld(w)
  <2>1. CASE Expired(outbox) = {}
    BY <1>1, <1>2, <2>1, Aside DEF ExpireOld, Goto, envVars, memVars, saveVars, Places
  <2>2. CASE Expired(outbox) # {}
    BY <1>1, <1>2, <2>2, Owes DEF ExpireOld, Goto, saveVars
  <2> QED
    BY <2>1, <2>2
<1>3. CASE Pick(w)
  <2>1. PICK place \in {"clear", "send"} : Goto(w, place)
    BY <1>3 DEF Pick
  <2> QED
    BY <1>1, <1>3, <2>1, Aside DEF Pick, Goto, envVars, saveVars, Places
<1>4. CASE SendOk(w)
  BY <1>1, <1>4, Aside DEF SendOk, Goto, envVars, saveVars, Places
<1>5. CASE SendFail(w)
  BY <1>1, <1>5, Aside DEF SendFail, Goto, envVars, saveVars, Places
<1>6. CASE Remove(w)
  BY <1>1, <1>6, Owes DEF Remove, Goto, saveVars
<1>7. CASE Clear(w)
  BY <1>1, <1>7, Aside DEF Clear, Goto, envVars, saveVars, Places
<1> QED
  BY <1>2, <1>3, <1>4, <1>5, <1>6, <1>7 DEF Worker

\* Where a save ends.
LEMMA AfterPlace == \A t : After(t) \in {"pick", "done", "idle"}
  BY DEF After

LEMMA StepSave ==
    ASSUME SaveInv, NEW t \in Threads, Save(t)
    PROVE  SaveInv'
<1>1. CASE Copy(t)
  <2>1. (pc \in [Threads -> Places])' /\ (saver \in Threads \cup {NoThread})'
    BY <1>1 DEF Copy, Goto, SaveInv, Places
  <2>2. OneWriter'
    BY <1>1, OutboxAssumption DEF Copy, Goto, SaveInv, OneWriter
  <2>3. Newest'
    BY <1>1, OutboxAssumption DEF Copy, Newest, Memory, memVars
  <2> QED
    BY <2>1, <2>2, <2>3 DEF SaveInv
<1>2. CASE SkipSave(t)
  <2>1. pc' = [pc EXCEPT ![t] = After(t)] /\ After(t) \in Places /\ After(t) # "write"
    BY <1>2, AfterPlace DEF SkipSave, Goto, Places
  <2>2. OneWriter' /\ (pc \in [Threads -> Places])'
    BY <1>2, <2>1, OutboxAssumption DEF SkipSave, SaveInv, OneWriter, saveVars
  <2> QED
    BY <1>2, <2>2 DEF SkipSave, SaveInv, envVars, saveVars
<1>3. CASE Write(t)
  <2>1. pc' = [pc EXCEPT ![t] = After(t)] /\ After(t) \in Places /\ After(t) # "write"
    BY <1>3, AfterPlace DEF Write, Goto, Places
  <2>2. saver = t
    BY <1>3 DEF Write, SaveInv, OneWriter
  <2>3. OneWriter' /\ (pc \in [Threads -> Places])'
    BY <1>3, <2>1, <2>2, OutboxAssumption DEF Write, SaveInv, OneWriter
  <2>4. open => Newest'
    <3> SUFFICES ASSUME open PROVE Newest'
      OBVIOUS
    <3>1. CASE Owing # {}
      <4>1. PICK s \in Owing : TRUE
        BY <3>1
      <4>2. s # t
        BY <1>3 DEF Owing, Write
      <4>3. s \in Owing'
        BY <2>1, <4>1, <4>2 DEF Owing, SaveInv
      <4> QED
        BY <4>3 DEF Newest
    <3>2. CASE Owing = {}
      BY <1>3, <2>2, <3>2, OutboxAssumption DEF Write, SaveInv, Newest, Memory, memVars
    <3> QED
      BY <3>1, <3>2
  <2> QED
    BY <1>3, <2>3, <2>4 DEF Write, SaveInv, envVars
<1> QED
  BY <1>1, <1>2, <1>3 DEF Save

LEMMA StepSaveInv == SaveInv /\ [Next]_vars => SaveInv'
<1> SUFFICES ASSUME SaveInv, [Next]_vars PROVE SaveInv'
  OBVIOUS
<1>1. CASE UNCHANGED vars
  BY <1>1, Still DEF vars, envVars, saveVars
<1>2. ASSUME NEW m \in Ins, Receive(m) PROVE SaveInv'
  <2>1. m \in Threads
    BY DEF Threads, Msgs
  <2> QED
    BY <1>2, <2>1, Owes DEF Receive, Record, Goto, saveVars
<1>3. ASSUME NEW p \in Readable, MarkRead(p) PROVE SaveInv'
  <2>1. Reader \in Threads
    BY DEF Threads
  <2> QED
    BY <1>3, <2>1, Owes DEF MarkRead, Goto, saveVars
<1> QED
  BY <1>1, <1>2, <1>3, StepEnvironment, StepCall, StepWorker, StepSave DEF Next

-----------------------------------------------------------------------------
\* However saves, sends, connections and restarts interleave, kayitMu is held by
\* the one goroutine that writes and the newest state is never lost.
THEOREM SaveInvariance == Spec => []SaveInv
  BY InitSave, StepSaveInv, PTL DEF Spec

\* kaydet: once no goroutine has a change still to save, the file holds exactly
\* the state in memory.
THEOREM FileIsCurrent == Spec => []FileCurrent
<1>1. SaveInv => FileCurrent
  <2> SUFFICES ASSUME SaveInv, open,
                      \A t \in Threads : pc[t] \notin {"recordPending", "save", "write"}
               PROVE  disk = Memory
    BY DEF FileCurrent
  <2>1. Owing = {} /\ saver = NoThread
    BY DEF SaveInv, OneWriter, Owing
  <2> QED
    BY <2>1 DEF SaveInv, Newest
<1> QED
  BY <1>1, SaveInvariance, PTL
-----------------------------------------------------------------------------
(* The outbox, in memory and on its way to the file.                        *)

OutPlaces == {"idle", "recordSent", "enqueue", "recordPending", "refused",
              "save", "write", "done", "lost"}
InPlaces == {"idle", "save", "write", "done", "lost"}
WorkPlaces == {"idle", "expire", "pick", "send", "sent", "clear", "save", "write"}

\* Where a goroutine of each kind can be.
Roles ==
    /\ \A m \in Out : pc[m] \in OutPlaces
    /\ \A m \in Ins : pc[m] \in InPlaces
    /\ \A w \in Workers : pc[w] \in WorkPlaces /\ (pc[w] = "idle" <=> who[w] = NoPeer)
    /\ pc[Reader] \in {"idle", "save", "write"} /\ pc[Opener] \in {"idle", "save", "write"}

\* gonderiliyor: at most one goroutine empties the outbox of a peer.
OneWorkerPerPeer ==
    /\ \A w \in Workers : who[w] # NoPeer => sending[who[w]]
    /\ \A w, v \in Workers : who[w] = who[v] /\ who[w] # NoPeer => w = v

\* Before KaliciAc nothing is sent, queued or written.
Closed ==
    /\ saver = NoThread => shot = Blank
    /\ ~open => /\ outbox = <<>> /\ saver = NoThread
                /\ \A w \in Workers : pc[w] = "idle"
                /\ \A m \in Out : pc[m] \in {"idle", "done", "refused", "lost"}
    /\ ~open /\ crashes = 0 => disk = Blank

\* A queue holds a message once, and later entries are not older.
Tidy(q) ==
    /\ \A k \in DOMAIN q : q[k].at <= clock
    /\ \A k, l \in DOMAIN q : k < l => q[k].id # q[l].id /\ q[k].at <= q[l].at

\* A message not yet queued is nowhere in a queue, and nobody sends it.
Unborn ==
    \A m \in Out : pc[m] \in {"idle", "enqueue"} =>
        /\ sent[m] = 0
        /\ m \notin Queued(outbox) /\ m \notin Queued(shot.outbox) /\ m \notin Queued(disk.outbox)
        /\ \A w \in Workers : cur[w] # m

\* What a worker sends is for its peer; it is sent before it is removed.
Sender ==
    /\ \A m \in Out : pc[m] = "recordSent" => sent[m] > 0
    /\ \A w \in Workers :
           /\ pc[w] \in {"send", "sent"} => cur[w] \in Out /\ To[cur[w]] = who[w]
           /\ pc[w] = "sent" => sent[cur[w]] > 0

\* In one life of the process a message still queued is unsent, unless the
\* worker that has just sent it is about to remove it.
FirstLife ==
    crashes = 0 =>
        /\ \A m \in Out : sent[m] <= 1
        /\ \A m \in Queued(outbox) : sent[m] = 0 \/ \E w \in Workers : pc[w] = "sent" /\ cur[w] = m
        /\ \A w \in Workers : pc[w] = "send" => sent[cur[w]] = 0

\* What a worker sends has no earlier message to the same peer before it.
Front ==
    \A w \in Workers : pc[w] = "send" =>
        \A i, j \in DOMAIN outbox : i < j /\ outbox[j].id = cur[w] => To[outbox[i].id] # who[w]

TooOld(d) == clock - d.at > Lifetime

\* A stored queue lags behind the one in memory: what memory lacks was sent or
\* is too old, and what both have is in the same order.
Lags(q) ==
    /\ open => \A k \in DOMAIN q :
                  q[k] \in Elements(outbox) \/ sent[q[k].id] > 0 \/ TooOld(q[k])
    /\ \A k, l \in DOMAIN q, i, j \in DOMAIN outbox :
           k < l /\ q[k] = outbox[i] /\ q[l] = outbox[j] => i < j

\* The order of a stored queue, but for messages that are too old to be sent.
StoredOrder(q) ==
    \A k, l \in DOMAIN q :
        k < l /\ To[q[k].id] = To[q[l].id] /\ sent[q[l].id] > 0
            => sent[q[k].id] > 0 \/ TooOld(q[k])

\* An accepted message is in memory, in the copy about to be written and, once
\* SendDMQueued has returned, in the file.
Safe ==
    \A m \in Out : sent[m] = 0 /\ clock <= Lifetime =>
        /\ open /\ pc[m] \in {"recordPending", "save", "write", "done"} => m \in Queued(outbox)
        /\ pc[m] = "write" => m \in Queued(shot.outbox)
        /\ pc[m] = "done" =>
               m \in Queued(disk.outbox) /\ (saver # NoThread => m \in Queued(shot.outbox))

\* What has been recorded is in the history, or newer entries fill it.
Recorded ==
    \A m \in Ins :
        crashes = 0 /\ pc[m] \in {"save", "write", "done"}
            => \/ \E r \in Elements(history) : r.id = m
               \/ Cardinality(OfKind(history, m)) = Limit(m)

HistoryOK(h) ==
    /\ h \in Seq([id : Msgs, state : States])
    /\ \A m \in Msgs : Cardinality(OfKind(h, m)) <= Limit(m)

\* The order and the fate of what is queued.
QueueInv ==
    /\ Tidy(outbox) /\ Tidy(shot.outbox) /\ Tidy(disk.outbox)
    /\ Unborn /\ Sender /\ FirstLife /\ Front /\ QueueOrder
    /\ Lags(shot.outbox) /\ Lags(disk.outbox)
    /\ StoredOrder(shot.outbox) /\ StoredOrder(disk.outbox)
    /\ Safe

\* The inductive invariant of the outbox.
OutboxInv ==
    /\ TypeOK /\ SaveInv
    /\ Roles /\ OneWorkerPerPeer /\ Closed
    /\ QueueInv
    /\ Recorded
-----------------------------------------------------------------------------
(* What the filters do to queues and histories.                             *)

Entries == Seq([id : Msgs, state : States])
Queues == Seq([id : Out, at : 0..MaxTime])

\* t holds some of the elements of q, in their order.
Thins(t, q) ==
    \E f \in [DOMAIN t -> DOMAIN q] :
        /\ \A k \in DOMAIN t : t[k] = q[f[k]]
        /\ \A k, l \in DOMAIN t : k < l => f[k] < f[l]

LEMMA WithoutIs ==
    ASSUME NEW S, NEW q \in Seq(S), NEW ms
    PROVE  /\ Without(q, ms) \in Seq(S)
           /\ Thins(Without(q, ms), q)
           /\ Elements(Without(q, ms)) = {d \in Elements(q) : d.id \notin ms}
<1> DEFINE I == {i \in DOMAIN q : q[i].id \notin ms}
           t == Without(q, ms)
           D == 1..Cardinality(I)
<1>1. I \in SUBSET (DOMAIN q) /\ t = AtPositions(q, I)
  BY DEF Without
<1> HIDE DEF t
<1>2. /\ t \in Seq(S) /\ DOMAIN t = D /\ Cardinality(I) \in Nat
      /\ Selects(t, q, I)
  <2> HIDE DEF I
  <2> QED
    BY <1>1, FilterKeeps, Zenon
<1>3. PICK f \in [D -> I] : /\ \A k \in D : t[k] = q[f[k]]
                            /\ \A k, l \in D : k < l <=> f[k] < f[l]
                            /\ \A i \in I : \E k \in D : f[k] = i
  <2> HIDE DEF D, I
  <2> QED
    BY <1>2 DEF Selects
<1>4. Thins(t, q)
  <2>1. f \in [DOMAIN t -> DOMAIN q]
    BY <1>1, <1>2
  <2> HIDE DEF D, I
  <2> QED
    BY <1>2, <1>3, <2>1 DEF Thins
<1>5. Elements(t) = {d \in Elements(q) : d.id \notin ms}
  <2>1. \A k \in D : f[k] \in DOMAIN q /\ q[f[k]].id \notin ms
    BY <1>3
  <2>2. \A i \in DOMAIN q : q[i].id \notin ms => \E k \in D : t[k] = q[i]
    BY <1>3
  <2> HIDE DEF D, I
  <2> QED
    BY <1>2, <1>3, <2>1, <2>2 DEF Elements
<1> QED
  BY <1>2, <1>4, <1>5 DEF t

\* The message a worker picks is the first one for its peer.
LEMMA FirstForPeer ==
    ASSUME outbox \in Queues, NEW p, ForPeer(p) # <<>>
    PROVE  \E j \in DOMAIN outbox :
               /\ Head(ForPeer(p)) = outbox[j] /\ To[outbox[j].id] = p
               /\ \A i \in DOMAIN outbox : i < j => To[outbox[i].id] # p
<1> DEFINE I == {i \in DOMAIN outbox : To[outbox[i].id] = p}
           t == ForPeer(p)
           D == 1..Cardinality(I)
<1>1. I \in SUBSET (DOMAIN outbox) /\ t = AtPositions(outbox, I)
  BY DEF ForPeer
<1> HIDE DEF t
<1>2. /\ t \in Queues /\ DOMAIN t = D /\ Cardinality(I) \in Nat
      /\ Selects(t, outbox, I)
  <2> HIDE DEF I
  <2> QED
    BY <1>1, FilterKeeps, Zenon DEF Queues
<1>3. PICK f \in [D -> I] : /\ \A k \in D : t[k] = outbox[f[k]]
                            /\ \A k, l \in D : k < l <=> f[k] < f[l]
                            /\ \A i \in I : \E k \in D : f[k] = i
  <2> HIDE DEF D, I
  <2> QED
    BY <1>2 DEF Selects
<1>4. t # <<>>
  BY DEF t
<1>5. 1 \in D /\ Head(t) = t[1]
  <2> HIDE DEF D
  <2>1. Len(t) # 0 /\ Len(t) \in Nat /\ DOMAIN t = 1..Len(t)
    BY <1>2, <1>4 DEF Queues
  <2> QED
    BY <1>2, <1>4, <2>1 DEF Queues
<1>6. ASSUME NEW i \in I PROVE ~(i < f[1])
  <2>1. PICK k \in D : f[k] = i
    BY <1>3
  <2>2. k = 1 \/ 1 < k
    BY <1>2
  <2>3. i \in Nat /\ f[1] \in Nat
    BY <1>1, <1>3, <1>5 DEF Queues
  <2> HIDE DEF D
  <2> QED
    BY <1>3, <1>5, <2>1, <2>2, <2>3
<1>7. f[1] \in I
  BY <1>3, <1>5
<1> QED
  BY <1>3, <1>5, <1>6, <1>7 DEF t

\* What is true of some elements of a queue in some order.
LEMMA ThinnedTidy ==
    ASSUME NEW q, NEW t, Thins(t, q), Tidy(q)
    PROVE  Tidy(t)
  BY DEF Thins, Tidy

-----------------------------------------------------------------------------
(* The history.                                                             *)

LEMMA KindsFinite ==
    ASSUME NEW h \in Entries, NEW m
    PROVE  /\ OfKind(h, m) \subseteq Nat /\ IsFiniteSet(OfKind(h, m))
           /\ Cardinality(OfKind(h, m)) \in Nat
<1>1. Len(h) \in Nat /\ OfKind(h, m) \subseteq 1..Len(h)
  BY DEF Entries, OfKind
<1>2. IsFiniteSet(1..Len(h))
  BY <1>1, FS_Interval
<1> QED
  BY <1>1, <1>2, FS_Subset, FS_CardinalityType

\* sinirla keeps no more of a kind than its limit, and drops something of it
\* only if it keeps that many.
LEMMA TrimIs ==
    ASSUME NEW h \in Entries, NEW m \in Msgs
    PROVE  /\ Trim(h) \in Entries
           /\ Cardinality(OfKind(Trim(h), m)) <= Limit(m)
           /\ \/ Cardinality(OfKind(Trim(h), m)) = Limit(m)
              \/ /\ Cardinality(OfKind(Trim(h), m)) = Cardinality(OfKind(h, m))
                 /\ \A i \in OfKind(h, m) : h[i] \in Elements(Trim(h))
<1> DEFINE I == {i \in DOMAIN h : Cardinality(Newer(h, i)) < Limit(h[i].id)}
           t == Trim(h)
           D == 1..Cardinality(I)
           O == OfKind(h, m)
           K == O \cap I
           T == OfKind(t, m)
<1>1. I \in SUBSET (DOMAIN h) /\ t = AtPositions(h, I) /\ h \in Seq([id : Msgs, state : States])
  BY DEF Trim, Entries
<1> HIDE DEF t
<1>2. /\ t \in Entries /\ DOMAIN t = D /\ Cardinality(I) \in Nat
      /\ Selects(t, h, I)
  <2> HIDE DEF I
  <2> QED
    BY <1>1, FilterKeeps, Zenon DEF Entries
<1>3. PICK f \in [D -> I] : /\ \A k \in D : t[k] = h[f[k]]
                            /\ \A k, l \in D : k < l <=> f[k] < f[l]
                            /\ \A i \in I : \E k \in D : f[k] = i
  <2> HIDE DEF D, I
  <2> QED
    BY <1>2 DEF Selects
<1>4. /\ O \subseteq Nat /\ IsFiniteSet(O) /\ IsFiniteSet(K) /\ Cardinality(K) \in Nat
      /\ K \subseteq Nat /\ Cardinality(O) \in Nat /\ Cardinality(T) \in Nat /\ IsFiniteSet(T)
  <2>1. O \subseteq Nat /\ IsFiniteSet(O) /\ Cardinality(O) \in Nat
        /\ Cardinality(T) \in Nat /\ IsFiniteSet(T)
    BY <1>2, KindsFinite, Zenon
  <2>2. IsFiniteSet(K)
    BY <2>1, FS_Subset
  <2> QED
    BY <2>1, <2>2, FS_CardinalityType
<1>5. Cardinality(T) = Cardinality(K)
  <2> DEFINE g == [k \in T |-> f[k]]
  <2>1. ASSUME NEW k \in T PROVE f[k] \in K
    <3>1. k \in D /\ SameKind(t[k].id, m)
      BY <1>2 DEF OfKind
    <3>2. f[k] \in I /\ f[k] \in DOMAIN h /\ t[k] = h[f[k]]
      BY <1>1, <1>3, <3>1
    <3> QED
      BY <3>1, <3>2 DEF OfKind
  <2>2. ASSUME NEW i \in K PROVE \E k \in T : f[k] = i
    <3>1. PICK k \in D : f[k] = i
      BY <1>3
    <3> QED
      BY <1>2, <1>3, <3>1 DEF OfKind
  <2>3. \A k, l \in T : f[k] = f[l] => k = l
    <3>1. \A k, l \in D : k < l \/ l < k \/ k = l
      OBVIOUS
    <3>2. T \subseteq D /\ \A i \in I : i \in Nat
      <4>1. T \subseteq DOMAIN t
        BY DEF OfKind
      <4> HIDE DEF I, D, T
      <4> QED
        BY <1>1, <1>2, <4>1
    <3> HIDE DEF D, I, T
    <3> QED
      BY <1>3, <3>1, <3>2
  <2>4. g \in [T -> K]
    BY <2>1
  <2>5. g \in Bijection(T, K)
    <3> HIDE DEF T, K
    <3> QED
      BY <2>2, <2>3, <2>4 DEF Bijection, Injection, Surjection, IsInjective
  <2> HIDE DEF g, T, K
  <2> QED
    BY <1>4, <2>5, FS_Bijection DEF ExistsBijection
<1>6. Limit(m) \in Nat \ {0} /\ \A i \in O : Limit(h[i].id) = Limit(m)
  BY OutboxAssumption DEF Limit, OfKind, SameKind
<1>7. \A i \in O : /\ Newer(h, i) \subseteq O /\ IsFiniteSet(Newer(h, i))
                   /\ Cardinality(Newer(h, i)) \in Nat
                   /\ \A j \in O : j > i => j \in Newer(h, i)
                   /\ \A j \in Newer(h, i) : j > i
  <2> TAKE i \in O
  <2>1. Newer(h, i) \subseteq O /\ (\A j \in O : j > i => j \in Newer(h, i))
        /\ \A j \in Newer(h, i) : j > i
    BY DEF Newer, OfKind, SameKind
  <2>2. Newer(h, i) \in SUBSET O
    BY <2>1
  <2>3. IsFiniteSet(Newer(h, i))
    BY <1>4, <2>2, FS_Subset, Zenon
  <2>4. Cardinality(Newer(h, i)) \in Nat
    BY <2>3, FS_CardinalityType, Zenon
  <2> QED
    BY <2>1, <2>3, <2>4
<1>8. Cardinality(K) <= Limit(m)
  <2>1. CASE K = {}
    <3>1. Cardinality(K) = 0
      BY <2>1, FS_EmptySet
    <3> QED
      BY <1>6, <3>1
  <2>2. CASE K # {}
    <3>1. PICK a \in K : \A i \in K : a <= i
      BY <1>4, <2>2, FirstAndLast
    <3>2. a \in O /\ Cardinality(Newer(h, a)) < Limit(m)
      BY <1>6
    <3>3. K \ {a} \in SUBSET Newer(h, a)
      BY <1>4, <1>7, <3>1, <3>2
    <3>4. Cardinality(K \ {a}) <= Cardinality(Newer(h, a))
      BY <1>7, <3>2, <3>3, FS_Subset
    <3>5. Cardinality(K \ {a}) = Cardinality(K) - 1
      BY <1>4, FS_RemoveElement
    <3> HIDE DEF K
    <3> QED
      BY <1>4, <1>6, <1>7, <3>2, <3>4, <3>5
  <2> QED
    BY <2>1, <2>2
<1>9. CASE O \subseteq I
  <2>1. K = O
    BY <1>9
  <2>2. \A i \in O : h[i] \in Elements(t)
    BY <1>2, <1>3, <1>9 DEF Elements
  <2> QED
    BY <1>2, <1>5, <1>8, <2>1, <2>2 DEF t
<1>10. CASE ~(O \subseteq I)
  <2>1. O \ I # {} /\ IsFiniteSet(O \ I) /\ O \ I \subseteq Nat
    BY <1>4, <1>10, FS_Subset
  <2>2. PICK b \in O \ I : \A i \in O \ I : i <= b
    BY <2>1, FirstAndLast
  <2>3. Newer(h, b) \in SUBSET K
    BY <1>4, <1>7, <2>2
  <2>4. ~(Cardinality(Newer(h, b)) < Limit(m))
    BY <1>6, <2>2 DEF OfKind
  <2>5. Cardinality(Newer(h, b)) <= Cardinality(K)
    BY <1>4, <2>3, FS_Subset
  <2> HIDE DEF K, O, I
  <2>6. Cardinality(K) = Limit(m)
    BY <1>4, <1>6, <1>7, <1>8, <2>2, <2>4, <2>5
  <2> QED
    BY <1>2, <1>5, <1>6, <2>6 DEF t
<1> QED
  BY <1>9, <1>10

\* Entries that only change their state.
LEMMA Relabelled ==
    ASSUME NEW h \in Entries, NEW g \in Entries, DOMAIN g = DOMAIN h,
           \A i \in DOMAIN h : g[i].id = h[i].id
    PROVE  /\ \A m : OfKind(g, m) = OfKind(h, m)
           /\ \A m : (\E r \in Elements(h) : r.id = m) => \E r \in Elements(g) : r.id = m
  BY DEF OfKind, Elements

LEMMA MarkedIs ==
    ASSUME NEW h \in Entries, NEW ms, NEW state \in States
    PROVE  /\ Marked(h, ms, state) \in Entries
           /\ DOMAIN Marked(h, ms, state) = DOMAIN h
           /\ \A i \in DOMAIN h : Marked(h, ms, state)[i].id = h[i].id
<1> DEFINE g == Marked(h, ms, state)
<1>1. h \in [1..Len(h) -> [id : Msgs, state : States]] /\ Len(h) \in Nat
  BY LenProperties DEF Entries
<1>2. g \in [1..Len(h) -> [id : Msgs, state : States]]
  BY <1>1 DEF Marked, Entry
<1>3. \A i \in DOMAIN h : g[i].id = h[i].id
  BY <1>1 DEF Marked, Entry
<1> HIDE DEF g
<1>4. g \in Entries /\ DOMAIN g = DOMAIN h
  BY <1>1, <1>2 DEF Entries
<1> QED
  BY <1>3, <1>4 DEF g
-----------------------------------------------------------------------------
(* Types.                                                                   *)

LEMMA StoresTyped ==
    ASSUME TypeOK
    PROVE  /\ HistoryOK(history) /\ HistoryOK(shot.history) /\ HistoryOK(disk.history)
           /\ outbox \in Queues /\ shot.outbox \in Queues /\ disk.outbox \in Queues
           /\ read \in [Peers -> 0..(MaxTime + 1)] /\ disk.read \in [Peers -> 0..(MaxTime + 1)]
<1>1. Memory.history = history /\ Memory.outbox = outbox /\ Memory.read = read
  BY DEF Memory
<1>2. \A s \in {Memory, shot, disk} :
          /\ s.history \in Seq([id : Msgs, state : States]) /\ s.outbox \in Queues
          /\ s.read \in [Peers -> 0..(MaxTime + 1)]
          /\ \A m \in Msgs : Cardinality(OfKind(s.history, m)) <= Limit(m)
  BY DEF TypeOK, Stores, Queues
<1> QED
  BY <1>1, <1>2 DEF HistoryOK

LEMMA MemoryTyped ==
    ASSUME NEW h, NEW q, NEW r, HistoryOK(h), q \in Queues, r \in [Peers -> 0..(MaxTime + 1)]
    PROVE  LET s == [history |-> h, outbox |-> q, read |-> r] IN
           s \in Stores /\ \A m \in Msgs : Cardinality(OfKind(s.history, m)) <= Limit(m)
  BY DEF HistoryOK, Queues, Stores

LEMMA BlankTyped == HistoryOK(<<>>) /\ <<>> \in Queues /\ [p \in Peers |-> 0] \in [Peers -> 0..(MaxTime + 1)]
<1>1. \A m : OfKind(<<>>, m) = {}
  BY DEF OfKind
<1>2. \A m \in Msgs : Cardinality(OfKind(<<>>, m)) <= Limit(m)
  <2>1. \A m \in Msgs : Limit(m) \in Nat
    BY OutboxAssumption DEF Limit
  <2>2. \A m : Cardinality(OfKind(<<>>, m)) = 0
    BY <1>1, FS_EmptySet
  <2> QED
    BY <2>1, <2>2
<1> QED
  BY <1>2, OutboxAssumption DEF HistoryOK, Queues

LEMMA TrimmedOK == ASSUME NEW h \in Entries PROVE HistoryOK(Trim(h))
<1>1. ASSUME NEW m \in Msgs
      PROVE  Trim(h) \in Entries /\ Cardinality(OfKind(Trim(h), m)) <= Limit(m)
  BY TrimIs, Zenon
<1>2. CASE Msgs = {}
  <2>1. h = <<>>
    BY <1>2 DEF Entries
  <2>2. Trim(h) = <<>>
    BY <2>1, FS_EmptySet DEF Trim, AtPositions
  <2> QED
    BY <2>2, BlankTyped
<1> QED
  BY <1>1, <1>2 DEF HistoryOK, Entries

LEMMA RelabelledOK ==
    ASSUME NEW h, HistoryOK(h), NEW g \in Entries, DOMAIN g = DOMAIN h,
           \A i \in DOMAIN h : g[i].id = h[i].id
    PROVE  HistoryOK(g)
  BY DEF HistoryOK, OfKind, Entries

LEMMA MarkedOK ==
    ASSUME NEW h, HistoryOK(h), NEW ms, NEW state \in States
    PROVE  HistoryOK(Marked(h, ms, state))
<1>1. h \in Entries
  BY DEF HistoryOK, Entries
<1>2. /\ Marked(h, ms, state) \in Entries /\ DOMAIN Marked(h, ms, state) = DOMAIN h
      /\ \A i \in DOMAIN h : Marked(h, ms, state)[i].id = h[i].id
  BY <1>1, MarkedIs, Zenon
<1> QED
  BY <1>1, <1>2, RelabelledOK, Zenon

\* Remove's change of the history.
Delivered(h, m) ==
    [i \in DOMAIN h |-> IF h[i] = Entry(m, "pending") THEN Entry(m, "sent") ELSE h[i]]

LEMMA DeliveredIs ==
    ASSUME NEW h \in Entries, NEW m
    PROVE  /\ Delivered(h, m) \in Entries /\ DOMAIN Delivered(h, m) = DOMAIN h
           /\ \A i \in DOMAIN h : Delivered(h, m)[i].id = h[i].id
<1> DEFINE g == Delivered(h, m)
<1>1. h \in [1..Len(h) -> [id : Msgs, state : States]] /\ Len(h) \in Nat
  BY LenProperties DEF Entries
<1>2. ASSUME NEW i \in DOMAIN h
      PROVE  g[i] \in [id : Msgs, state : States] /\ g[i].id = h[i].id
  <2>1. h[i] \in [id : Msgs, state : States]
    BY <1>1
  <2>2. h[i] = Entry(m, "pending") => m \in Msgs /\ m = h[i].id
    BY <2>1 DEF Entry
  <2> QED
    BY <2>1, <2>2 DEF Delivered, Entry, States
<1>3. DOMAIN g = DOMAIN h /\ DOMAIN h = 1..Len(h) /\ g = [i \in 1..Len(h) |-> g[i]]
  BY <1>1 DEF Delivered
<1> HIDE DEF g
<1>4. g \in [1..Len(h) -> [id : Msgs, state : States]]
  BY <1>2, <1>3
<1> QED
  BY <1>1, <1>2, <1>3, <1>4 DEF g, Entries

LEMMA HistoryStep ==
    ASSUME OutboxInv, [Next]_vars
    PROVE  HistoryOK(history')
<1>1. HistoryOK(history) /\ HistoryOK(disk.history) /\ history \in Entries /\ disk.history \in Entries
  BY StoresTyped DEF OutboxInv, HistoryOK, Entries
<1>2. ASSUME NEW t, NEW m \in Msgs, NEW state \in States, Record(t, m, state)
      PROVE  HistoryOK(history')
  <2>1. Append(history, Entry(m, state)) \in Entries
    BY <1>1 DEF Entries, Entry
  <2> QED
    BY <1>2, <2>1, TrimmedOK DEF Record
<1>3. ASSUME NEW h, HistoryOK(h), NEW q, Expire(h, q)
      PROVE  HistoryOK(history')
  <2>1. "failed" \in States
    BY DEF States
  <2> QED
    BY <1>3, <2>1, MarkedOK, Zenon DEF Expire
<1>4. CASE UNCHANGED history
  BY <1>1, <1>4
<1>5. CASE Open
  <2>1. disk.history \o history \in Entries
    BY <1>1 DEF Entries
  <2> QED
    BY <1>3, <1>5, <2>1, TrimmedOK DEF Open
<1>6. CASE Crash
  BY <1>6, BlankTyped DEF Crash
<1>7. ASSUME NEW m \in Out, Attempt(m) \/ Enqueue(m) \/ RecordOut(m) PROVE HistoryOK(history')
  <2>1. m \in Msgs /\ "sent" \in States /\ "pending" \in States
    BY DEF Msgs, States
  <2> QED
    BY <1>2, <1>4, <1>7, <2>1 DEF Attempt, Enqueue, RecordOut, memVars
<1>8. ASSUME NEW m \in Ins, Receive(m) PROVE HistoryOK(history')
  BY <1>2, <1>8 DEF Receive, Msgs, States
<1>9. ASSUME NEW w \in Workers, Worker(w) PROVE HistoryOK(history')
  <2>1. CASE Remove(w)
    <3>1. history' = Delivered(history, cur[w])
      BY <2>1 DEF Remove, Delivered
    <3>2. HistoryOK(Delivered(history, cur[w]))
      BY <1>1, DeliveredIs, RelabelledOK
    <3> QED
      BY <3>1, <3>2
  <2>2. CASE ExpireOld(w)
    BY <1>1, <1>3, <1>4, <2>2 DEF ExpireOld
  <2> QED
    BY <1>4, <1>9, <2>1, <2>2 DEF Worker, Pick, SendOk, SendFail, Clear, memVars
<1>10. CASE Tick \/ \E p \in Peers : Connected(p) \/ Disconnect(p)
  BY <1>4, <1>10 DEF Tick, Connected, Disconnect, memVars
<1>11. CASE \E p \in Readable : MarkRead(p)
  BY <1>4, <1>11 DEF MarkRead
<1>12. CASE \E t \in Threads : Save(t)
  BY <1>4, <1>12 DEF Save, Copy, SkipSave, Write, memVars
<1>13. CASE UNCHANGED vars
  BY <1>4, <1>13 DEF vars, memVars
<1> QED
  BY <1>5, <1>6, <1>7, <1>8, <1>9, <1>10, <1>11, <1>12, <1>13 DEF Next, Environment
LEMMA QueueTypes ==
    ASSUME OutboxInv, [Next]_vars
    PROVE  outbox' \in Queues /\ read' \in [Peers -> 0..(MaxTime + 1)]
<1>1. /\ outbox \in Queues /\ disk.outbox \in Queues
      /\ read \in [Peers -> 0..(MaxTime + 1)] /\ disk.read \in [Peers -> 0..(MaxTime + 1)]
      /\ clock \in 0..MaxTime /\ MaxTime \in Nat
  BY StoresTyped, OutboxAssumption DEF OutboxInv, TypeOK
<1>2. \A q \in Queues : \A ms : Without(q, ms) \in Queues
  BY WithoutIs, Zenon DEF Queues
<1>3. CASE UNCHANGED <<outbox, read>>
  BY <1>1, <1>3
<1>4. CASE Open
  <2>1. disk.outbox \o outbox \in Queues
    BY <1>1 DEF Queues
  <2> QED
    BY <1>1, <1>2, <1>4, <2>1 DEF Open, Expire
<1>5. CASE Crash
  BY <1>5, BlankTyped DEF Crash
<1>6. ASSUME NEW m \in Out, Enqueue(m) PROVE outbox' \in Queues /\ read' = read
  <2>1. [id |-> m, at |-> clock] \in [id : Out, at : 0..MaxTime]
    BY <1>1
  <2>2. outbox' = outbox \/ outbox' = Append(outbox, [id |-> m, at |-> clock])
    BY <1>6 DEF Enqueue
  <2>3. outbox' \in Queues
    <3> DEFINE d == [id |-> m, at |-> clock]
               D == [id : Out, at : 0..MaxTime]
    <3>1. d \in D /\ outbox \in Seq(D)
      BY <1>1, <2>1 DEF Queues
    <3> HIDE DEF d, D
    <3>2. Append(outbox, d) \in Seq(D)
      BY <3>1
    <3> QED
      BY <1>1, <2>2, <3>2 DEF Queues, d, D
  <2> QED
    BY <1>6, <2>3 DEF Enqueue
<1>7. ASSUME NEW w \in Workers, Worker(w) PROVE outbox' \in Queues /\ read' = read
  BY <1>1, <1>2, <1>7 DEF Worker, ExpireOld, Expire, Pick, SendOk, SendFail, Remove, Clear, memVars
<1>8. ASSUME NEW p \in Readable, MarkRead(p)
      PROVE  outbox' = outbox /\ read' \in [Peers -> 0..(MaxTime + 1)]
  <2>1. clock + 1 \in 0..(MaxTime + 1)
    BY <1>1
  <2> QED
    BY <1>1, <1>8, <2>1 DEF MarkRead
<1>9. CASE Tick \/ \E p \in Peers : Connected(p) \/ Disconnect(p)
  BY <1>3, <1>9 DEF Tick, Connected, Disconnect, memVars
<1>10. ASSUME NEW m \in Out, Attempt(m) \/ RecordOut(m) PROVE UNCHANGED <<outbox, read>>
  BY <1>10 DEF Attempt, RecordOut, Record, memVars
<1>11. ASSUME NEW m \in Ins, Receive(m) PROVE UNCHANGED <<outbox, read>>
  BY <1>11 DEF Receive, Record
<1>12. CASE \E t \in Threads : Save(t)
  BY <1>3, <1>12 DEF Save, Copy, SkipSave, Write, memVars
<1>13. CASE UNCHANGED vars
  BY <1>3, <1>13 DEF vars, memVars
<1> QED
  BY <1>1, <1>3, <1>4, <1>5, <1>6, <1>7, <1>8, <1>9, <1>10, <1>11, <1>12, <1>13
     DEF Next, Environment

\* shot and disk only ever take each other's value, or that of the memory.
LEMMA StoreStep ==
    ASSUME [Next]_vars
    PROVE  shot' \in {Memory, Blank, shot} /\ disk' \in {shot, disk}
<1>1. CASE UNCHANGED vars
  BY <1>1 DEF vars, saveVars
<1>2. CASE Environment
  BY <1>2 DEF Environment, Tick, Connected, Disconnect, Open, Crash, saveVars
<1>3. ASSUME NEW m \in Out, Attempt(m) \/ Enqueue(m) \/ RecordOut(m) PROVE UNCHANGED <<shot, disk>>
  BY <1>3 DEF Attempt, Enqueue, RecordOut, Record, saveVars
<1>4. ASSUME NEW m \in Ins, Receive(m) PROVE UNCHANGED <<shot, disk>>
  BY <1>4 DEF Receive, Record, saveVars
<1>5. ASSUME NEW p \in Readable, MarkRead(p) PROVE UNCHANGED <<shot, disk>>
  BY <1>5 DEF MarkRead, saveVars
<1>6. ASSUME NEW w \in Workers, Worker(w) PROVE UNCHANGED <<shot, disk>>
  BY <1>6 DEF Worker, ExpireOld, Pick, SendOk, SendFail, Remove, Clear, saveVars
<1>7. ASSUME NEW t \in Threads, Save(t)
      PROVE  shot' \in {Memory, Blank, shot} /\ disk' \in {shot, disk}
  BY <1>7 DEF Save, Copy, SkipSave, Write, saveVars
<1> QED
  BY <1>1, <1>2, <1>3, <1>4, <1>5, <1>6, <1>7 DEF Next

LEMMA WorkTypes ==
    ASSUME OutboxInv, [Next]_vars
    PROVE  /\ sending' \in [Peers -> BOOLEAN]
           /\ who' \in [Workers -> Peers \cup {NoPeer}]
           /\ cur' \in [Workers -> Out \cup {NoMsg}]
           /\ sent' \in [Out -> 0..2]
<1>1. /\ sending \in [Peers -> BOOLEAN]
      /\ who \in [Workers -> Peers \cup {NoPeer}]
      /\ cur \in [Workers -> Out \cup {NoMsg}]
      /\ sent \in [Out -> 0..2]
  BY DEF OutboxInv, TypeOK
<1>2. CASE UNCHANGED <<sending, who, cur, sent>>
  BY <1>1, <1>2
<1>3. ASSUME NEW p \in Peers, Connected(p) PROVE
        /\ sending' \in [Peers -> BOOLEAN] /\ who' \in [Workers -> Peers \cup {NoPeer}]
        /\ UNCHANGED <<cur, sent>>
  BY <1>1, <1>3 DEF Connected, StartWorker, workVars
<1>4. CASE Crash
  BY <1>1, <1>4 DEF Crash
<1>5. ASSUME NEW m \in Out, Handed(m) PROVE sent' \in [Out -> 0..2]
  BY <1>1, <1>5 DEF Handed
<1>6. ASSUME NEW m \in Out, Attempt(m) \/ Enqueue(m) \/ RecordOut(m)
      PROVE  sent' \in [Out -> 0..2] /\ UNCHANGED <<sending, who, cur>>
  BY <1>1, <1>5, <1>6 DEF Attempt, Enqueue, RecordOut, Record, workVars
<1>7. ASSUME NEW w \in Workers, Worker(w) PROVE
        /\ sending' \in [Peers -> BOOLEAN] /\ who' \in [Workers -> Peers \cup {NoPeer}]
        /\ cur' \in [Workers -> Out \cup {NoMsg}] /\ sent' \in [Out -> 0..2]
  <2>1. CASE Pick(w)
    <3>1. outbox \in Queues
      BY StoresTyped DEF OutboxInv
    <3>2. ForPeer(who[w]) # <<>> => Head(ForPeer(who[w])).id \in Out
      <4>1. \A j \in DOMAIN outbox : outbox[j].id \in Out
        <5> DEFINE D == [id : Out, at : 0..MaxTime]
        <5>1. outbox \in Seq(D)
          BY <3>1 DEF Queues
        <5>2. \A j \in DOMAIN outbox : outbox[j] \in D
          <6> HIDE DEF D
          <6> QED
            BY <5>1
        <5> QED
          BY <5>2
      <4> QED
        BY <3>1, <4>1, FirstForPeer
    <3> QED
      BY <1>1, <2>1, <3>2 DEF Pick
  <2>2. CASE SendOk(w)
    <3>1. cur[w] \in Out
      BY <2>2 DEF SendOk, OutboxInv, QueueInv, Sender
    <3> QED
      BY <1>1, <1>5, <2>2, <3>1 DEF SendOk, workVars
  <2>3. CASE Clear(w)
    BY <1>1, <2>3 DEF Clear
  <2> QED
    BY <1>1, <1>7, <2>1, <2>2, <2>3 DEF Worker, ExpireOld, SendFail, Remove, workVars
<1>8. CASE Tick \/ Open \/ \E p \in Peers : Disconnect(p)
  BY <1>2, <1>8 DEF Tick, Open, Disconnect, workVars
<1>9. ASSUME NEW m \in Ins, Receive(m) PROVE UNCHANGED <<sending, who, cur, sent>>
  BY <1>9 DEF Receive, Record, workVars
<1>10. CASE \E p \in Readable : MarkRead(p)
  BY <1>2, <1>10 DEF MarkRead, workVars
<1>11. CASE \E t \in Threads : Save(t)
  BY <1>2, <1>11 DEF Save, Copy, SkipSave, Write, workVars
<1>12. CASE UNCHANGED vars
  BY <1>2, <1>12 DEF vars, workVars
<1> QED
  BY <1>1, <1>2, <1>3, <1>4, <1>6, <1>7, <1>8, <1>9, <1>10, <1>11, <1>12 DEF Next, Environment

LEMMA EnvTypes ==
    ASSUME OutboxInv, [Next]_vars
    PROVE  /\ clock' \in 0..MaxTime /\ online' \subseteq Peers /\ open' \in BOOLEAN
           /\ crashes' \in 0..Crashes
<1>1. /\ clock \in 0..MaxTime /\ online \subseteq Peers /\ open \in BOOLEAN
      /\ crashes \in 0..Crashes /\ MaxTime \in Nat /\ Crashes \in Nat
  BY OutboxAssumption DEF OutboxInv, TypeOK
<1>2. CASE UNCHANGED envVars
  BY <1>1, <1>2 DEF envVars
<1>3. CASE Environment
  <2>1. CASE Tick
    BY <1>1, <2>1 DEF Tick
  <2>2. CASE Open
    BY <1>1, <2>2 DEF Open
  <2>3. CASE Crash
    <3>1. /\ crashes < Crashes /\ crashes' = crashes + 1
          /\ online' = {} /\ open' = FALSE /\ clock' = clock
      BY <2>3 DEF Crash
    <3>2. crashes' \in 0..Crashes
      BY <1>1, <3>1
    <3> QED
      BY <1>1, <3>1, <3>2
  <2>4. ASSUME NEW p \in Peers, Connected(p) \/ Disconnect(p)
        PROVE  online' \subseteq Peers /\ UNCHANGED <<clock, open, crashes>>
    BY <1>1, <2>4 DEF Connected, Disconnect
  <2> QED
    BY <1>1, <1>3, <2>1, <2>2, <2>3, <2>4 DEF Environment
<1>4. ASSUME NEW m \in Out, Attempt(m) \/ Enqueue(m) \/ RecordOut(m) PROVE UNCHANGED envVars
  BY <1>4 DEF Attempt, Enqueue, RecordOut, Record
<1>5. ASSUME NEW m \in Ins, Receive(m) PROVE UNCHANGED envVars
  BY <1>5 DEF Receive, Record
<1>6. CASE \E p \in Readable : MarkRead(p)
  BY <1>2, <1>6 DEF MarkRead
<1>7. ASSUME NEW w \in Workers, Worker(w) PROVE UNCHANGED envVars
  BY <1>7 DEF Worker, ExpireOld, Pick, SendOk, SendFail, Remove, Clear
<1>8. CASE \E t \in Threads : Save(t)
  BY <1>2, <1>8 DEF Save, Copy, SkipSave, Write
<1>9. CASE UNCHANGED vars
  BY <1>2, <1>9 DEF vars
<1> QED
  BY <1>2, <1>3, <1>4, <1>5, <1>6, <1>7, <1>8, <1>9 DEF Next

LEMMA TypeStep == ASSUME OutboxInv, [Next]_vars PROVE TypeOK'
<1> DEFINE Fine(s) == s \in Stores /\ \A m \in Msgs : Cardinality(OfKind(s.history, m)) <= Limit(m)
<1>1. Fine(Memory) /\ Fine(shot) /\ Fine(disk)
  BY DEF OutboxInv, TypeOK
<1>2. Fine(Memory')
  BY HistoryStep, QueueTypes, MemoryTyped DEF Memory
<1>3. Fine(Blank)
  BY BlankTyped, MemoryTyped DEF Blank
<1>4. Fine(shot') /\ Fine(disk')
  <2> HIDE DEF Fine
  <2> QED
    BY <1>1, <1>3, StoreStep
<1>5. pc' \in [Threads -> Places] /\ saver' \in Threads \cup {NoThread}
  BY StepSaveInv DEF OutboxInv, SaveInv
<1>6. \A s \in {Memory', shot', disk'} : Fine(s)
  <2> HIDE DEF Fine
  <2> QED
    BY <1>2, <1>4
<1> QED
  BY <1>5, <1>6, WorkTypes, EnvTypes DEF TypeOK
-----------------------------------------------------------------------------
(* Where the goroutines are.                                                *)

RoleInv == Roles /\ OneWorkerPerPeer /\ Closed

\* A goroutine other than a worker goes on, with the locks and the store as far
\* as Closed speaks of them left alone.
LEMMA CallMoves ==
    ASSUME OutboxInv, NEW t \in Threads \ Workers, NEW place,
           pc' = [pc EXCEPT ![t] = place],
           t \in Out => place \in OutPlaces,
           t \in Ins => place \in InPlaces,
           t \in {Reader, Opener} => place \in {"idle", "save", "write"},
           UNCHANGED <<who, sending>>
    PROVE  Roles' /\ OneWorkerPerPeer'
<1>1. \A w \in Workers : pc'[w] = pc[w]
  BY DEF OutboxInv, SaveInv, Threads
<1>2. \A s \in Threads : pc'[s] = IF s = t THEN place ELSE pc[s]
  BY DEF OutboxInv, SaveInv
<1>3. Out \subseteq Threads /\ Ins \subseteq Threads /\ Reader \in Threads /\ Opener \in Threads
  BY DEF Threads, Msgs
<1> QED
  BY <1>1, <1>2, <1>3, OutboxAssumption DEF OutboxInv, Roles, OneWorkerPerPeer

LEMMA WorkerMoves ==
    ASSUME OutboxInv, NEW w \in Workers, NEW place \in WorkPlaces \ {"idle"}, pc[w] # "idle",
           pc' = [pc EXCEPT ![w] = place],
           UNCHANGED <<who, sending>>
    PROVE  Roles' /\ OneWorkerPerPeer'
<1>1. \A s \in Threads : pc'[s] = IF s = w THEN place ELSE pc[s]
  BY DEF OutboxInv, SaveInv
<1>2. /\ Out \subseteq Threads /\ Ins \subseteq Threads /\ Reader \in Threads /\ Opener \in Threads
      /\ Workers \subseteq Threads /\ w \notin Out /\ w \notin Ins /\ w # Reader /\ w # Opener
  BY OutboxAssumption DEF Threads, Msgs
<1> QED
  BY <1>1, <1>2 DEF OutboxInv, Roles, OneWorkerPerPeer

LEMMA RoleStill ==
    ASSUME OutboxInv, UNCHANGED <<pc, who, sending>>
    PROVE  Roles' /\ OneWorkerPerPeer'
  BY DEF OutboxInv, Roles, OneWorkerPerPeer

LEMMA RoleEnvironment == ASSUME OutboxInv, Environment PROVE RoleInv'
<1>1. CASE Tick
  BY <1>1, RoleStill DEF Tick, workVars, memVars, saveVars, OutboxInv, RoleInv, Closed
<1>2. ASSUME NEW p \in Peers, Connected(p) PROVE RoleInv'
  <2>1. CASE sending[p] \/ ForPeer(p) = <<>>
    BY <1>2, <2>1, RoleStill DEF Connected, workVars, memVars, saveVars, OutboxInv, RoleInv, Closed
  <2>2. CASE ~(sending[p] \/ ForPeer(p) = <<>>)
    <3>1. PICK w \in Workers : pc[w] = "idle" /\ StartWorker(w, p)
      BY <1>2, <2>2 DEF Connected
    <3>2. open
      <4> SUFFICES ASSUME ~open PROVE FALSE
        OBVIOUS
      <4>1. outbox = <<>>
        BY DEF OutboxInv, Closed
      <4>2. {i \in DOMAIN outbox : To[outbox[i].id] = p} = {}
        BY <4>1
      <4>3. AtPositions(outbox, {}) = <<>>
        BY FS_EmptySet DEF AtPositions
      <4> QED
        BY <2>2, <4>2, <4>3 DEF ForPeer
    <3>3. /\ pc' = [pc EXCEPT ![w] = "expire"] /\ who' = [who EXCEPT ![w] = p]
          /\ sending' = [sending EXCEPT ![p] = TRUE]
      BY <3>1 DEF StartWorker, Goto
    <3>4. /\ \A s \in Threads : pc'[s] = IF s = w THEN "expire" ELSE pc[s]
          /\ \A v \in Workers : who'[v] = IF v = w THEN p ELSE who[v]
          /\ \A r \in Peers : sending'[r] = IF r = p THEN TRUE ELSE sending[r]
      BY <3>3 DEF OutboxInv, SaveInv, TypeOK
    <3>5. /\ Out \subseteq Threads /\ Ins \subseteq Threads /\ Reader \in Threads
          /\ Opener \in Threads /\ Workers \subseteq Threads
          /\ w \notin Out /\ w \notin Ins /\ w # Reader /\ w # Opener /\ p # NoPeer
      BY OutboxAssumption DEF Threads, Msgs
    <3>6. Roles'
      BY <3>4, <3>5 DEF OutboxInv, Roles, WorkPlaces
    <3>7. OneWorkerPerPeer'
      <4>1. \A v \in Workers : who[v] # p
        BY <2>2, <3>5 DEF OutboxInv, OneWorkerPerPeer
      <4>2. \A v \in Workers : who[v] \in Peers \cup {NoPeer}
        BY DEF OutboxInv, TypeOK
      <4>3. \A v \in Workers : who[v] # NoPeer => sending[who[v]]
        BY DEF OutboxInv, OneWorkerPerPeer
      <4>4. \A v \in Workers : who'[v] # NoPeer => sending'[who'[v]]
        BY <3>4, <4>2, <4>3
      <4>5. \A u, v \in Workers : who'[u] = who'[v] /\ who'[u] # NoPeer => u = v
        BY <3>4, <4>1 DEF OutboxInv, OneWorkerPerPeer
      <4> QED
        BY <4>4, <4>5 DEF OneWorkerPerPeer
    <3>8. Closed'
      BY <1>2, <3>2 DEF Connected, saveVars, OutboxInv, Closed
    <3> QED
      BY <3>6, <3>7, <3>8 DEF RoleInv
  <2> QED
    BY <2>1, <2>2
<1>3. ASSUME NEW p \in Peers, Disconnect(p) PROVE RoleInv'
  BY <1>3, RoleStill DEF Disconnect, workVars, memVars, saveVars, OutboxInv, RoleInv, Closed
<1>4. CASE Open
  <2>1. Roles' /\ OneWorkerPerPeer'
    <3>1. Opener \in Threads \ Workers /\ Opener \notin Out /\ Opener \notin Ins
      BY OutboxAssumption DEF Threads, Msgs
    <3> QED
      BY <1>4, <3>1, CallMoves DEF Open, Goto, workVars
  <2> QED
    BY <1>4, <2>1 DEF Open, saveVars, RoleInv, OutboxInv, Closed
<1>5. CASE Crash
  <2>1. \A t \in Threads : pc'[t] = IF t \in Msgs /\ pc[t] # "idle"
                                    THEN IF pc[t] \in {"done", "refused"} THEN pc[t] ELSE "lost"
                                    ELSE "idle"
    BY <1>5 DEF Crash
  <2>2. /\ Out \subseteq Threads /\ Ins \subseteq Threads /\ Reader \in Threads
        /\ Opener \in Threads /\ Workers \subseteq Threads /\ Msgs = Out \cup Ins
        /\ Reader \notin Msgs /\ Opener \notin Msgs /\ \A w \in Workers : w \notin Msgs
    BY OutboxAssumption DEF Threads, Msgs
  <2>3. \A w \in Workers : who'[w] = NoPeer
    BY <1>5 DEF Crash
  <2>4. Roles'
    BY <2>1, <2>2, <2>3 DEF Roles, OutboxInv, OutPlaces, InPlaces, WorkPlaces
  <2>5. OneWorkerPerPeer'
    BY <2>3 DEF OneWorkerPerPeer
  <2>6. crashes' # 0
    BY <1>5 DEF Crash, OutboxInv, TypeOK
  <2>7. Closed'
    BY <1>5, <2>1, <2>2, <2>6 DEF Crash, Closed
  <2> QED
    BY <2>4, <2>5, <2>7 DEF RoleInv
<1> QED
  BY <1>1, <1>2, <1>3, <1>4, <1>5 DEF Environment

LEMMA RoleStep == ASSUME OutboxInv, [Next]_vars PROVE RoleInv'
<1>1. /\ Out \subseteq Threads \ Workers /\ Ins \subseteq Threads \ Workers
      /\ Reader \in Threads \ Workers /\ Opener \in Threads \ Workers /\ Workers \subseteq Threads
      /\ Reader \notin Msgs /\ Opener \notin Msgs /\ Msgs = Out \cup Ins /\ Out \cap Ins = {}
  BY OutboxAssumption DEF Threads, Msgs
<1>2. ASSUME NEW m \in Out, Attempt(m) \/ Enqueue(m) \/ RecordOut(m) PROVE RoleInv'
  <2>1. \E place \in OutPlaces : pc' = [pc EXCEPT ![m] = place]
    BY <1>2 DEF Attempt, Enqueue, RecordOut, Record, Goto, OutPlaces
  <2>2. UNCHANGED <<who, sending>>
    BY <1>2 DEF Attempt, Enqueue, RecordOut, Record, workVars
  <2>3. Roles' /\ OneWorkerPerPeer'
    BY <1>1, <2>1, <2>2, CallMoves
  <2>4. open
    BY <1>2 DEF Attempt, Enqueue, RecordOut, OutboxInv, Closed
  <2>5. Closed'
    BY <1>2, <2>4 DEF Attempt, Enqueue, RecordOut, Record, envVars, saveVars, OutboxInv, Closed
  <2> QED
    BY <2>3, <2>5 DEF RoleInv
<1>3. ASSUME NEW m \in Ins, Receive(m) PROVE RoleInv'
  <2>1. Roles' /\ OneWorkerPerPeer'
    BY <1>1, <1>3, CallMoves DEF Receive, Record, Goto, workVars, InPlaces
  <2>2. \A s \in Threads : s # m => pc'[s] = pc[s]
    BY <1>3 DEF Receive, Record, Goto, OutboxInv, SaveInv
  <2>3. Closed'
    BY <1>1, <1>3, <2>2 DEF Receive, Record, envVars, saveVars, OutboxInv, Closed
  <2> QED
    BY <2>1, <2>3 DEF RoleInv
<1>4. ASSUME NEW p \in Readable, MarkRead(p) PROVE RoleInv'
  <2>1. Roles' /\ OneWorkerPerPeer'
    BY <1>1, <1>4, CallMoves DEF MarkRead, Goto, workVars
  <2> QED
    BY <1>4, <2>1 DEF MarkRead, envVars, saveVars, OutboxInv, RoleInv, Closed
<1>5. ASSUME NEW w \in Workers, Worker(w) PROVE RoleInv'
  <2>1. open
    BY <1>5 DEF Worker, ExpireOld, Pick, SendOk, SendFail, Remove, Clear, OutboxInv, Closed
  <2>2. Closed'
    BY <1>5, <2>1 DEF Worker, ExpireOld, Pick, SendOk, SendFail, Remove, Clear, envVars, saveVars,
       OutboxInv, Closed
  <2>3. CASE Clear(w)
    <3>1. /\ \A s \in Threads : pc'[s] = IF s = w THEN "idle" ELSE pc[s]
          /\ \A v \in Workers : who'[v] = IF v = w THEN NoPeer ELSE who[v]
          /\ \A r \in Peers : r # who[w] => sending'[r] = sending[r]
      BY <2>3 DEF Clear, Goto, OutboxInv, SaveInv, TypeOK
    <3>2. \A v \in Workers : who[v] \in Peers \cup {NoPeer}
      BY DEF OutboxInv, TypeOK
    <3>3. w \notin Out /\ w \notin Ins /\ w # Reader /\ w # Opener
      BY OutboxAssumption DEF Msgs
    <3>4. Roles'
      BY <1>1, <3>1, <3>3 DEF OutboxInv, Roles, WorkPlaces
    <3>5. OneWorkerPerPeer'
      BY <3>1, <3>2 DEF OutboxInv, OneWorkerPerPeer
    <3> QED
      BY <2>2, <3>4, <3>5 DEF RoleInv
  <2>4. CASE ~Clear(w)
    <3>1. \E place \in WorkPlaces \ {"idle"} : pc' = [pc EXCEPT ![w] = place]
      BY <1>5, <2>4 DEF Worker, ExpireOld, Pick, SendOk, SendFail, Remove, Goto, WorkPlaces
    <3>2. pc[w] # "idle" /\ UNCHANGED <<who, sending>>
      BY <1>5, <2>4 DEF Worker, ExpireOld, Pick, SendOk, SendFail, Remove, workVars
    <3>3. Roles' /\ OneWorkerPerPeer'
      BY <3>1, <3>2, WorkerMoves
    <3> QED
      BY <2>2, <3>3 DEF RoleInv
  <2> QED
    BY <2>3, <2>4
<1>6. ASSUME NEW t \in Threads, Save(t) PROVE RoleInv'
  <2>1. PICK place : /\ pc' = [pc EXCEPT ![t] = place]
                     /\ place = "write" \/ place = After(t)
    BY <1>6 DEF Save, Copy, SkipSave, Write, Goto
  <2>2. UNCHANGED <<who, sending>> /\ pc[t] \in {"save", "write"}
    BY <1>6 DEF Save, Copy, SkipSave, Write, workVars
  <2>3. Roles' /\ OneWorkerPerPeer'
    <3>1. CASE t \in Workers
      <4>1. place \in WorkPlaces \ {"idle"}
        BY <2>1, <3>1, OutboxAssumption DEF After, WorkPlaces
      <4> QED
        BY <2>1, <2>2, <3>1, <4>1, WorkerMoves
    <3>2. CASE t \in Msgs
      BY <1>1, <2>1, <2>2, <3>2, CallMoves DEF After, OutPlaces, InPlaces
    <3>3. CASE t \in {Reader, Opener}
      BY <1>1, <2>1, <2>2, <3>3, CallMoves DEF After
    <3> QED
      BY <3>1, <3>2, <3>3 DEF Threads
  <2>4. Closed'
    <3>1. CASE Copy(t)
      BY <3>1, OutboxAssumption DEF Copy, envVars, OutboxInv, Closed
    <3>2. CASE Write(t)
      <4>1. saver = t /\ t # NoThread
        BY <3>2, OutboxAssumption DEF Write, OutboxInv, SaveInv, OneWriter
      <4>2. open
        BY <4>1 DEF OutboxInv, Closed
      <4> QED
        BY <3>2, <4>2 DEF Write, envVars, OutboxInv, Closed
    <3>3. CASE SkipSave(t)
      <4>1. t \notin Out /\ t \notin Workers
        BY <3>3 DEF SkipSave, OutboxInv, Closed
      <4>2. \A s \in Threads : s # t => pc'[s] = pc[s]
        BY <2>1 DEF OutboxInv, SaveInv
      <4> QED
        BY <1>1, <3>3, <4>1, <4>2 DEF SkipSave, envVars, memVars, saveVars, OutboxInv, Closed
    <3> QED
      BY <1>6, <3>1, <3>2, <3>3 DEF Save
  <2> QED
    BY <2>3, <2>4 DEF RoleInv
<1>7. CASE UNCHANGED vars
  BY <1>7, RoleStill DEF vars, envVars, memVars, workVars, saveVars, OutboxInv, RoleInv, Closed
<1> QED
  BY <1>2, <1>3, <1>4, <1>5, <1>6, <1>7, RoleEnvironment DEF Next
-----------------------------------------------------------------------------
(* The queues.                                                              *)

\* The positions and the entries of a queue.
LEMMA QueueIs ==
    ASSUME NEW q \in Queues
    PROVE  /\ DOMAIN q \subseteq Nat
           /\ \A k \in DOMAIN q : q[k].id \in Out /\ q[k].at \in Nat
<1> DEFINE D == [id : Out, at : 0..MaxTime]
<1>1. q \in Seq(D)
  BY DEF Queues
<1>2. DOMAIN q \subseteq Nat /\ \A k \in DOMAIN q : q[k] \in D
  <2> HIDE DEF D
  <2> QED
    BY <1>1
<1>3. MaxTime \in Nat
  BY OutboxAssumption
<1>4. \A d \in D : d.id \in Out /\ d.at \in Nat
  BY <1>3
<1> QED
  BY <1>2, <1>4

LEMMA ThreeQueues ==
    ASSUME OutboxInv
    PROVE  /\ DOMAIN outbox \subseteq Nat /\ DOMAIN shot.outbox \subseteq Nat
           /\ DOMAIN disk.outbox \subseteq Nat
           /\ \A q \in {outbox, shot.outbox, disk.outbox} :
                  \A k \in DOMAIN q : q[k].id \in Out /\ q[k].at \in Nat
           /\ clock \in Nat /\ Lifetime \in Nat /\ sent \in [Out -> Nat]
  BY StoresTyped, QueueIs, OutboxAssumption DEF OutboxInv, TypeOK

\* Steps that neither send nor change a queue.
LEMMA QueuesStill ==
    ASSUME OutboxInv,
           UNCHANGED <<clock, open, crashes, outbox, shot, disk, sent, saver>>,
           \A w \in Workers :
               /\ pc'[w] \in {"send", "sent"} => pc[w] = pc'[w] /\ cur'[w] = cur[w] /\ who'[w] = who[w]
               /\ pc[w] = "sent" => pc'[w] = "sent"
               /\ cur'[w] \in {cur[w], NoMsg},
           \A m \in Out :
               /\ pc'[m] \in {"idle", "enqueue"} => pc[m] \in {"idle", "enqueue"}
               /\ sent[m] = 0 /\ pc'[m] \in {"recordPending", "save", "write", "done"}
                    => pc[m] \in {"recordPending", "save", "write", "done"}
               /\ pc'[m] \in {"write", "done"} => pc[m] = pc'[m]
               /\ pc'[m] = "recordSent" => sent[m] > 0
    PROVE  QueueInv'
<1>1. QueueInv
  BY DEF OutboxInv
<1>2. Tidy(outbox)' /\ Tidy(shot.outbox)' /\ Tidy(disk.outbox)'
  BY <1>1 DEF QueueInv, Tidy
<1>3. Unborn'
  <2>1. \A m \in Out : m # NoMsg
    BY OutboxAssumption DEF Msgs
  <2> QED
    BY <1>1, <2>1 DEF QueueInv, Unborn, Queued, Elements
<1>4. Sender'
  BY <1>1 DEF QueueInv, Sender
<1>5. FirstLife'
  BY <1>1 DEF QueueInv, FirstLife, Queued, Elements
<1>6. Front' /\ QueueOrder'
  BY <1>1 DEF QueueInv, Front, QueueOrder
<1>7. Lags(shot.outbox)' /\ Lags(disk.outbox)'
  BY <1>1 DEF QueueInv, Lags, Elements, TooOld
<1>8. StoredOrder(shot.outbox)' /\ StoredOrder(disk.outbox)'
  BY <1>1 DEF QueueInv, StoredOrder, TooOld
<1>9. Safe'
  BY <1>1 DEF QueueInv, Safe, Queued, Elements
<1> QED
  BY <1>2, <1>3, <1>4, <1>5, <1>6, <1>7, <1>8, <1>9 DEF QueueInv

LEMMA QueueTick == ASSUME OutboxInv, Tick PROVE QueueInv'
<1>1. QueueInv
  BY DEF OutboxInv
<1>2. /\ clock' = clock + 1
      /\ UNCHANGED <<open, crashes, outbox, shot, disk, sent, saver, pc, who, cur>>
  BY DEF Tick, memVars, workVars, saveVars
<1>3. ASSUME NEW q \in {outbox, shot.outbox, disk.outbox}, Tidy(q)
      PROVE  \A k \in DOMAIN q : q[k].at <= clock'
  BY <1>2, <1>3, ThreeQueues DEF Tidy
<1>4. ASSUME NEW q \in {outbox, shot.outbox, disk.outbox}, NEW k \in DOMAIN q, TooOld(q[k])
      PROVE  clock' - q[k].at > Lifetime
  BY <1>2, <1>4, ThreeQueues DEF TooOld
<1>5. Tidy(outbox)' /\ Tidy(shot.outbox)' /\ Tidy(disk.outbox)'
  BY <1>1, <1>2, <1>3 DEF QueueInv, Tidy
<1>6. Unborn' /\ Sender' /\ FirstLife'
  BY <1>1, <1>2 DEF QueueInv, Unborn, Sender, FirstLife, Queued, Elements
<1>7. Front' /\ QueueOrder'
  BY <1>1, <1>2 DEF QueueInv, Front, QueueOrder
<1>8. Lags(shot.outbox)' /\ Lags(disk.outbox)'
  BY <1>1, <1>2, <1>4 DEF QueueInv, Lags, Elements, TooOld
<1>9. StoredOrder(shot.outbox)' /\ StoredOrder(disk.outbox)'
  BY <1>1, <1>2, <1>4 DEF QueueInv, StoredOrder, TooOld
<1>10. Safe'
  <2>1. clock' <= Lifetime => clock <= Lifetime
    BY <1>2, ThreeQueues
  <2> QED
    BY <1>1, <1>2, <2>1 DEF QueueInv, Safe, Queued, Elements
<1> QED
  BY <1>5, <1>6, <1>7, <1>8, <1>9, <1>10 DEF QueueInv

\* What a message handed to the network keeps: sent only grows, and only for it.
LEMMA HandedIs ==
    ASSUME OutboxInv, NEW m \in Out, Handed(m)
    PROVE  /\ sent' \in [Out -> Nat] /\ sent'[m] > 0
           /\ \A x \in Out : x # m => sent'[x] = sent[x]
           /\ \A x \in Out : sent[x] > 0 => sent'[x] > 0
           /\ sent[m] = 0 => sent'[m] = 1
<1>1. sent \in [Out -> Nat] /\ sent' = [sent EXCEPT ![m] = IF @ < 2 THEN @ + 1 ELSE @]
  BY ThreeQueues DEF Handed
<1> QED
  BY <1>1

\* SendDM hands over a message that no queue holds.
LEMMA QueueAttempt ==
    ASSUME OutboxInv, NEW m \in Out, Attempt(m), Handed(m), Goto(m, "recordSent")
    PROVE  QueueInv'
<1>1. QueueInv
  BY DEF OutboxInv
<1>2. UNCHANGED <<clock, open, crashes, outbox, shot, disk, saver, who, cur>>
  BY DEF Attempt, envVars, memVars, workVars, saveVars
<1>3. /\ \A s \in Threads : pc'[s] = IF s = m THEN "recordSent" ELSE pc[s]
      /\ m \in Threads /\ Workers \subseteq Threads /\ Out \subseteq Threads /\ m \notin Workers
  BY OutboxAssumption DEF Goto, OutboxInv, SaveInv, Threads, Msgs
<1>4. /\ sent[m] = 0 /\ m \notin Queued(outbox) /\ m \notin Queued(shot.outbox)
      /\ m \notin Queued(disk.outbox) /\ \A w \in Workers : cur[w] # m
  BY <1>1 DEF Attempt, QueueInv, Unborn
<1>5. /\ sent' \in [Out -> Nat] /\ sent'[m] = 1
      /\ \A x \in Out : x # m => sent'[x] = sent[x]
      /\ \A x \in Out : sent[x] > 0 => sent'[x] > 0
  BY <1>4, HandedIs
<1>6. ASSUME NEW q \in {outbox, shot.outbox, disk.outbox}, NEW k \in DOMAIN q
      PROVE  q[k].id \in Out /\ q[k].id # m
  BY <1>4, ThreeQueues DEF Queued, Elements
<1>7. Tidy(outbox)' /\ Tidy(shot.outbox)' /\ Tidy(disk.outbox)'
  BY <1>1, <1>2 DEF QueueInv, Tidy
<1>8. Unborn' /\ Sender'
  BY <1>1, <1>2, <1>3, <1>4, <1>5 DEF QueueInv, Unborn, Sender, Queued, Elements
<1>9. FirstLife'
  <2> SUFFICES ASSUME crashes = 0 PROVE
        /\ \A x \in Out : sent'[x] <= 1
        /\ \A x \in Queued(outbox) : sent'[x] = 0 \/ \E w \in Workers : pc'[w] = "sent" /\ cur[w] = x
        /\ \A w \in Workers : pc'[w] = "send" => sent'[cur[w]] = 0
    BY <1>2 DEF FirstLife, Queued, Elements
  <2>1. \A x \in Out : sent'[x] <= 1
    BY <1>1, <1>5 DEF QueueInv, FirstLife
  <2>2. \A x \in Queued(outbox) : x \in Out /\ x # m
    BY <1>6 DEF Queued, Elements
  <2>3. \A x \in Queued(outbox) : sent'[x] = 0 \/ \E w \in Workers : pc'[w] = "sent" /\ cur[w] = x
    BY <1>1, <1>3, <1>5, <2>2 DEF QueueInv, FirstLife
  <2>4. \A w \in Workers : pc'[w] = "send" => sent'[cur[w]] = 0
    BY <1>1, <1>3, <1>4, <1>5 DEF QueueInv, FirstLife, Sender
  <2> QED
    BY <2>1, <2>3, <2>4
<1>10. Front' /\ QueueOrder'
  BY <1>1, <1>2, <1>3, <1>5, <1>6 DEF QueueInv, Front, QueueOrder
<1>11. Lags(shot.outbox)' /\ Lags(disk.outbox)'
  BY <1>1, <1>2, <1>5, <1>6 DEF QueueInv, Lags, Elements, TooOld
<1>12. StoredOrder(shot.outbox)' /\ StoredOrder(disk.outbox)'
  BY <1>1, <1>2, <1>5, <1>6 DEF QueueInv, StoredOrder, TooOld
<1>13. Safe'
  BY <1>1, <1>2, <1>3, <1>5 DEF QueueInv, Safe, Queued, Elements
<1> QED
  BY <1>7, <1>8, <1>9, <1>10, <1>11, <1>12, <1>13 DEF QueueInv

\* SendDM of a worker: the message is the first one in the outbox for its peer.
LEMMA QueueSendOk == ASSUME OutboxInv, NEW w \in Workers, SendOk(w) PROVE QueueInv'
<1> DEFINE m == cur[w]
<1>1. QueueInv
  BY DEF OutboxInv
<1>2. UNCHANGED <<clock, open, crashes, outbox, shot, disk, saver, who, cur>>
  BY DEF SendOk, envVars, memVars, workVars, saveVars
<1>3. /\ \A s \in Threads : pc'[s] = IF s = w THEN "sent" ELSE pc[s]
      /\ Workers \subseteq Threads /\ Out \subseteq Threads /\ \A x \in Out : x # w
  BY OutboxAssumption DEF SendOk, Goto, OutboxInv, SaveInv, Threads, Msgs
<1>4. /\ m \in Out /\ To[m] = who[w] /\ pc[w] = "send" /\ open /\ who[w] # NoPeer
  BY <1>1 DEF SendOk, OutboxInv, QueueInv, Sender, Closed, Roles
<1>5. /\ sent' \in [Out -> Nat] /\ sent'[m] > 0
      /\ \A x \in Out : x # m => sent'[x] = sent[x]
      /\ \A x \in Out : sent[x] > 0 => sent'[x] > 0
      /\ sent[m] = 0 => sent'[m] = 1
  <2>1. Handed(m)
    BY DEF SendOk
  <2> HIDE DEF m
  <2> QED
    BY <1>4, <2>1, HandedIs, Zenon
<1>6. \A q \in {outbox, shot.outbox, disk.outbox} : \A k \in DOMAIN q : q[k].id \in Out
  BY ThreeQueues
<1>7. \A x \in Out : sent'[x] = 0 => sent[x] = 0
  BY <1>5, ThreeQueues
<1> HIDE DEF m
<1>8. \A v \in Workers : v # w /\ pc[v] = "send" => cur[v] \in Out /\ cur[v] # m
  BY <1>1, <1>4 DEF QueueInv, Sender, OutboxInv, OneWorkerPerPeer
<1>9. Tidy(outbox)' /\ Tidy(shot.outbox)' /\ Tidy(disk.outbox)'
  BY <1>1, <1>2 DEF QueueInv, Tidy
<1>10. Unborn' /\ Sender'
  <2>1. \A x \in Out : pc'[x] = pc[x]
    BY <1>3
  <2>2. \A x \in Out : pc[x] \in {"idle", "enqueue"} => x # m
    BY <1>1 DEF QueueInv, Unborn, m
  <2>3. Unborn'
    BY <1>1, <1>2, <1>5, <2>1, <2>2 DEF QueueInv, Unborn, Queued, Elements
  <2>4. Sender'
    BY <1>1, <1>2, <1>3, <1>4, <1>5, <2>1 DEF QueueInv, Sender, m
  <2> QED
    BY <2>3, <2>4
<1>11. FirstLife'
  <2> SUFFICES ASSUME crashes = 0 PROVE
        /\ \A x \in Out : sent'[x] <= 1
        /\ \A x \in Queued(outbox) : sent'[x] = 0 \/ \E v \in Workers : pc'[v] = "sent" /\ cur[v] = x
        /\ \A v \in Workers : pc'[v] = "send" => sent'[cur[v]] = 0
    BY <1>2 DEF FirstLife, Queued, Elements
  <2>1. sent[m] = 0
    BY <1>1, <1>4 DEF QueueInv, FirstLife, m
  <2>2. \A x \in Out : sent'[x] <= 1
    BY <1>1, <1>5, <2>1 DEF QueueInv, FirstLife
  <2>3. \A x \in Queued(outbox) : sent'[x] = 0 \/ \E v \in Workers : pc'[v] = "sent" /\ cur[v] = x
    <3>1. \A x \in Queued(outbox) : x \in Out
      BY <1>6 DEF Queued, Elements
    <3>2. pc'[w] = "sent" /\ cur[w] = m
      BY <1>3 DEF m
    <3> QED
      BY <1>1, <1>3, <1>4, <1>5, <3>1, <3>2 DEF QueueInv, FirstLife
  <2>4. \A v \in Workers : pc'[v] = "send" => sent'[cur[v]] = 0
    BY <1>1, <1>3, <1>5, <1>8 DEF QueueInv, FirstLife
  <2> QED
    BY <2>2, <2>3, <2>4
<1>12. \A i, j \in DOMAIN outbox : i < j /\ outbox[j].id = m => To[outbox[i].id] # To[m]
  BY <1>1, <1>4 DEF QueueInv, Front, m
<1>13. Front' /\ QueueOrder'
  <2>1. Front'
    BY <1>1, <1>2, <1>3 DEF QueueInv, Front
  <2>2. QueueOrder'
    BY <1>1, <1>2, <1>5, <1>6, <1>12 DEF QueueInv, QueueOrder
  <2> QED
    BY <2>1, <2>2
<1>14. Lags(shot.outbox)' /\ Lags(disk.outbox)'
  BY <1>1, <1>2, <1>5, <1>6 DEF QueueInv, Lags, Elements, TooOld
<1>15. ASSUME NEW q \in {shot.outbox, disk.outbox}, Tidy(q), Lags(q), StoredOrder(q)
       PROVE  \A k, l \in DOMAIN q : k < l /\ To[q[k].id] = To[q[l].id] /\ sent'[q[l].id] > 0
                  => sent'[q[k].id] > 0 \/ TooOld(q[k])
  <2> SUFFICES ASSUME NEW k \in DOMAIN q, NEW l \in DOMAIN q, k < l,
                      To[q[k].id] = To[q[l].id], sent'[q[l].id] > 0, ~(sent'[q[k].id] > 0)
               PROVE  TooOld(q[k])
    OBVIOUS
  <2>1. q[k].id \in Out /\ q[l].id \in Out /\ ~(sent[q[k].id] > 0)
    BY <1>5, <1>6
  <2>2. CASE sent[q[l].id] > 0
    BY <1>15, <2>1, <2>2 DEF StoredOrder
  <2>3. CASE q[l].id = m /\ ~(sent[m] > 0)
    <3>1. CASE TooOld(q[l])
      <4>1. q[k].at <= q[l].at /\ q[k].at \in Nat /\ q[l].at \in Nat /\ clock \in Nat
        BY <1>15, ThreeQueues DEF Tidy
      <4> QED
        BY <3>1, <4>1, OutboxAssumption DEF TooOld
    <3>2. CASE q[l] \in Elements(outbox) /\ q[k] \in Elements(outbox)
      <4>1. PICK j \in DOMAIN outbox, i \in DOMAIN outbox : q[l] = outbox[j] /\ q[k] = outbox[i]
        BY <3>2 DEF Elements
      <4>2. i < j
        BY <1>15, <4>1 DEF Lags
      <4> QED
        BY <1>12, <2>3, <4>1, <4>2
    <3> QED
      BY <1>4, <1>15, <2>1, <2>3, <3>1, <3>2 DEF Lags
  <2> QED
    BY <1>5, <2>1, <2>2, <2>3
<1>16. StoredOrder(shot.outbox)' /\ StoredOrder(disk.outbox)'
  BY <1>1, <1>2, <1>15 DEF QueueInv, StoredOrder, TooOld
<1>17. Safe'
  BY <1>1, <1>2, <1>3, <1>7 DEF QueueInv, Safe, Queued, Elements
<1> QED
  BY <1>9, <1>10, <1>11, <1>13, <1>14, <1>16, <1>17 DEF QueueInv

\* An accepted message goes to the end of the outbox.
LEMMA QueueEnqueue == ASSUME OutboxInv, NEW m \in Out, Enqueue(m) PROVE QueueInv'
<1> DEFINE d == [id |-> m, at |-> clock]
           n == Len(outbox) + 1
<1>1. QueueInv
  BY DEF OutboxInv
<1>2. UNCHANGED <<clock, open, crashes, shot, disk, sent, saver, who, cur>>
  BY DEF Enqueue, envVars, workVars, saveVars
<1>3. /\ Workers \subseteq Threads /\ Out \subseteq Threads /\ m \notin Workers /\ pc \in [Threads -> Places]
  BY OutboxAssumption DEF OutboxInv, SaveInv, Threads, Msgs
<1>4. CASE Goto(m, "refused") /\ UNCHANGED outbox
  <2>1. \A s \in Threads : pc'[s] = IF s = m THEN "refused" ELSE pc[s]
    BY <1>3, <1>4 DEF Goto
  <2>2. \A x \in Out : x # m => pc'[x] = pc[x]
    BY <1>3, <2>1
  <2>3. pc'[m] = "refused" /\ \A w \in Workers : pc'[w] = pc[w] /\ cur'[w] = cur[w] /\ who'[w] = who[w]
    BY <1>2, <1>3, <2>1
  <2>4. \A x \in Out :
          /\ pc'[x] \in {"idle", "enqueue"} => pc[x] \in {"idle", "enqueue"}
          /\ sent[x] = 0 /\ pc'[x] \in {"recordPending", "save", "write", "done"}
               => pc[x] \in {"recordPending", "save", "write", "done"}
          /\ pc'[x] \in {"write", "done"} => pc[x] = pc'[x]
          /\ pc'[x] = "recordSent" => sent[x] > 0
    BY <1>1, <2>2, <2>3 DEF QueueInv, Sender
  <2> QED
    BY <1>2, <1>4, <2>3, <2>4, QueuesStill
<1>5. CASE outbox' = Append(outbox, d) /\ Goto(m, "recordPending")
  <2>1. /\ \A s \in Threads : pc'[s] = IF s = m THEN "recordPending" ELSE pc[s]
        /\ pc[m] = "enqueue"
    BY <1>3, <1>5 DEF Goto, Enqueue
  <2>2. /\ DOMAIN outbox' = (DOMAIN outbox) \cup {n} /\ outbox'[n] = d
        /\ \A k \in DOMAIN outbox : k < n /\ outbox'[k] = outbox[k]
    <3>1. outbox \in Seq([id : Out, at : 0..MaxTime])
      BY StoresTyped DEF OutboxInv, Queues
    <3> DEFINE D == [id : Out, at : 0..MaxTime]
    <3> HIDE DEF D, d
    <3>2. outbox \in Seq(D)
      BY <3>1 DEF D
    <3> QED
      BY <1>5, <3>2
  <2>3. /\ DOMAIN outbox \subseteq Nat /\ n \in Nat /\ clock \in Nat
        /\ \A q \in {outbox, shot.outbox, disk.outbox} : \A k \in DOMAIN q : q[k].id \in Out /\ q[k].at \in Nat
        /\ \A q \in {shot.outbox, disk.outbox} : DOMAIN q \subseteq Nat
    <3>1. Len(outbox) \in Nat
      BY StoresTyped DEF OutboxInv, Queues
    <3> QED
      BY <3>1, ThreeQueues
  <2>4. /\ sent[m] = 0 /\ m \notin Queued(outbox) /\ m \notin Queued(shot.outbox)
        /\ m \notin Queued(disk.outbox) /\ \A w \in Workers : cur[w] # m
    BY <1>1, <2>1 DEF QueueInv, Unborn
  <2>5. \A q \in {outbox, shot.outbox, disk.outbox} : \A k \in DOMAIN q : q[k].id # m
    BY <2>4 DEF Queued, Elements
  <2>6. d.id = m /\ d.at = clock
    OBVIOUS
  <2>7. Queued(outbox') = Queued(outbox) \cup {m} /\ Elements(outbox') = Elements(outbox) \cup {d}
    <3>1. Elements(outbox') = Elements(outbox) \cup {d}
      BY <2>2 DEF Elements
    <3> QED
      BY <2>6, <3>1 DEF Queued
  <2> HIDE DEF d, n
  <2>8. Tidy(outbox)'
    BY <1>1, <1>2, <2>2, <2>3, <2>5, <2>6 DEF QueueInv, Tidy
  <2>9. Tidy(shot.outbox)' /\ Tidy(disk.outbox)'
    BY <1>1, <1>2 DEF QueueInv, Tidy
  <2>10. Unborn' /\ Sender'
    <3>1. \A x \in Out : pc'[x] \in {"idle", "enqueue", "recordSent"} => x # m /\ pc[x] = pc'[x]
      BY <1>3, <2>1
    <3>2. Unborn'
      BY <1>1, <1>2, <2>7, <3>1 DEF QueueInv, Unborn, Queued, Elements
    <3> QED
      BY <1>1, <1>2, <1>3, <2>1, <3>1, <3>2 DEF QueueInv, Sender
  <2>11. FirstLife'
    BY <1>1, <1>2, <1>3, <2>1, <2>4, <2>7 DEF QueueInv, FirstLife
  <2>12. Front'
    BY <1>1, <1>2, <1>3, <2>1, <2>2, <2>3, <2>4, <2>6 DEF QueueInv, Front
  <2>13. QueueOrder'
    BY <1>1, <1>2, <2>2, <2>3, <2>4, <2>6 DEF QueueInv, QueueOrder
  <2>14. Lags(shot.outbox)' /\ Lags(disk.outbox)'
    BY <1>1, <1>2, <2>2, <2>5, <2>6, <2>7 DEF QueueInv, Lags, TooOld
  <2>15. StoredOrder(shot.outbox)' /\ StoredOrder(disk.outbox)'
    BY <1>1, <1>2 DEF QueueInv, StoredOrder, TooOld
  <2>16. Safe'
    <3>1. \A x \in Out : x # m => pc'[x] = pc[x]
      BY <1>3, <2>1
    <3>2. pc'[m] = "recordPending"
      BY <1>3, <2>1
    <3> QED
      BY <1>1, <1>2, <2>7, <3>1, <3>2 DEF QueueInv, Safe, Queued, Elements
  <2> QED
    BY <2>8, <2>9, <2>10, <2>11, <2>12, <2>13, <2>14, <2>15, <2>16 DEF QueueInv
<1> QED
  BY <1>4, <1>5 DEF Enqueue

LEMMA QueueWithout ==
    \A q \in Queues : \A ms :
        /\ Without(q, ms) \in Queues
        /\ Thins(Without(q, ms), q)
        /\ Elements(Without(q, ms)) = {d \in Elements(q) : d.id \notin ms}
  BY WithoutIs, Zenon DEF Queues

\* A worker takes messages out of the outbox that were sent or are too old.
LEMMA QueueThinned ==
    ASSUME OutboxInv, NEW w \in Workers, NEW ms,
           outbox' = Without(outbox, ms),
           UNCHANGED <<clock, open, crashes, shot, disk, sent, saver, who, cur>>,
           Goto(w, "save"),
           pc[w] = "sent" => cur[w] \in ms,
           \A d \in Elements(outbox) : d.id \in ms => sent[d.id] > 0 \/ TooOld(d)
    PROVE  QueueInv'
<1>1. QueueInv
  BY DEF OutboxInv
<1>2. /\ \A s \in Threads : pc'[s] = IF s = w THEN "save" ELSE pc[s]
      /\ Workers \subseteq Threads /\ Out \subseteq Threads /\ \A x \in Out : x # w
  BY OutboxAssumption DEF Goto, OutboxInv, SaveInv, Threads, Msgs
<1>3. \A x \in Out : pc'[x] = pc[x]
  BY <1>2
<1>4. /\ Thins(outbox', outbox)
      /\ Elements(outbox') = {d \in Elements(outbox) : d.id \notin ms}
      /\ outbox' \in Queues
  <2>1. outbox \in Queues
    BY StoresTyped DEF OutboxInv
  <2> QED
    BY <2>1, QueueWithout
<1>5. PICK f \in [DOMAIN outbox' -> DOMAIN outbox] :
          /\ \A k \in DOMAIN outbox' : outbox'[k] = outbox[f[k]]
          /\ \A k, l \in DOMAIN outbox' : k < l => f[k] < f[l]
  BY <1>4 DEF Thins
<1>6. Queued(outbox') \subseteq Queued(outbox)
  BY <1>4 DEF Queued
<1>7. Tidy(outbox)' /\ Tidy(shot.outbox)' /\ Tidy(disk.outbox)'
  <2>1. Tidy(outbox')
    BY <1>1, <1>4, ThinnedTidy DEF QueueInv
  <2> QED
    BY <1>1, <2>1 DEF QueueInv, Tidy
<1>8. Unborn' /\ Sender'
  BY <1>1, <1>2, <1>3, <1>6 DEF QueueInv, Unborn, Sender, Queued, Elements
<1>9. FirstLife'
  <2>1. \A x \in Queued(outbox') : x \in Queued(outbox) /\ x \notin ms
    BY <1>4 DEF Queued
  <2>2. \A v \in Workers : pc'[v] \in {"send", "sent"} => pc[v] = pc'[v]
    BY <1>2
  <2>3. \A v \in Workers : pc[v] = "sent" /\ cur[v] \notin ms => pc'[v] = "sent"
    BY <1>2
  <2> QED
    BY <1>1, <2>1, <2>2, <2>3 DEF QueueInv, FirstLife
<1>10. Front' /\ QueueOrder'
  <2>1. \A v \in Workers : pc'[v] = "send" => pc[v] = "send"
    BY <1>2
  <2>2. Front'
    BY <1>1, <1>5, <2>1 DEF QueueInv, Front
  <2>3. QueueOrder'
    BY <1>1, <1>5 DEF QueueInv, QueueOrder
  <2> QED
    BY <2>2, <2>3
<1>11. \A i, j \in DOMAIN outbox' : f[i] < f[j] => i < j
  <2>1. DOMAIN outbox \subseteq Nat /\ DOMAIN outbox' \subseteq Nat
    BY <1>4, ThreeQueues, QueueIs
  <2>2. \A i \in DOMAIN outbox' : f[i] \in DOMAIN outbox
    BY <1>5
  <2>3. \A i, j \in DOMAIN outbox' : i < j \/ j < i \/ i = j
    BY <2>1
  <2> QED
    BY <1>5, <2>1, <2>2, <2>3
<1>12. Lags(shot.outbox)' /\ Lags(disk.outbox)'
  <2> SUFFICES ASSUME NEW q \in {shot.outbox, disk.outbox}, Lags(q)
               PROVE  /\ open => \A k \in DOMAIN q :
                            q[k] \in Elements(outbox') \/ sent[q[k].id] > 0 \/ TooOld(q[k])
                      /\ \A k, l \in DOMAIN q, i, j \in DOMAIN outbox' :
                            k < l /\ q[k] = outbox'[i] /\ q[l] = outbox'[j] => i < j
    BY <1>1 DEF QueueInv, Lags, TooOld
  <2>1. open => \A k \in DOMAIN q : q[k] \in Elements(outbox') \/ sent[q[k].id] > 0 \/ TooOld(q[k])
    BY <1>4 DEF Lags
  <2>2. \A k, l \in DOMAIN q, i, j \in DOMAIN outbox' :
            k < l /\ q[k] = outbox'[i] /\ q[l] = outbox'[j] => i < j
    BY <1>5, <1>11 DEF Lags
  <2> QED
    BY <2>1, <2>2
<1>13. StoredOrder(shot.outbox)' /\ StoredOrder(disk.outbox)'
  BY <1>1 DEF QueueInv, StoredOrder, TooOld
<1>14. Safe'
  <2>1. ASSUME NEW x \in Out, sent[x] = 0, clock <= Lifetime, x \in Queued(outbox)
        PROVE  x \in Queued(outbox')
    <3>1. PICK d \in Elements(outbox) : d.id = x
      BY <2>1 DEF Queued
    <3>2. d.at \in Nat /\ clock \in Nat
      BY ThreeQueues DEF Elements
    <3>3. ~TooOld(d)
      BY <2>1, <3>2, OutboxAssumption DEF TooOld
    <3> QED
      BY <1>4, <2>1, <3>1, <3>3 DEF Queued
  <2> QED
    BY <1>1, <1>3, <2>1 DEF QueueInv, Safe, Queued, Elements
<1> QED
  BY <1>7, <1>8, <1>9, <1>10, <1>12, <1>13, <1>14 DEF QueueInv

\* kuyruguGonder takes the first message for its peer.
LEMMA QueuePick ==
    ASSUME OutboxInv, NEW w \in Workers, Pick(w), ForPeer(who[w]) # <<>>
    PROVE  QueueInv'
<1>1. QueueInv /\ Tidy(outbox)
  BY DEF OutboxInv, QueueInv
<1>2. /\ UNCHANGED <<clock, open, crashes, outbox, shot, disk, saver, sent, who>>
      /\ pc[w] = "pick" /\ cur' = [cur EXCEPT ![w] = Head(ForPeer(who[w])).id]
      /\ pc' = [pc EXCEPT ![w] = "send"]
  BY DEF Pick, Goto, envVars, memVars, saveVars
<1>3. PICK j \in DOMAIN outbox :
          /\ Head(ForPeer(who[w])) = outbox[j] /\ To[outbox[j].id] = who[w]
          /\ \A i \in DOMAIN outbox : i < j => To[outbox[i].id] # who[w]
  BY StoresTyped, FirstForPeer DEF OutboxInv
<1> DEFINE m == outbox[j].id
<1>4. /\ \A s \in Threads : pc'[s] = IF s = w THEN "send" ELSE pc[s]
      /\ \A v \in Workers : cur'[v] = IF v = w THEN m ELSE cur[v]
      /\ Workers \subseteq Threads /\ Out \subseteq Threads /\ \A x \in Out : x # w
  BY <1>2, <1>3, OutboxAssumption DEF OutboxInv, SaveInv, TypeOK, Threads, Msgs
<1>5. m \in Out /\ m \in Queued(outbox) /\ DOMAIN outbox \subseteq Nat
  BY ThreeQueues DEF Queued, Elements
<1>6. \A i \in DOMAIN outbox : outbox[i].id = m => i = j
  BY <1>1, <1>5 DEF Tidy
<1>7. To[m] = who[w] /\ \A i \in DOMAIN outbox : i < j => To[outbox[i].id] # who[w]
  BY <1>3
<1> HIDE DEF m
<1>8. \A x \in Out : pc'[x] = pc[x]
  BY <1>4
<1>9. Tidy(outbox)' /\ Tidy(shot.outbox)' /\ Tidy(disk.outbox)'
  BY <1>1, <1>2 DEF QueueInv, Tidy
<1>10. Unborn' /\ Sender'
  <2>1. Unborn'
    BY <1>1, <1>2, <1>4, <1>5, <1>8 DEF QueueInv, Unborn, Queued, Elements
  <2>2. Sender'
    BY <1>1, <1>2, <1>4, <1>5, <1>7, <1>8 DEF QueueInv, Sender
  <2> QED
    BY <2>1, <2>2
<1>11. FirstLife'
  <2> SUFFICES ASSUME crashes = 0 PROVE
        /\ \A x \in Out : sent[x] <= 1
        /\ \A x \in Queued(outbox) : sent[x] = 0 \/ \E v \in Workers : pc'[v] = "sent" /\ cur'[v] = x
        /\ \A v \in Workers : pc'[v] = "send" => sent[cur'[v]] = 0
    BY <1>2 DEF FirstLife, Queued, Elements
  <2>1. \A x \in Queued(outbox) : sent[x] = 0 \/ \E v \in Workers : pc[v] = "sent" /\ cur[v] = x
    BY <1>1 DEF QueueInv, FirstLife
  <2>2. sent[m] = 0
    <3>1. \A v \in Workers : pc[v] = "sent" /\ cur[v] = m => FALSE
      <4>1. \A v \in Workers : pc[v] = "sent" /\ cur[v] = m => who[v] = who[w] /\ who[v] # NoPeer
        BY <1>1, <1>7 DEF QueueInv, Sender, OutboxInv, Roles
      <4> QED
        BY <1>2, <4>1 DEF OutboxInv, OneWorkerPerPeer
    <3> QED
      BY <1>5, <2>1, <3>1
  <2>3. \A v \in Workers : pc[v] = "sent" => pc'[v] = "sent" /\ cur'[v] = cur[v]
    BY <1>2, <1>4
  <2>4. \A x \in Queued(outbox) : sent[x] = 0 \/ \E v \in Workers : pc'[v] = "sent" /\ cur'[v] = x
    BY <2>1, <2>3
  <2>5. \A v \in Workers : pc'[v] = "send" => sent[cur'[v]] = 0
    BY <1>1, <1>4, <2>2 DEF QueueInv, FirstLife
  <2> QED
    BY <1>1, <2>4, <2>5 DEF QueueInv, FirstLife
<1>12. Front' /\ QueueOrder'
  BY <1>1, <1>2, <1>4, <1>6, <1>7 DEF QueueInv, Front, QueueOrder
<1>13. Lags(shot.outbox)' /\ Lags(disk.outbox)'
  BY <1>1, <1>2 DEF QueueInv, Lags, Elements, TooOld
<1>14. StoredOrder(shot.outbox)' /\ StoredOrder(disk.outbox)'
  BY <1>1, <1>2 DEF QueueInv, StoredOrder, TooOld
<1>15. Safe'
  BY <1>1, <1>2, <1>8 DEF QueueInv, Safe, Queued, Elements
<1> QED
  BY <1>9, <1>10, <1>11, <1>12, <1>13, <1>14, <1>15 DEF QueueInv

\* kaydet copies what memory holds.
LEMMA QueueCopy == ASSUME OutboxInv, NEW t \in Threads, Copy(t) PROVE QueueInv'
<1>1. QueueInv
  BY DEF OutboxInv
<1>2. /\ UNCHANGED <<clock, open, crashes, outbox, disk, sent, who, cur>>
      /\ open /\ shot' = Memory /\ saver' = t /\ pc[t] = "save" /\ saver = NoThread
  BY DEF Copy, envVars, memVars, workVars
<1>3. /\ \A s \in Threads : pc'[s] = IF s = t THEN "write" ELSE pc[s]
      /\ Workers \subseteq Threads /\ Out \subseteq Threads /\ t # NoThread
  BY OutboxAssumption DEF Copy, Goto, OutboxInv, SaveInv, Threads, Msgs
<1>4. shot'.outbox = outbox
  BY <1>2 DEF Memory
<1>5. Tidy(outbox)' /\ Tidy(shot.outbox)' /\ Tidy(disk.outbox)'
  BY <1>1, <1>2, <1>4 DEF QueueInv, Tidy
<1>6. \A v \in Workers : pc'[v] \in {"send", "sent"} => pc[v] = pc'[v]
  BY <1>3
<1>7. \A v \in Workers : pc[v] = "sent" => pc'[v] = "sent"
  BY <1>2, <1>3
<1>8. \A x \in Out : pc'[x] = "write" \/ pc'[x] = pc[x]
  BY <1>3
<1>9. Unborn' /\ Sender'
  BY <1>1, <1>2, <1>4, <1>6, <1>8 DEF QueueInv, Unborn, Sender, Queued, Elements
<1>10. FirstLife'
  BY <1>1, <1>2, <1>6, <1>7 DEF QueueInv, FirstLife, Queued, Elements
<1>11. Front' /\ QueueOrder'
  BY <1>1, <1>2, <1>6 DEF QueueInv, Front, QueueOrder
<1>12. Lags(disk.outbox)'
  BY <1>1, <1>2 DEF QueueInv, Lags, Elements, TooOld
<1>13. Lags(shot.outbox)'
  <2>1. \A k, l \in DOMAIN outbox : outbox[k] = outbox[l] => k = l
    BY <1>1, ThreeQueues DEF QueueInv, Tidy
  <2>2. \A k \in DOMAIN outbox : outbox[k] \in Elements(outbox)
    BY DEF Elements
  <2> QED
    BY <1>2, <1>4, <2>1, <2>2 DEF Lags
<1>14. StoredOrder(shot.outbox)' /\ StoredOrder(disk.outbox)'
  BY <1>1, <1>2, <1>4 DEF QueueInv, QueueOrder, StoredOrder, TooOld
<1>15. Safe'
  <2> SUFFICES ASSUME NEW x \in Out, sent[x] = 0, clock <= Lifetime
               PROVE  /\ pc'[x] \in {"recordPending", "save", "write", "done"} => x \in Queued(outbox)
                      /\ pc'[x] = "done" => x \in Queued(disk.outbox)
    BY <1>2, <1>4 DEF Safe, Queued, Elements
  <2>1. pc'[x] \in {"recordPending", "save", "write", "done"}
          => pc[x] \in {"recordPending", "save", "write", "done"}
    BY <1>2, <1>3
  <2>2. pc'[x] = "done" => pc[x] = "done"
    BY <1>8
  <2> QED
    BY <1>1, <1>2, <2>1, <2>2 DEF QueueInv, Safe
<1> QED
  BY <1>5, <1>9, <1>10, <1>11, <1>12, <1>13, <1>14, <1>15 DEF QueueInv

\* kaydet writes its copy.
LEMMA QueueWrite == ASSUME OutboxInv, NEW t \in Threads, Write(t) PROVE QueueInv'
<1>1. QueueInv
  BY DEF OutboxInv
<1>2. /\ UNCHANGED <<clock, open, crashes, outbox, sent, who, cur>>
      /\ disk' = shot /\ shot' = Blank /\ saver' = NoThread /\ pc[t] = "write"
  BY DEF Write, envVars, memVars, workVars
<1>3. saver = t /\ t # NoThread /\ \A s \in Threads : pc[s] = "write" => s = t
  BY <1>2, OutboxAssumption DEF OutboxInv, SaveInv, OneWriter
<1>4. /\ \A s \in Threads : pc'[s] = IF s = t THEN After(t) ELSE pc[s]
      /\ Workers \subseteq Threads /\ Out \subseteq Threads
      /\ t \in Out => After(t) = "done"
      /\ After(t) \in {"pick", "done", "idle"}
  BY AfterPlace, OutboxAssumption DEF Write, Goto, After, OutboxInv, SaveInv, Threads, Msgs
<1>5. shot'.outbox = <<>>
  BY <1>2 DEF Blank
<1>6. Tidy(outbox)' /\ Tidy(shot.outbox)' /\ Tidy(disk.outbox)'
  BY <1>1, <1>2, <1>5 DEF QueueInv, Tidy
<1>7. \A v \in Workers : pc'[v] \in {"send", "sent"} => pc[v] = pc'[v]
  BY <1>4
<1>8. \A v \in Workers : pc[v] = "sent" => pc'[v] = "sent"
  BY <1>2, <1>4
<1>9. \A x \in Out : IF x = t THEN pc[x] = "write" /\ pc'[x] = "done"
                     ELSE pc'[x] = pc[x] /\ pc'[x] # "write"
  BY <1>2, <1>3, <1>4
<1>10. Unborn' /\ Sender'
  BY <1>1, <1>2, <1>5, <1>7, <1>9 DEF QueueInv, Unborn, Sender, Queued, Elements
<1>11. FirstLife'
  BY <1>1, <1>2, <1>7, <1>8 DEF QueueInv, FirstLife, Queued, Elements
<1>12. Front' /\ QueueOrder'
  BY <1>1, <1>2, <1>7 DEF QueueInv, Front, QueueOrder
<1>13. Lags(disk.outbox)' /\ Lags(shot.outbox)'
  BY <1>1, <1>2, <1>5 DEF QueueInv, Lags, Elements, TooOld
<1>14. StoredOrder(shot.outbox)' /\ StoredOrder(disk.outbox)'
  BY <1>1, <1>2, <1>5 DEF QueueInv, StoredOrder, TooOld
<1>15. Safe'
  <2> SUFFICES ASSUME NEW x \in Out, sent[x] = 0, clock <= Lifetime
               PROVE  /\ open /\ pc'[x] \in {"recordPending", "save", "write", "done"} => x \in Queued(outbox)
                      /\ pc'[x] # "write"
                      /\ pc'[x] = "done" => x \in Queued(shot.outbox)
    BY <1>2 DEF Safe, Queued, Elements
  <2> QED
    BY <1>1, <1>2, <1>3, <1>9 DEF QueueInv, Safe
<1> QED
  BY <1>6, <1>10, <1>11, <1>12, <1>13, <1>14, <1>15 DEF QueueInv

\* KaliciAc: nothing was queued before it, and what is too old stays out.
LEMMA QueueOpen == ASSUME OutboxInv, Open PROVE QueueInv'
<1> DEFINE q == disk.outbox
           ms == Expired(q)
<1>1. QueueInv
  BY DEF OutboxInv
<1>2. /\ UNCHANGED <<clock, crashes, shot, disk, saver, sent, who, cur>>
      /\ open' /\ ~open /\ pc' = [pc EXCEPT ![Opener] = "save"]
  BY DEF Open, Goto, workVars, saveVars
<1>3. /\ outbox = <<>> /\ saver = NoThread /\ shot = Blank /\ \A w \in Workers : pc[w] = "idle"
      /\ \A m \in Out : pc[m] \in {"idle", "done", "refused", "lost"}
      /\ crashes = 0 => disk = Blank
  BY <1>2 DEF OutboxInv, Closed
<1>4. /\ \A x \in Out : pc'[x] = pc[x]
      /\ \A w \in Workers : pc'[w] = "idle"
  <2>1. Opener \notin Out /\ Opener \notin Workers /\ Out \subseteq Threads /\ Workers \subseteq Threads
    BY OutboxAssumption DEF Threads, Msgs
  <2> QED
    BY <1>2, <1>3, <2>1 DEF OutboxInv, SaveInv
<1>5. /\ Thins(outbox', q) /\ outbox' \in Queues /\ q \in Queues
      /\ Elements(outbox') = {d \in Elements(q) : d.id \notin ms}
  <2>1. q \in Queues
    BY StoresTyped DEF OutboxInv
  <2>2. q \o outbox = q
    BY <1>3, <2>1 DEF Queues
  <2>3. outbox' = Without(q, ms)
    BY <2>2 DEF Open, Expire
  <2> QED
    BY <2>1, <2>3, QueueWithout
<1>6. shot.outbox = <<>>
  BY <1>3 DEF Blank
<1>7. \A d \in Elements(q) : TooOld(d) => d.id \in ms
  BY DEF Expired, TooOld
<1>8. \A d \in Elements(q) : d.id \in ms => TooOld(d)
  <2> SUFFICES ASSUME NEW d \in Elements(q), d.id \in ms PROVE TooOld(d)
    OBVIOUS
  <2>1. PICK e \in Elements(q) : e.id = d.id /\ TooOld(e)
    BY DEF Expired, TooOld
  <2>2. PICK k \in DOMAIN q, l \in DOMAIN q : q[k] = d /\ q[l] = e
    BY DEF Elements
  <2>3. k = l
    BY <1>1, <2>1, <2>2, ThreeQueues DEF QueueInv, Tidy
  <2> QED
    BY <2>1, <2>2, <2>3
<1> HIDE DEF ms
<1>9. PICK f \in [DOMAIN outbox' -> DOMAIN q] :
          /\ \A k \in DOMAIN outbox' : outbox'[k] = q[f[k]]
          /\ \A k, l \in DOMAIN outbox' : k < l => f[k] < f[l]
  BY <1>5 DEF Thins
<1>10. Queued(outbox') \subseteq Queued(q)
  BY <1>5 DEF Queued
<1>11. Tidy(outbox)' /\ Tidy(shot.outbox)' /\ Tidy(disk.outbox)'
  <2>1. Tidy(outbox')
    BY <1>1, <1>5, ThinnedTidy DEF QueueInv
  <2> QED
    BY <1>1, <1>2, <2>1 DEF QueueInv, Tidy
<1>12. Unborn' /\ Sender'
  BY <1>1, <1>2, <1>4, <1>10 DEF QueueInv, Unborn, Sender, Queued, Elements
<1>13. FirstLife'
  <2>1. crashes = 0 => Queued(outbox') = {}
    BY <1>3, <1>10 DEF Blank, Queued, Elements
  <2> QED
    BY <1>1, <1>2, <1>4, <2>1 DEF QueueInv, FirstLife
<1>14. Front' /\ QueueOrder'
  <2>1. Front'
    BY <1>4 DEF Front
  <2>2. \A k \in DOMAIN outbox' : outbox'[k] = q[f[k]] /\ f[k] \in DOMAIN q /\ ~TooOld(q[f[k]])
    <3>1. \A k \in DOMAIN outbox' : outbox'[k] \in Elements(outbox')
      BY DEF Elements
    <3> QED
      BY <1>5, <1>7, <1>9, <3>1
  <2>3. QueueOrder'
    BY <1>1, <1>2, <1>9, <2>2 DEF QueueInv, QueueOrder, StoredOrder
  <2> QED
    BY <2>1, <2>3
<1>15. Lags(shot.outbox)'
  BY <1>2, <1>6 DEF Lags
<1>16. Lags(disk.outbox)'
  <2>1. \A k \in DOMAIN q : q[k] \in Elements(q)
    BY DEF Elements
  <2>2. \A k \in DOMAIN q : q[k] \in Elements(outbox') \/ TooOld(q[k])
    BY <1>5, <1>8, <2>1
  <2>3. DOMAIN q \subseteq Nat /\ DOMAIN outbox' \subseteq Nat
    BY <1>5, QueueIs
  <2>4. \A k, l \in DOMAIN q : q[k] = q[l] => k = l
    BY <1>1, <2>3 DEF QueueInv, Tidy
  <2>5. \A k, l \in DOMAIN q, i, j \in DOMAIN outbox' :
            k < l /\ q[k] = outbox'[i] /\ q[l] = outbox'[j] => i < j
    <3> SUFFICES ASSUME NEW k \in DOMAIN q, NEW l \in DOMAIN q, NEW i \in DOMAIN outbox',
                        NEW j \in DOMAIN outbox', k < l, q[k] = outbox'[i], q[l] = outbox'[j]
                 PROVE  i < j
      OBVIOUS
    <3>1. k = f[i] /\ l = f[j]
      BY <1>9, <2>4
    <3>2. i < j \/ j < i \/ i = j
      BY <2>3
    <3> QED
      BY <1>9, <2>3, <3>1, <3>2
  <2> QED
    BY <1>2, <2>2, <2>5 DEF Lags, TooOld
<1>17. StoredOrder(shot.outbox)' /\ StoredOrder(disk.outbox)'
  BY <1>1, <1>2 DEF QueueInv, StoredOrder, TooOld
<1>18. Safe'
  <2>1. ASSUME NEW x \in Out, sent[x] = 0, clock <= Lifetime, x \in Queued(q)
        PROVE  x \in Queued(outbox')
    <3>1. PICK d \in Elements(q) : d.id = x
      BY <2>1 DEF Queued
    <3>2. d.at \in Nat /\ clock \in Nat
      BY ThreeQueues DEF Elements
    <3>3. ~TooOld(d)
      BY <2>1, <3>2, OutboxAssumption DEF TooOld
    <3> QED
      BY <1>5, <1>8, <3>1, <3>3 DEF Queued
  <2> QED
    BY <1>1, <1>2, <1>3, <1>4, <2>1 DEF QueueInv, Safe, Queued, Elements
<1> QED
  BY <1>11, <1>12, <1>13, <1>14, <1>15, <1>16, <1>17, <1>18 DEF QueueInv

LEMMA QueueCrash == ASSUME OutboxInv, Crash PROVE QueueInv'
<1>1. QueueInv
  BY DEF OutboxInv
<1>2. /\ UNCHANGED <<clock, disk, sent>> /\ ~open' /\ outbox' = <<>> /\ shot' = Blank
      /\ saver' = NoThread /\ crashes' = crashes + 1
      /\ cur' = [w \in Workers |-> NoMsg]
  BY DEF Crash
<1>3. \A t \in Threads : pc'[t] = IF t \in Msgs /\ pc[t] # "idle"
                                  THEN IF pc[t] \in {"done", "refused"} THEN pc[t] ELSE "lost"
                                  ELSE "idle"
  BY DEF Crash
<1>4. /\ \A x \in Out : IF pc[x] \in {"idle", "done", "refused"} THEN pc'[x] = pc[x] ELSE pc'[x] = "lost"
      /\ \A w \in Workers : pc'[w] = "idle"
  BY <1>3, OutboxAssumption DEF Threads, Msgs
<1>5. shot'.outbox = <<>> /\ Elements(<<>>) = {} /\ Queued(<<>>) = {}
  BY <1>2 DEF Blank, Elements, Queued
<1>6. Tidy(outbox)' /\ Tidy(shot.outbox)' /\ Tidy(disk.outbox)'
  BY <1>1, <1>2, <1>5 DEF QueueInv, Tidy
<1>7. Unborn' /\ Sender'
  <2>1. \A x \in Out : x # NoMsg
    BY OutboxAssumption DEF Msgs
  <2>2. \A x \in Out : pc'[x] \in {"idle", "enqueue"} => pc[x] \in {"idle", "enqueue"}
    BY <1>4
  <2>3. Unborn'
    BY <1>1, <1>2, <1>5, <2>1, <2>2 DEF QueueInv, Unborn
  <2>4. \A x \in Out : pc'[x] # "recordSent"
    BY <1>4
  <2> QED
    BY <1>4, <2>3, <2>4 DEF Sender
<1>8. FirstLife'
  <2>1. crashes \in Nat
    BY OutboxAssumption DEF OutboxInv, TypeOK
  <2> QED
    BY <1>2, <2>1 DEF FirstLife
<1>9. Front' /\ QueueOrder'
  BY <1>2, <1>4 DEF Front, QueueOrder
<1>10. Lags(shot.outbox)' /\ Lags(disk.outbox)'
  BY <1>2, <1>5 DEF Lags
<1>11. StoredOrder(shot.outbox)' /\ StoredOrder(disk.outbox)'
  BY <1>1, <1>2, <1>5 DEF QueueInv, StoredOrder, TooOld
<1>12. Safe'
  BY <1>1, <1>2, <1>4 DEF QueueInv, Safe, Queued, Elements
<1> QED
  BY <1>6, <1>7, <1>8, <1>9, <1>10, <1>11, <1>12 DEF QueueInv

\* A goroutine that is neither a worker nor a call of SendDMQueued moves.
LEMMA QueueAside ==
    ASSUME OutboxInv, NEW t \in Threads, t \notin Out, t \notin Workers, NEW place,
           Goto(t, place),
           UNCHANGED <<clock, open, crashes, outbox, shot, disk, sent, saver, who, cur>>
    PROVE  QueueInv'
<1>1. /\ \A s \in Threads : s # t => pc'[s] = pc[s]
      /\ Workers \subseteq Threads /\ Out \subseteq Threads
  BY DEF Goto, OutboxInv, SaveInv, Threads, Msgs
<1>2. \A s \in Out \cup Workers : pc'[s] = pc[s]
  BY <1>1
<1>3. \A m \in Out : pc[m] = "recordSent" => sent[m] > 0
  BY DEF OutboxInv, QueueInv, Sender
<1> QED
  BY <1>2, <1>3, QueuesStill

\* A worker that neither picks nor delivers moves.
LEMMA QueueWaits ==
    ASSUME OutboxInv, NEW w \in Workers, pc[w] # "sent",
           NEW place \in {"expire", "pick", "clear", "idle"},
           \A s \in Threads : pc'[s] = IF s = w THEN place ELSE pc[s],
           \A v \in Workers : v # w => who'[v] = who[v] /\ cur'[v] = cur[v],
           cur'[w] \in {cur[w], NoMsg},
           UNCHANGED <<clock, open, crashes, outbox, shot, disk, sent, saver>>
    PROVE  QueueInv'
<1>1. Workers \subseteq Threads /\ Out \subseteq Threads /\ \A x \in Out : x # w
  BY OutboxAssumption DEF Threads, Msgs
<1>2. \A m \in Out : pc'[m] = pc[m]
  BY <1>1
<1>3. \A v \in Workers : IF v = w THEN pc'[v] \notin {"send", "sent"} ELSE pc'[v] = pc[v]
  BY <1>1
<1>4. \A m \in Out : pc[m] = "recordSent" => sent[m] > 0
  BY DEF OutboxInv, QueueInv, Sender
<1> QED
  BY <1>2, <1>3, <1>4, QueuesStill

LEMMA QueueCalls ==
    ASSUME OutboxInv, NEW m \in Out, Attempt(m) \/ RecordOut(m)
    PROVE  QueueInv'
<1>1. m \in Threads /\ Workers \subseteq Threads /\ Out \subseteq Threads /\ m \notin Workers
  BY OutboxAssumption DEF Threads, Msgs
<1>2. \A x \in Out : pc[x] = "recordSent" => sent[x] > 0
  BY DEF OutboxInv, QueueInv, Sender
<1>3. CASE Attempt(m)
  <2>1. CASE Handed(m) /\ Goto(m, "recordSent")
    BY <1>3, <2>1, QueueAttempt
  <2>2. CASE Goto(m, "enqueue") /\ UNCHANGED sent
    <3>1. /\ UNCHANGED <<clock, open, crashes, outbox, shot, disk, saver, who, cur>> /\ pc[m] = "idle"
          /\ \A s \in Threads : pc'[s] = IF s = m THEN "enqueue" ELSE pc[s]
      BY <1>3, <2>2 DEF Attempt, Goto, envVars, memVars, workVars, saveVars, OutboxInv, SaveInv
    <3>2. \A v \in Workers : pc'[v] = pc[v]
      BY <1>1, <3>1
    <3>3. \A x \in Out : IF x = m THEN pc'[x] = "enqueue" /\ pc[x] = "idle" ELSE pc'[x] = pc[x]
      BY <1>1, <3>1
    <3> QED
      BY <1>2, <2>2, <3>1, <3>2, <3>3, QueuesStill
  <2> QED
    BY <1>3, <2>1, <2>2 DEF Attempt
<1>4. CASE RecordOut(m)
  <2>1. /\ UNCHANGED <<clock, open, crashes, outbox, shot, disk, saver, who, cur, sent>>
        /\ pc[m] \in {"recordSent", "recordPending"}
        /\ \A s \in Threads : pc'[s] = IF s = m THEN "save" ELSE pc[s]
    BY <1>4 DEF RecordOut, Record, Goto, envVars, workVars, saveVars, OutboxInv, SaveInv
  <2>2. \A v \in Workers : pc'[v] = pc[v]
    BY <1>1, <2>1
  <2>3. \A x \in Out : IF x = m THEN pc'[x] = "save" /\ pc[x] \in {"recordSent", "recordPending"}
                       ELSE pc'[x] = pc[x]
    BY <1>1, <2>1
  <2>4. \A x \in Out : sent[x] = 0 => ~(sent[x] > 0)
    BY ThreeQueues
  <2> QED
    BY <1>2, <2>1, <2>2, <2>3, <2>4, QueuesStill
<1> QED
  BY <1>3, <1>4

LEMMA QueueWorker == ASSUME OutboxInv, NEW w \in Workers, Worker(w) PROVE QueueInv'
<1>1. /\ w \in Threads /\ pc \in [Threads -> Places]
      /\ who \in [Workers -> Peers \cup {NoPeer}] /\ cur \in [Workers -> Out \cup {NoMsg}]
  BY DEF Threads, OutboxInv, TypeOK
<1>2. open
  BY DEF Worker, ExpireOld, Pick, SendOk, SendFail, Remove, Clear, OutboxInv, Closed
<1>3. CASE ExpireOld(w)
  <2>1. CASE Expired(outbox) = {}
    <3>1. /\ pc[w] = "expire" /\ pc' = [pc EXCEPT ![w] = "pick"]
          /\ UNCHANGED <<clock, open, crashes, outbox, shot, disk, saver, who, cur, sent>>
      BY <1>3, <2>1 DEF ExpireOld, Goto, envVars, workVars, saveVars
    <3> QED
      BY <1>1, <3>1, QueueWaits
  <2>2. CASE Expired(outbox) # {}
    <3>1. /\ pc[w] = "expire" /\ Goto(w, "save") /\ outbox' = Without(outbox, Expired(outbox))
          /\ UNCHANGED <<clock, open, crashes, shot, disk, saver, who, cur, sent>>
      BY <1>3, <2>2 DEF ExpireOld, Expire, envVars, workVars, saveVars
    <3>2. ASSUME NEW d \in Elements(outbox), d.id \in Expired(outbox) PROVE TooOld(d)
      <4>1. PICK e \in Elements(outbox) : e.id = d.id /\ TooOld(e)
        BY <3>2 DEF Expired, TooOld
      <4>2. PICK k \in DOMAIN outbox, l \in DOMAIN outbox : outbox[k] = d /\ outbox[l] = e
        BY DEF Elements
      <4>3. k = l
        BY <4>1, <4>2, ThreeQueues DEF OutboxInv, QueueInv, Tidy
      <4> QED
        BY <4>1, <4>2, <4>3
    <3> QED
      BY <3>1, <3>2, QueueThinned
  <2> QED
    BY <2>1, <2>2
<1>4. CASE Pick(w)
  <2>1. CASE ForPeer(who[w]) = <<>>
    <3>1. /\ pc[w] = "pick" /\ pc' = [pc EXCEPT ![w] = "clear"]
          /\ UNCHANGED <<clock, open, crashes, outbox, shot, disk, saver, who, cur, sent>>
      BY <1>4, <2>1 DEF Pick, Goto, envVars, memVars, saveVars
    <3> QED
      BY <1>1, <3>1, QueueWaits
  <2> QED
    BY <1>4, <2>1, QueuePick
<1>5. CASE SendFail(w)
  <2>1. /\ pc[w] = "send" /\ pc' = [pc EXCEPT ![w] = "clear"]
        /\ UNCHANGED <<clock, open, crashes, outbox, shot, disk, saver, who, cur, sent>>
    BY <1>5 DEF SendFail, Goto, envVars, memVars, workVars, saveVars
  <2> QED
    BY <1>1, <2>1, QueueWaits
<1>6. CASE Remove(w)
  <2>1. /\ pc[w] = "sent" /\ Goto(w, "save") /\ outbox' = Without(outbox, {cur[w]})
        /\ UNCHANGED <<clock, open, crashes, shot, disk, saver, who, cur, sent>>
    BY <1>6 DEF Remove, envVars, workVars, saveVars
  <2>2. sent[cur[w]] > 0
    BY <2>1 DEF OutboxInv, QueueInv, Sender
  <2> QED
    BY <2>1, <2>2, QueueThinned
<1>7. CASE Clear(w)
  <2>1. /\ pc[w] = "clear" /\ pc' = [pc EXCEPT ![w] = "idle"]
        /\ who' = [who EXCEPT ![w] = NoPeer] /\ cur' = [cur EXCEPT ![w] = NoMsg]
        /\ UNCHANGED <<clock, open, crashes, outbox, shot, disk, saver, sent>>
    BY <1>7 DEF Clear, Goto, envVars, memVars, saveVars
  <2>2. \A v \in Workers : v # w => who'[v] = who[v] /\ cur'[v] = cur[v]
    BY <1>1, <2>1
  <2>3. cur'[w] = NoMsg /\ \A s \in Threads : pc'[s] = IF s = w THEN "idle" ELSE pc[s]
    BY <1>1, <2>1
  <2> QED
    BY <2>1, <2>2, <2>3, QueueWaits
<1> QED
  BY <1>3, <1>4, <1>5, <1>6, <1>7, QueueSendOk DEF Worker

LEMMA QueueStep == ASSUME OutboxInv, [Next]_vars PROVE QueueInv'
<1>1. ASSUME NEW p \in Peers, Connected(p) PROVE QueueInv'
  <2>1. UNCHANGED <<clock, open, crashes, outbox, shot, disk, saver, sent>>
    BY <1>1 DEF Connected, memVars, saveVars
  <2>2. CASE UNCHANGED <<workVars, pc>>
    <3>1. UNCHANGED <<who, cur, pc>> /\ \A m \in Out : pc[m] = "recordSent" => sent[m] > 0
      BY <2>2 DEF workVars, OutboxInv, QueueInv, Sender
    <3> QED
      BY <2>1, <3>1, QueuesStill
  <2>3. CASE \E w \in Workers : pc[w] = "idle" /\ StartWorker(w, p)
    <3>1. PICK w \in Workers : pc[w] = "idle" /\ StartWorker(w, p)
      BY <2>3
    <3>2. /\ \A s \in Threads : pc'[s] = IF s = w THEN "expire" ELSE pc[s]
          /\ \A v \in Workers : v # w => who'[v] = who[v]
          /\ cur' = cur
      BY <3>1 DEF StartWorker, Goto, OutboxInv, SaveInv, TypeOK
    <3> QED
      BY <2>1, <3>1, <3>2, QueueWaits
  <2> QED
    BY <1>1, <2>2, <2>3 DEF Connected
<1>2. ASSUME NEW p \in Peers, Disconnect(p) PROVE QueueInv'
  <2>1. /\ UNCHANGED <<clock, open, crashes, outbox, shot, disk, saver, sent, who, cur, pc>>
        /\ \A m \in Out : pc[m] = "recordSent" => sent[m] > 0
    BY <1>2 DEF Disconnect, memVars, saveVars, workVars, OutboxInv, QueueInv, Sender
  <2> QED
    BY <2>1, QueuesStill
<1>3. ASSUME NEW m \in Ins, Receive(m) PROVE QueueInv'
  <2>1. m \in Threads /\ m \notin Out /\ m \notin Workers
    BY OutboxAssumption DEF Threads, Msgs
  <2>2. Goto(m, "save") /\ UNCHANGED <<clock, open, crashes, outbox, shot, disk, sent, saver, who, cur>>
    BY <1>3 DEF Receive, Record, envVars, workVars, saveVars
  <2> QED
    BY <2>1, <2>2, QueueAside
<1>4. ASSUME NEW p \in Readable, MarkRead(p) PROVE QueueInv'
  <2>1. Reader \in Threads /\ Reader \notin Out /\ Reader \notin Workers
    BY OutboxAssumption DEF Threads, Msgs
  <2>2. Goto(Reader, "save") /\ UNCHANGED <<clock, open, crashes, outbox, shot, disk, sent, saver, who, cur>>
    BY <1>4 DEF MarkRead, envVars, workVars, saveVars
  <2> QED
    BY <2>1, <2>2, QueueAside
<1>5. ASSUME NEW t \in Threads, SkipSave(t) PROVE QueueInv'
  <2>1. t \notin Out /\ t \notin Workers
    BY <1>5 DEF SkipSave, OutboxInv, Closed
  <2>2. Goto(t, After(t)) /\ UNCHANGED <<clock, open, crashes, outbox, shot, disk, sent, saver, who, cur>>
    BY <1>5 DEF SkipSave, envVars, memVars, workVars, saveVars
  <2> QED
    BY <2>1, <2>2, QueueAside
<1>6. CASE UNCHANGED vars
  <2>1. /\ UNCHANGED <<clock, open, crashes, outbox, shot, disk, saver, sent, who, cur, pc>>
        /\ \A m \in Out : pc[m] = "recordSent" => sent[m] > 0
    BY <1>6 DEF vars, envVars, memVars, saveVars, workVars, OutboxInv, QueueInv, Sender
  <2> QED
    BY <2>1, QueuesStill
<1>7. CASE Environment
  BY <1>1, <1>2, <1>7, QueueTick, QueueOpen, QueueCrash DEF Environment
<1>8. ASSUME NEW t \in Threads, Save(t) PROVE QueueInv'
  BY <1>5, <1>8, QueueCopy, QueueWrite DEF Save
<1> QED
  BY <1>3, <1>4, <1>6, <1>7, <1>8, QueueCalls, QueueEnqueue, QueueWorker DEF Next
-----------------------------------------------------------------------------
(* What the history keeps.                                                  *)

\* The history holds m, or as many of its kind as it may.
Held(h, m) ==
    \/ \E r \in Elements(h) : r.id = m
    \/ Cardinality(OfKind(h, m)) >= Limit(m)

LEMMA HeldTrimmed ==
    ASSUME NEW h \in Entries, NEW m \in Msgs, Held(h, m)
    PROVE  Held(Trim(h), m)
<1>1. /\ Cardinality(OfKind(Trim(h), m)) <= Limit(m)
      /\ \/ Cardinality(OfKind(Trim(h), m)) = Limit(m)
         \/ /\ Cardinality(OfKind(Trim(h), m)) = Cardinality(OfKind(h, m))
            /\ \A i \in OfKind(h, m) : h[i] \in Elements(Trim(h))
  BY TrimIs, Zenon
<1>2. Limit(m) \in Nat
  BY OutboxAssumption DEF Limit
<1>3. CASE Cardinality(OfKind(Trim(h), m)) = Limit(m)
  BY <1>2, <1>3 DEF Held
<1>4. CASE /\ Cardinality(OfKind(Trim(h), m)) = Cardinality(OfKind(h, m))
           /\ \A i \in OfKind(h, m) : h[i] \in Elements(Trim(h))
  <2>1. CASE \E r \in Elements(h) : r.id = m
    <3>1. PICK i \in DOMAIN h : h[i].id = m
      BY <2>1 DEF Elements
    <3>2. i \in OfKind(h, m)
      BY <3>1 DEF OfKind, SameKind
    <3> QED
      BY <1>4, <3>1, <3>2 DEF Held
  <2>2. CASE Cardinality(OfKind(h, m)) >= Limit(m)
    BY <1>4, <2>2 DEF Held
  <2> QED
    BY <2>1, <2>2 DEF Held
<1> QED
  BY <1>1, <1>3, <1>4

LEMMA HeldAppended ==
    ASSUME NEW h \in Entries, NEW x \in Msgs, NEW state \in States, NEW m \in Msgs
    PROVE  LET g == Append(h, Entry(x, state)) IN
           /\ g \in Entries
           /\ Held(g, x)
           /\ Held(h, m) => Held(g, m)
<1> DEFINE e == Entry(x, state)
           g == Append(h, e)
           E == [id : Msgs, state : States]
<1>1. e \in E /\ h \in Seq(E) /\ e.id = x
  BY DEF Entries, Entry
<1>2. /\ g \in Seq(E) /\ Len(h) \in Nat /\ DOMAIN g = (DOMAIN h) \cup {Len(h) + 1}
      /\ g[Len(h) + 1] = e /\ \A i \in DOMAIN h : g[i] = h[i]
  <2> HIDE DEF E, e
  <2> QED
    BY <1>1
<1>3. g \in Entries
  BY <1>2 DEF Entries
<1> HIDE DEF g, e
<1>4. \A i \in DOMAIN g : g[i] \in Elements(g)
  BY DEF Elements
<1>5. Held(g, x)
  BY <1>1, <1>2, <1>4 DEF Held
<1>6. ASSUME Held(h, m) PROVE Held(g, m)
  <2>1. CASE \E r \in Elements(h) : r.id = m
    <3>1. PICK i \in DOMAIN h : h[i].id = m
      BY <2>1 DEF Elements
    <3> QED
      BY <1>2, <1>4, <3>1 DEF Held
  <2>2. CASE Cardinality(OfKind(h, m)) >= Limit(m)
    <3>1. OfKind(h, m) \in SUBSET OfKind(g, m)
      BY <1>2 DEF OfKind
    <3>2. IsFiniteSet(OfKind(g, m)) /\ Cardinality(OfKind(g, m)) \in Nat /\ Cardinality(OfKind(h, m)) \in Nat
      BY <1>3, KindsFinite, Zenon
    <3>3. Cardinality(OfKind(h, m)) <= Cardinality(OfKind(g, m))
      BY <3>1, <3>2, FS_Subset
    <3>4. Limit(m) \in Nat
      BY OutboxAssumption DEF Limit
    <3> QED
      BY <2>2, <3>2, <3>3, <3>4 DEF Held
  <2> QED
    BY <1>6, <2>1, <2>2 DEF Held
<1> QED
  BY <1>3, <1>5, <1>6 DEF g, e

LEMMA HeldRelabelled ==
    ASSUME NEW h \in Entries, NEW g \in Entries, DOMAIN g = DOMAIN h,
           \A i \in DOMAIN h : g[i].id = h[i].id,
           NEW m, Held(h, m)
    PROVE  Held(g, m)
  BY Relabelled DEF Held

LEMMA HeldMarked ==
    ASSUME NEW h \in Entries, NEW ms, NEW m, Held(h, m)
    PROVE  Held(Marked(h, ms, "failed"), m)
<1>1. "failed" \in States
  BY DEF States
<1>2. /\ Marked(h, ms, "failed") \in Entries /\ DOMAIN Marked(h, ms, "failed") = DOMAIN h
      /\ \A i \in DOMAIN h : Marked(h, ms, "failed")[i].id = h[i].id
  BY <1>1, MarkedIs, Zenon
<1> QED
  BY <1>2, HeldRelabelled, Zenon

RecordedInv ==
    \A m \in Ins : crashes = 0 /\ pc[m] \in {"save", "write", "done"} => Held(history, m)

LEMMA RecordedIs == ASSUME HistoryOK(history) PROVE Recorded <=> RecordedInv
<1>1. ASSUME NEW m \in Ins
      PROVE  Cardinality(OfKind(history, m)) >= Limit(m) <=> Cardinality(OfKind(history, m)) = Limit(m)
  <2>1. m \in Msgs /\ history \in Entries
    BY DEF Msgs, HistoryOK, Entries
  <2>2. Cardinality(OfKind(history, m)) \in Nat
    BY <2>1, KindsFinite, Zenon
  <2>3. Limit(m) \in Nat /\ Cardinality(OfKind(history, m)) <= Limit(m)
    BY <2>1, OutboxAssumption DEF Limit, HistoryOK
  <2> QED
    BY <2>2, <2>3
<1> QED
  BY <1>1 DEF Recorded, RecordedInv, Held

\* A step that keeps what the history holds, and records no arrival.
LEMMA RecordedStill ==
    ASSUME RecordedInv, crashes' = crashes,
           \A m \in Ins : Held(history, m) => Held(history, m)',
           \A m \in Ins : pc'[m] \in {"save", "write", "done"} => pc[m] \in {"save", "write", "done"}
    PROVE  RecordedInv'
  BY DEF RecordedInv

LEMMA RecordedStep == ASSUME OutboxInv, [Next]_vars PROVE RecordedInv'
<1>1. /\ RecordedInv /\ history \in Entries /\ crashes \in Nat /\ pc \in [Threads -> Places]
      /\ Ins \subseteq Threads /\ Ins \subseteq Msgs /\ Ins \cap Out = {} /\ Ins \cap Workers = {}
      /\ Reader \notin Ins /\ Opener \notin Ins
  <2>1. HistoryOK(history)
    BY StoresTyped DEF OutboxInv
  <2> QED
    BY <2>1, RecordedIs, OutboxAssumption
       DEF HistoryOK, Entries, OutboxInv, SaveInv, TypeOK, Threads, Msgs
<1>2. ASSUME NEW t \in Threads, NEW x \in Msgs, NEW state \in States, Record(t, x, state),
             t \in Ins => t = x
      PROVE  RecordedInv'
  <2>1. /\ history' = Trim(Append(history, Entry(x, state))) /\ crashes' = crashes
        /\ \A s \in Threads : s # t => pc'[s] = pc[s]
    BY <1>1, <1>2 DEF Record, Goto, envVars
  <2>2. \A m \in Msgs : /\ Append(history, Entry(x, state)) \in Entries
                        /\ Held(Append(history, Entry(x, state)), x)
                        /\ Held(history, m) => Held(Append(history, Entry(x, state)), m)
    BY <1>1, <1>2, HeldAppended, Zenon
  <2>3. \A m \in Msgs : m = x \/ Held(history, m) => Held(history', m)
    BY <1>2, <2>1, <2>2, HeldTrimmed, Zenon
  <2>4. ASSUME NEW m \in Ins, crashes = 0, pc'[m] \in {"save", "write", "done"}
        PROVE  Held(history', m)
    <3>1. m \in Msgs /\ m \in Threads
      BY <1>1
    <3>2. m = x \/ Held(history, m)
      BY <1>1, <1>2, <2>1, <2>4, <3>1 DEF RecordedInv
    <3> QED
      BY <2>3, <3>1, <3>2
  <2> QED
    BY <2>1, <2>4 DEF RecordedInv, Held, Elements, OfKind
<1>3. ASSUME NEW m \in Out, Attempt(m) \/ Enqueue(m) \/ RecordOut(m) PROVE RecordedInv'
  <2>1. m \in Threads /\ m \in Msgs /\ m \notin Ins
    BY <1>1 DEF Threads, Msgs
  <2>2. CASE RecordOut(m)
    BY <1>2, <2>1, <2>2 DEF RecordOut, States
  <2>3. CASE Attempt(m) \/ Enqueue(m)
    <3>1. history' = history /\ crashes' = crashes /\ \A s \in Threads : s # m => pc'[s] = pc[s]
      BY <1>1, <2>3 DEF Attempt, Enqueue, Goto, envVars, memVars
    <3> QED
      BY <1>1, <2>1, <3>1 DEF RecordedInv, Held, Elements, OfKind
  <2> QED
    BY <1>3, <2>2, <2>3
<1>4. ASSUME NEW m \in Ins, Receive(m) PROVE RecordedInv'
  BY <1>1, <1>2, <1>4 DEF Receive, States
<1>5. ASSUME NEW w \in Workers, Worker(w) PROVE RecordedInv'
  <2>1. crashes' = crashes /\ \A m \in Ins : pc'[m] = pc[m]
    BY <1>1, <1>5 DEF Worker, ExpireOld, Pick, SendOk, SendFail, Remove, Clear, Goto, envVars
  <2>2. \A m \in Ins : Held(history, m) => Held(history', m)
    <3>1. CASE Remove(w)
      <4>1. history' = Delivered(history, cur[w])
        BY <3>1 DEF Remove, Delivered
      <4>2. /\ history' \in Entries /\ DOMAIN history' = DOMAIN history
            /\ \A i \in DOMAIN history : history'[i].id = history[i].id
        BY <1>1, <4>1, DeliveredIs
      <4> QED
        BY <1>1, <4>2, HeldRelabelled
    <3>2. CASE ExpireOld(w) /\ history' = Marked(history, Expired(outbox), "failed")
      BY <1>1, <3>2, HeldMarked
    <3>3. CASE history' = history
      BY <3>3
    <3> QED
      BY <1>5, <3>1, <3>2, <3>3 DEF Worker, ExpireOld, Expire, Pick, SendOk, SendFail, Clear, memVars
  <2> QED
    BY <1>1, <2>1, <2>2 DEF RecordedInv, Held, Elements, OfKind
<1>6. CASE Open
  <2>1. crashes' = crashes /\ \A m \in Ins : pc'[m] = pc[m]
    BY <1>1, <1>6 DEF Open, Goto
  <2>2. ASSUME crashes = 0 PROVE \A m \in Ins : Held(history, m) => Held(history', m)
    <3>1. disk.history = <<>> /\ disk.outbox \o outbox = disk.outbox \o outbox
      BY <1>6, <2>2 DEF Open, OutboxInv, Closed, Blank
    <3>2. disk.history \o history = history
      BY <1>1, <3>1 DEF Entries
    <3>3. history' = Marked(Trim(history), Expired(disk.outbox \o outbox), "failed")
      BY <1>6, <3>2 DEF Open, Expire
    <3>4. Trim(history) \in Entries
      BY <1>1, TrimmedOK DEF HistoryOK, Entries
    <3>5. \A m \in Ins : Held(history, m) => Held(Trim(history), m)
      BY <1>1, HeldTrimmed
    <3> QED
      BY <3>3, <3>4, <3>5, HeldMarked
  <2> QED
    BY <1>1, <2>1, <2>2 DEF RecordedInv, Held, Elements, OfKind
<1>7. CASE Crash
  <2>1. crashes' # 0
    BY <1>1, <1>7 DEF Crash
  <2> QED
    BY <2>1 DEF RecordedInv
<1>8. ASSUME NEW t \in Threads, Save(t) PROVE RecordedInv'
  <2>1. history' = history /\ crashes' = crashes
    BY <1>8 DEF Save, Copy, SkipSave, Write, envVars, memVars
  <2>2. \A m \in Ins : pc'[m] \in {"save", "write", "done"} => pc[m] \in {"save", "write", "done"}
    BY <1>1, <1>8 DEF Save, Copy, SkipSave, Write, Goto
  <2> QED
    BY <1>1, <2>1, <2>2 DEF RecordedInv, Held, Elements, OfKind
<1>9. CASE \/ Tick \/ UNCHANGED vars \/ \E p \in Peers : Connected(p) \/ Disconnect(p)
           \/ \E p \in Readable : MarkRead(p)
  <2>1. history' = history /\ crashes' = crashes
    BY <1>9 DEF Tick, Connected, Disconnect, MarkRead, vars, envVars, memVars
  <2>2. \A m \in Ins : pc'[m] = pc[m]
    BY <1>1, <1>9 DEF Tick, Connected, StartWorker, Disconnect, MarkRead, Goto, vars
  <2> QED
    BY <1>1, <2>1, <2>2 DEF RecordedInv, Held, Elements, OfKind
<1> QED
  BY <1>3, <1>4, <1>5, <1>6, <1>7, <1>8, <1>9 DEF Next, Environment
-----------------------------------------------------------------------------
(* The results.                                                             *)

LEMMA InitOutbox == Init => OutboxInv
<1> SUFFICES ASSUME Init PROVE OutboxInv
  OBVIOUS
<1>1. SaveInv
  BY InitSave
<1>2. /\ history = <<>> /\ outbox = <<>> /\ shot = Blank /\ disk = Blank /\ saver = NoThread
      /\ Memory = Blank /\ clock = 0 /\ crashes = 0 /\ ~open /\ online = {}
      /\ read = [p \in Peers |-> 0]
      /\ \A t \in Threads : pc[t] = "idle"
      /\ \A w \in Workers : who[w] = NoPeer /\ cur[w] = NoMsg
      /\ \A m \in Out : sent[m] = 0
  BY DEF Init, Memory, Blank
<1>3. /\ Out \subseteq Threads /\ Ins \subseteq Threads /\ Workers \subseteq Threads
      /\ Reader \in Threads /\ Opener \in Threads /\ \A m \in Out : m # NoMsg
      /\ {Lifetime, MaxTime, Crashes} \subseteq Nat
  BY OutboxAssumption DEF Threads, Msgs
<1>4. Elements(<<>>) = {} /\ Queued(<<>>) = {}
  BY DEF Elements, Queued
<1>5. TypeOK
  <2>1. /\ clock \in 0..MaxTime /\ online \subseteq Peers /\ open \in BOOLEAN /\ crashes \in 0..Crashes
    <3>1. MaxTime \in Nat /\ Crashes \in Nat
      BY <1>3
    <3>2. 0 \in 0..MaxTime /\ 0 \in 0..Crashes
      BY <3>1
    <3> QED
      BY <3>2 DEF Init
  <2>2. \A s \in {Memory, shot, disk} :
           s \in Stores /\ \A m \in Msgs : Cardinality(OfKind(s.history, m)) <= Limit(m)
    <3>1. Blank \in Stores /\ \A m \in Msgs : Cardinality(OfKind(Blank.history, m)) <= Limit(m)
      BY BlankTyped, MemoryTyped, Zenon DEF Blank
    <3> QED
      BY <1>2, <3>1
  <2>3. /\ sending \in [Peers -> BOOLEAN] /\ pc \in [Threads -> Places]
        /\ who \in [Workers -> Peers \cup {NoPeer}] /\ cur \in [Workers -> Out \cup {NoMsg}]
        /\ saver \in Threads \cup {NoThread} /\ sent \in [Out -> 0..2]
    BY DEF Init, Places
  <2> QED
    BY <2>1, <2>2, <2>3 DEF TypeOK
<1>6. Roles /\ OneWorkerPerPeer /\ Closed
  BY <1>2, <1>3 DEF Roles, OneWorkerPerPeer, Closed, OutPlaces, InPlaces, WorkPlaces
<1>7. shot.outbox = <<>> /\ disk.outbox = <<>>
  BY <1>2 DEF Blank
<1>8. QueueInv
  <2>1. Tidy(<<>>) /\ Lags(<<>>) /\ StoredOrder(<<>>)
    BY DEF Tidy, Lags, StoredOrder
  <2>2. Unborn /\ Sender /\ FirstLife
    BY <1>2, <1>3, <1>4, <1>7 DEF Unborn, Sender, FirstLife
  <2>3. Front /\ QueueOrder /\ Safe
    BY <1>2, <1>3 DEF Front, QueueOrder, Safe
  <2> QED
    BY <1>2, <1>7, <2>1, <2>2, <2>3 DEF QueueInv
<1>9. Recorded
  BY <1>2, <1>3 DEF Recorded
<1> QED
  BY <1>1, <1>5, <1>6, <1>8, <1>9 DEF OutboxInv

LEMMA OutboxStep == OutboxInv /\ [Next]_vars => OutboxInv'
<1> SUFFICES ASSUME OutboxInv, [Next]_vars PROVE OutboxInv'
  OBVIOUS
<1>1. TypeOK' /\ SaveInv'
  BY TypeStep, StepSaveInv DEF OutboxInv
<1>2. RoleInv' /\ QueueInv'
  BY RoleStep, QueueStep
<1>3. Recorded'
  <2>1. HistoryOK(history')
    BY HistoryStep
  <2>2. RecordedInv'
    BY RecordedStep
  <2>3. (HistoryOK(history) => (Recorded <=> RecordedInv))'
    BY RecordedIs, PTL
  <2> QED
    BY <2>1, <2>2, <2>3 DEF HistoryOK, OfKind
<1> QED
  BY <1>1, <1>2, <1>3 DEF OutboxInv, RoleInv

\* However calls, workers, saves, connections and restarts interleave, the
\* queues in memory, in the copy being written and in the file stay in step.
THEOREM OutboxInvariance == Spec => []OutboxInv
  BY InitOutbox, OutboxStep, PTL DEF Spec

\* SendDMQueued: a message it has returned for is in the file until it was sent
\* or could have expired.
THEOREM AlwaysAckDurable == Spec => []AckDurable
<1>1. OutboxInv => AckDurable
  BY DEF OutboxInv, QueueInv, Safe, AckDurable
<1> QED
  BY <1>1, OutboxInvariance, PTL

\* kuyruguGonder: nothing that waits behind an unsent message to the same peer
\* has been sent.
THEOREM AlwaysInOrder == Spec => []QueueOrder
<1>1. OutboxInv => QueueOrder
  BY DEF OutboxInv, QueueInv
<1> QED
  BY <1>1, OutboxInvariance, PTL

\* gonderiliyor: until the process ends for the first time no message is handed
\* to the network twice.
THEOREM AlwaysSentOnce == Spec => []SentOnce
<1>1. OutboxInv => SentOnce
  BY DEF OutboxInv, QueueInv, FirstLife, SentOnce
<1> QED
  BY <1>1, OutboxInvariance, PTL

\* handleStream and KaliciAc: what arrived is in the history or newer entries of
\* its kind fill it.
THEOREM AlwaysKept == Spec => []ArrivalsKept
<1>1. OutboxInv => ArrivalsKept
  BY DEF OutboxInv, Recorded, ArrivalsKept
<1> QED
  BY <1>1, OutboxInvariance, PTL
=============================================================================
