------------------------------ MODULE DmOutbox ------------------------------
(***************************************************************************)
(* Private messages of one node (internal/dmmgr): the history, the outbox  *)
(* of messages whose recipient could not be reached, the read marks, and   *)
(* the one encrypted file all three are saved to.                          *)
(*                                                                         *)
(* Every call of SendDMQueued and every incoming stream is a goroutine of  *)
(* its own, named by the message it carries; Workers are the goroutines    *)
(* that a connection starts to empty the outbox; Reader marks              *)
(* conversations as read, Opener is KaliciAc at start-up.  A save copies   *)
(* the state under the state lock and writes it with the save lock held.   *)
(***************************************************************************)
EXTENDS Integers, FiniteSets, Sequences, Filters

CONSTANTS
    Peers, NoPeer,
    Out,          \* messages the local user sends with SendDMQueued
    Ins,          \* messages that arrive
    To,           \* recipient of each outgoing, sender of each incoming message
    Machine,      \* messages of the plugins' group protocols
    NoMsg,
    Workers,      \* goroutines of baglandi (bound: how many at once)
    Reader, Opener, NoThread,
    MaxOut,       \* maxGiden, for each kind of message
    HistoryLimit, MachineLimit,   \* historyLimit, makineGecmisLimiti
    Lifetime,     \* gidenOmru
    MaxTime,      \* bound on the clock
    Flaky,        \* peers whose connection may drop (bound on the environment)
    Readable,     \* conversations the user opens (bound on the environment)
    Crashes       \* bound on the number of times the process ends

Msgs == Out \cup Ins
Threads == Msgs \cup Workers \cup {Reader, Opener}

ASSUME OutboxAssumption ==
    /\ To \in [Msgs -> Peers] /\ NoPeer \notin Peers
    /\ Machine \subseteq Msgs /\ NoMsg \notin Msgs /\ Out \cap Ins = {}
    /\ Msgs \cap Workers = {} /\ {Reader, Opener} \cap (Msgs \cup Workers) = {}
    /\ Reader # Opener /\ NoThread \notin Threads
    /\ {MaxOut, HistoryLimit, MachineLimit} \subseteq Nat \ {0}
    /\ {Lifetime, MaxTime, Crashes} \subseteq Nat

VARIABLES
    clock, online,
    open,         \* KaliciAc has bound the broker to the file
    history,      \* oldest first: [id, state]
    outbox,       \* giden: [id, at]
    read,         \* okundu
    sending,      \* gonderiliyor
    disk,         \* the file
    pc,           \* where each goroutine is
    who, cur,     \* a worker's peer and the message it is sending
    saver, shot,  \* holder of kayitMu and the state it is about to write
    sent,         \* how often a message has been handed to the network (history)
    crashes

memVars == <<history, outbox, read>>
workVars == <<sending, who, cur>>
saveVars == <<saver, shot, disk>>
envVars == <<clock, online, open, crashes>>
vars == <<envVars, memVars, workVars, saveVars, pc, sent>>

-----------------------------------------------------------------------------
(* The history and the outbox. *)

Memory == [history |-> history, outbox |-> outbox, read |-> read]
Blank == [history |-> <<>>, outbox |-> <<>>, read |-> [p \in Peers |-> 0]]

Elements(s) == {s[i] : i \in DOMAIN s}
Queued(q) == {d.id : d \in Elements(q)}

SameKind(m, n) == m \in Machine <=> n \in Machine
Limit(m) == IF m \in Machine THEN MachineLimit ELSE HistoryLimit

\* Later entries of the kind of the i-th.
Newer(h, i) == {j \in DOMAIN h : j > i /\ SameKind(h[j].id, h[i].id)}

\* sinirla: the newest entries of each kind.
Trim(h) == AtPositions(h, {i \in DOMAIN h : Cardinality(Newer(h, i)) < Limit(h[i].id)})

Entry(m, state) == [id |-> m, state |-> state]

\* kayitGuncelleLocked: nothing happens when the entry is not there.
Marked(h, ms, state) ==
    [i \in DOMAIN h |-> IF h[i].id \in ms THEN Entry(h[i].id, state) ELSE h[i]]

Expired(q) == {d.id : d \in {e \in Elements(q) : clock - e.at > Lifetime}}

Without(q, ms) == AtPositions(q, {i \in DOMAIN q : q[i].id \notin ms})

ForPeer(p) == AtPositions(outbox, {i \in DOMAIN outbox : To[outbox[i].id] = p})

\* suresiDolanlariAyikla on history h and outbox q.
Expire(h, q) ==
    /\ history' = Marked(h, Expired(q), "failed")
    /\ outbox' = Without(q, Expired(q))

Goto(t, place) == pc' = [pc EXCEPT ![t] = place]

-----------------------------------------------------------------------------
Init ==
    /\ clock = 0 /\ online = {} /\ open = FALSE /\ crashes = 0
    /\ history = <<>> /\ outbox = <<>> /\ read = [p \in Peers |-> 0]
    /\ sending = [p \in Peers |-> FALSE]
    /\ who = [w \in Workers |-> NoPeer]
    /\ cur = [w \in Workers |-> NoMsg]
    /\ saver = NoThread /\ shot = Blank /\ disk = Blank
    /\ pc = [t \in Threads |-> "idle"]
    /\ sent = [m \in Out |-> 0]

-----------------------------------------------------------------------------
(* Connections and time. *)

Tick ==
    /\ clock < MaxTime
    /\ clock' = clock + 1
    /\ UNCHANGED <<online, open, crashes, memVars, workVars, saveVars, pc, sent>>

\* Mutant of StartWorker: the peer is not marked.
StartWorkerUnmarked(w, p) ==
    /\ Goto(w, "expire")
    /\ who' = [who EXCEPT ![w] = p]
    /\ UNCHANGED <<sending, cur>>

StartWorker(w, p) ==
    /\ Goto(w, "expire")
    /\ who' = [who EXCEPT ![w] = p]
    /\ sending' = [sending EXCEPT ![p] = TRUE]
    /\ UNCHANGED cur

\* ConnectedF calls baglandi, which starts a goroutine if messages wait for p
\* and none is being sent to it; otherwise the event is forgotten.
Connected(p) ==
    /\ p \notin online
    /\ online' = online \cup {p}
    /\ IF sending[p] \/ ForPeer(p) = <<>>
       THEN UNCHANGED <<workVars, pc>>
       ELSE \E w \in Workers : pc[w] = "idle" /\ StartWorker(w, p)
    /\ UNCHANGED <<clock, open, crashes, memVars, saveVars, sent>>

Disconnect(p) ==
    /\ p \in online \cap Flaky
    /\ online' = online \ {p}
    /\ UNCHANGED <<clock, open, crashes, memVars, workVars, saveVars, pc, sent>>

-----------------------------------------------------------------------------
(* SendDMQueued, for message m. *)

Handed(m) == sent' = [sent EXCEPT ![m] = IF @ < 2 THEN @ + 1 ELSE @]

\* SendDM: the packet reaches the recipient's stream, or fails within
\* ilkDenemeSuresi.
Attempt(m) ==
    /\ open /\ pc[m] = "idle"
    /\ \/ /\ To[m] \in online
          /\ Handed(m)
          /\ Goto(m, "recordSent")
       \/ /\ To[m] \in online => To[m] \in Flaky
          /\ Goto(m, "enqueue")
          /\ UNCHANGED sent
    /\ UNCHANGED <<envVars, memVars, workVars, saveVars>>

\* Put it into the outbox, unless that is full for its kind.
Enqueue(m) ==
    /\ pc[m] = "enqueue"
    /\ IF Cardinality({n \in Queued(outbox) : SameKind(n, m)}) < MaxOut
       THEN /\ outbox' = Append(outbox, [id |-> m, at |-> clock])
            /\ Goto(m, "recordPending")
       ELSE Goto(m, "refused") /\ UNCHANGED outbox
    /\ UNCHANGED <<envVars, history, read, workVars, saveVars, sent>>

\* Mutant of Record: record returns before it saves.
RecordUnsaved(t, m, state) ==
    /\ history' = Trim(Append(history, Entry(m, state)))
    /\ Goto(t, "done")
    /\ UNCHANGED <<envVars, outbox, read, workVars, saveVars, sent>>

\* record: append to the history, then save.
Record(t, m, state) ==
    /\ history' = Trim(Append(history, Entry(m, state)))
    /\ Goto(t, "save")
    /\ UNCHANGED <<envVars, outbox, read, workVars, saveVars, sent>>

RecordOut(m) ==
    \/ pc[m] = "recordSent" /\ Record(m, m, "sent")
    \/ pc[m] = "recordPending" /\ Record(m, m, "pending")

\* handleStream: an incoming message is recorded even before KaliciAc.
Receive(m) ==
    /\ pc[m] = "idle" /\ To[m] \in online
    /\ Record(m, m, "in")

\* MarkRead: only forward.  (0 is "never", clock + 1 is now.)
MarkRead(p) ==
    /\ open /\ pc[Reader] = "idle"
    /\ clock + 1 > read[p]
    /\ read' = [read EXCEPT ![p] = clock + 1]
    /\ Goto(Reader, "save")
    /\ UNCHANGED <<envVars, history, outbox, workVars, saveVars, sent>>

-----------------------------------------------------------------------------
(* kuyruguGonder: a worker empties the outbox of one peer. *)

ExpireOld(w) ==
    /\ pc[w] = "expire"
    /\ IF Expired(outbox) = {}
       THEN Goto(w, "pick") /\ UNCHANGED <<history, outbox>>
       ELSE Goto(w, "save") /\ Expire(history, outbox)
    /\ UNCHANGED <<envVars, read, workVars, saveVars, sent>>

\* Mutant of Pick: the newest first.
PickNewest(w) ==
    LET q == ForPeer(who[w])
    IN  /\ pc[w] = "pick"
        /\ IF q = <<>>
           THEN Goto(w, "clear") /\ UNCHANGED cur
           ELSE Goto(w, "send") /\ cur' = [cur EXCEPT ![w] = q[Len(q)].id]
        /\ UNCHANGED <<envVars, memVars, sending, who, saveVars, sent>>

\* The first message for the peer is copied and the lock released.
Pick(w) ==
    LET q == ForPeer(who[w])
    IN  /\ pc[w] = "pick"
        /\ IF q = <<>>
           THEN Goto(w, "clear") /\ UNCHANGED cur
           ELSE Goto(w, "send") /\ cur' = [cur EXCEPT ![w] = Head(q).id]
        /\ UNCHANGED <<envVars, memVars, sending, who, saveVars, sent>>

SendOk(w) ==
    /\ pc[w] = "send" /\ who[w] \in online
    /\ Handed(cur[w])
    /\ Goto(w, "sent")
    /\ UNCHANGED <<envVars, memVars, workVars, saveVars>>

\* Mutant of SendFail: the worker ends without clearing its mark.
SendFailNoClear(w) ==
    /\ pc[w] = "send"
    /\ who[w] \in online => who[w] \in Flaky
    /\ Goto(w, "idle")
    /\ UNCHANGED <<envVars, memVars, workVars, saveVars, sent>>

\* The rest is left for the next connection.
SendFail(w) ==
    /\ pc[w] = "send"
    /\ who[w] \in online => who[w] \in Flaky
    /\ Goto(w, "clear")
    /\ UNCHANGED <<envVars, memVars, workVars, saveVars, sent>>

\* Sent: out of the outbox and no longer pending, under one lock; then saved.
Remove(w) ==
    /\ pc[w] = "sent"
    /\ outbox' = Without(outbox, {cur[w]})
    /\ history' = [i \in DOMAIN history |->
                     IF history[i] = Entry(cur[w], "pending")
                     THEN Entry(cur[w], "sent") ELSE history[i]]
    /\ Goto(w, "save")
    /\ UNCHANGED <<envVars, read, workVars, saveVars, sent>>

Clear(w) ==
    /\ pc[w] = "clear"
    /\ sending' = [sending EXCEPT ![who[w]] = FALSE]
    /\ who' = [who EXCEPT ![w] = NoPeer]
    /\ cur' = [cur EXCEPT ![w] = NoMsg]
    /\ Goto(w, "idle")
    /\ UNCHANGED <<envVars, memVars, saveVars, sent>>

-----------------------------------------------------------------------------
(* kaydet. *)

\* Where a goroutine goes on after its save.
After(t) ==
    CASE t \in Workers -> "pick"
      [] t \in Msgs -> "done"
      [] OTHER -> "idle"

\* Mutant of Copy: the save lock is taken only for the write.
CopyUnlocked(t) ==
    /\ pc[t] = "save" /\ open
    /\ saver' = t
    /\ shot' = Memory
    /\ Goto(t, "write")
    /\ UNCHANGED <<envVars, memVars, workVars, disk, sent>>

\* Take kayitMu and copy the state under mu.
Copy(t) ==
    /\ pc[t] = "save" /\ open
    /\ saver = NoThread
    /\ saver' = t
    /\ shot' = Memory
    /\ Goto(t, "write")
    /\ UNCHANGED <<envVars, memVars, workVars, disk, sent>>

\* Before KaliciAc there is no file.
SkipSave(t) ==
    /\ pc[t] = "save" /\ ~open /\ saver = NoThread
    /\ Goto(t, After(t))
    /\ UNCHANGED <<envVars, memVars, workVars, saveVars, sent>>

\* AtomikYaz, then release kayitMu.
Write(t) ==
    /\ pc[t] = "write"
    /\ disk' = shot
    /\ saver' = NoThread
    /\ shot' = Blank
    /\ Goto(t, After(t))
    /\ UNCHANGED <<envVars, memVars, workVars, sent>>

-----------------------------------------------------------------------------
(* Start-up and the end of the process. *)

\* Mutant of Open: what arrived before KaliciAc is replaced by the file.
OpenReplacing ==
    /\ ~open /\ pc[Opener] = "idle"
    /\ open' = TRUE
    /\ Expire(disk.history, disk.outbox)
    /\ read' = disk.read
    /\ Goto(Opener, "save")
    /\ UNCHANGED <<clock, online, crashes, workVars, saveVars, sent>>

\* KaliciAc: what the file holds comes before what has already arrived; expired
\* messages leave the outbox.
Open ==
    /\ ~open /\ pc[Opener] = "idle"
    /\ open' = TRUE
    /\ Expire(Trim(disk.history \o history), disk.outbox \o outbox)
    /\ read' = [p \in Peers |-> IF disk.read[p] > read[p] THEN disk.read[p] ELSE read[p]]
    /\ Goto(Opener, "save")
    /\ UNCHANGED <<clock, online, crashes, workVars, saveVars, sent>>

\* Nothing is flushed when the process ends, so every end is a crash; a call
\* that had not returned was never acknowledged.
Crash ==
    /\ crashes < Crashes
    /\ crashes' = crashes + 1
    /\ online' = {} /\ open' = FALSE
    /\ history' = <<>> /\ outbox' = <<>> /\ read' = [p \in Peers |-> 0]
    /\ sending' = [p \in Peers |-> FALSE]
    /\ who' = [w \in Workers |-> NoPeer] /\ cur' = [w \in Workers |-> NoMsg]
    /\ saver' = NoThread /\ shot' = Blank
    /\ pc' = [t \in Threads |->
                IF t \in Msgs /\ pc[t] # "idle"
                THEN IF pc[t] \in {"done", "refused"} THEN pc[t] ELSE "lost"
                ELSE "idle"]
    /\ UNCHANGED <<clock, disk, sent>>

-----------------------------------------------------------------------------
Worker(w) ==
    \/ ExpireOld(w)
    \/ Pick(w)
    \/ SendOk(w)
    \/ SendFail(w)
    \/ Remove(w)
    \/ Clear(w)

Save(t) == Copy(t) \/ SkipSave(t) \/ Write(t)

Environment ==
    \/ Tick
    \/ \E p \in Peers : Connected(p) \/ Disconnect(p)
    \/ Open
    \/ Crash

Next ==
    \/ Environment
    \/ \E m \in Out : Attempt(m) \/ Enqueue(m) \/ RecordOut(m)
    \/ \E m \in Ins : Receive(m)
    \/ \E p \in Readable : MarkRead(p)
    \/ \E w \in Workers : Worker(w)
    \/ \E t \in Threads : Save(t)

Spec == Init /\ [][Next]_vars

\* Goroutines are scheduled and every network step has a deadline; Go hands a
\* mutex to those who wait for it.  SteadyEnough: a connection made again and
\* again does not break every time just before the same step of the worker it
\* started.
Serving(p, Step(_)) == \E w \in Workers : who[w] = p /\ p \in online /\ Step(w)

SteadyEnough ==
    \A p \in Peers :
        /\ SF_vars(Serving(p, ExpireOld))
        /\ SF_vars(Serving(p, Pick))
        /\ SF_vars(Serving(p, SendOk))

Fairness ==
    /\ WF_vars(Open)
    /\ \A m \in Out : WF_vars(Enqueue(m) \/ RecordOut(m))
    /\ WF_vars(\E t \in Threads : Write(t))
    /\ \A w \in Workers :
        /\ WF_vars(ExpireOld(w) \/ Pick(w) \/ SendOk(w) \/ SendFail(w) \/ Remove(w) \/ Clear(w))
        /\ SF_vars(Copy(w))

FairSpec == Spec /\ Fairness /\ SteadyEnough

-----------------------------------------------------------------------------
(* Properties. *)

Places == {"idle", "recordSent", "enqueue", "recordPending", "refused", "save", "write",
           "done", "lost", "expire", "pick", "send", "sent", "clear"}
States == {"pending", "sent", "failed", "in"}

Stores == [history : Seq([id : Msgs, state : States]),
           outbox : Seq([id : Out, at : 0..MaxTime]),
           read : [Peers -> 0..(MaxTime + 1)]]

OfKind(h, m) == {i \in DOMAIN h : SameKind(h[i].id, m)}

TypeOK ==
    /\ clock \in 0..MaxTime /\ online \subseteq Peers /\ open \in BOOLEAN /\ crashes \in 0..Crashes
    /\ \A s \in {Memory, shot, disk} :
           s \in Stores /\ \A m \in Msgs : Cardinality(OfKind(s.history, m)) <= Limit(m)
    /\ sending \in [Peers -> BOOLEAN]
    /\ pc \in [Threads -> Places]
    /\ who \in [Workers -> Peers \cup {NoPeer}]
    /\ cur \in [Workers -> Out \cup {NoMsg}]
    /\ saver \in Threads \cup {NoThread}
    /\ sent \in [Out -> 0..2]

\* What SendDMQueued accepted is safe: a message it has returned for is in the
\* file's outbox until it has been sent or could have expired, whatever other
\* saves are under way and whenever the process ends.  (With the variables'
\* types, which the run checks here.)
AckDurable ==
    /\ TypeOK
    /\ \A m \in Out :
           pc[m] = "done" /\ sent[m] = 0 /\ clock <= Lifetime => m \in Queued(disk.outbox)

\* When no goroutine has a change still to save, the file holds exactly the
\* state in memory.
FileCurrent ==
    open /\ (\A t \in Threads : pc[t] \notin {"recordPending", "save", "write"})
        => disk = Memory

\* What arrived is never dropped from the history by a start-up: an incoming
\* message that has been saved, or came before KaliciAc, is in it or has newer
\* ones of its kind that fill it.
ArrivalsKept ==
    \A m \in Ins :
        open /\ pc[m] = "done" /\ crashes = 0
            => \/ \E r \in Elements(history) : r.id = m
               \/ Cardinality(OfKind(history, m)) = Limit(m)

\* Messages to one peer leave the outbox in the order they entered it: nothing
\* that waits behind an unsent message has been sent.
QueueOrder ==
    \A i, j \in DOMAIN outbox :
        i < j /\ To[outbox[i].id] = To[outbox[j].id] /\ sent[outbox[j].id] > 0
            => sent[outbox[i].id] > 0

\* Until the process ends for the first time no message is sent twice, however
\* connection events and failures interleave.  (A crash between a send and its
\* save sends the message again.)
SentOnce == crashes = 0 => \A m \in Out : sent[m] <= 1

\* A message shown as pending waits in the outbox.
PendingIsQueued ==
    \A i \in DOMAIN history :
        history[i].state = "pending" => history[i].id \in Queued(outbox)

InOutbox(m) == m \in Queued(outbox)

\* If its recipient connects again and again, a message does not stay in the
\* outbox: no worker dies holding the peer's mark, no event is lost for good.
Drains ==
    \A m \in Out :
        []<>(To[m] \notin online) /\ []<>(To[m] \in online)
            => (InOutbox(m) ~> ~InOutbox(m))
=============================================================================
