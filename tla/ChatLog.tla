------------------------------ MODULE ChatLog ------------------------------
(***************************************************************************)
(* The chat of one node: chatlog.Store (internal/chatlog), the screen that *)
(* shows it (internal/tui/app.go), the topic, which loses, repeats and     *)
(* reorders, and a peer that runs the same program and exchanges history   *)
(* with it.  A node keeps the MaxStored messages that arrived last, in     *)
(* memory and in a table.                                                  *)
(*                                                                         *)
(* Three goroutines of the node store messages: the topic's handler, a     *)
(* sync and the screen's own (Send runs inside Update).  persist changes   *)
(* the map under the lock and the table after it, so it is two steps.  The *)
(* peer's own storing is one step.                                         *)
(*                                                                         *)
(* Messages are numbered by the time they were sent.  Whether a live       *)
(* message passes the author's limits (AuthorLimits), a ban or the clock   *)
(* check is left open: one that does not is as good as lost.               *)
(***************************************************************************)
EXTENDS Naturals, Sequences, FiniteSets, Filters, SequencesExt

CONSTANTS
    Count,          \* number of messages ever sent
    Own,            \* those the node's user sends; the others come from elsewhere
    MaxStored,      \* MaxStoredMessages, 500
    MaxSync,        \* maxSyncMessages, 500
    SyncQuota,      \* rlMaxPerAuthor: synced messages of an author and hour
    LiveCap,        \* capacity of newMessages, 256
    MaxLines,       \* bound on the lines of the screen in the model
    MaxRestarts     \* bound on the restarts in the model

Messages == 1..Count

ASSUME ChatAssumption ==
    /\ Count \in Nat /\ Own \subseteq Messages
    /\ {MaxStored, MaxSync} \subseteq Nat \ {0}
    /\ {SyncQuota, LiveCap, MaxLines, MaxRestarts} \subseteq Nat

VARIABLES
    sent,       \* messages sent so far, by anybody
    old,        \* messages 1..old have expired
    net,        \* what the topic carries
    peer,       \* the messages the peer keeps, in order of arrival
    msgs,       \* Store.messages, in order of arrival
    rows,       \* the table chat_messages
    thread,     \* the node's goroutines and what they have in hand
    answer,     \* the part of a sync response not yet applied
    charged,    \* senkronGecmis: synced messages of the other author
    live,       \* the channel newMessages
    changed,    \* the channel historyChanged
    screen,     \* appModel.chatLines
    dropped,    \* messages that found the live channel full, were not in it or on
                \* the screen, and no rebuilt history has shown since (history)
    restarts    \* restarts so far

world == <<sent, old, net, peer>>
store == <<msgs, rows, thread, answer, charged>>
tui   == <<live, changed, screen, dropped, restarts>>
chatVars == <<world, store, tui>>
-----------------------------------------------------------------------------
Threads == {"topic", "sync", "user"}
Places  == {"idle", "asked", "store", "row", "done"}

Resting == [at |-> "idle", msg |-> 0, ids |-> {}, news |-> FALSE]

At(t, place) == thread[t].at = place

Known == ToSet(msgs)

Expired(m) == m <= old
Overdue == 1..old

ChatInit ==
    /\ sent = 0 /\ old = 0 /\ net = {} /\ peer = <<>>
    /\ msgs = <<>> /\ rows = {}
    /\ thread = [t \in Threads |-> Resting]
    /\ answer = <<>> /\ charged = 0
    /\ live = <<>> /\ changed = FALSE /\ screen = <<>> /\ dropped = {}
    /\ restarts = 0
-----------------------------------------------------------------------------
(* Storing                                                                  *)

Without(s, gone) == AtPositions(s, {i \in DOMAIN s : s[i] \notin gone})

Begin(t, m) == thread' = [thread EXCEPT ![t].at = "store", ![t].msg = m, ![t].ids = {}]

\* The messages that arrived first make room.
Room(s) == IF Len(s) > MaxStored THEN SubSeq(s, Len(s) - MaxStored + 1, Len(s)) ELSE s

(* persist, under the lock.  A message stored meanwhile is left alone.      *)
Persist(t) ==
    LET m == thread[t].msg
        s == Append(msgs, m)
    IN
    /\ At(t, "store")
    /\ IF m \in Known
       THEN /\ thread' = [thread EXCEPT ![t].at = "done"]
            /\ UNCHANGED msgs
       ELSE /\ msgs' = Room(s)
            /\ thread' = [thread EXCEPT ![t].at = "row", ![t].news = TRUE,
                                        ![t].ids = ToSet(s) \ ToSet(Room(s))]
    /\ UNCHANGED <<world, rows, answer, charged, tui>>

(* persist, after the lock: the rows, and a signal if messages had to go.   *)
Rows(t) ==
    LET evicted == thread[t].ids IN
    /\ At(t, "row")
    /\ rows' = (rows \cup {thread[t].msg}) \ evicted
    /\ changed' = (changed \/ evicted # {})
    /\ thread' = [thread EXCEPT ![t].at = "done", ![t].ids = {}]
    /\ UNCHANGED <<world, msgs, answer, charged, live, screen, dropped, restarts>>
-----------------------------------------------------------------------------
(* The user's own messages                                                  *)

Send ==
    /\ sent + 1 \in Own
    /\ At("user", "idle")
    /\ sent' = sent + 1
    /\ Begin("user", sent + 1)
    /\ UNCHANGED <<old, net, peer, msgs, rows, answer, charged, tui>>

(* Send publishes, which may fail, and sendChat adds the line either way.   *)
Publish ==
    /\ At("user", "done")
    /\ \/ net' = net \cup {thread["user"].msg}
       \/ UNCHANGED net
    /\ screen' = Append(screen, thread["user"].msg)
    /\ thread' = [thread EXCEPT !["user"] = Resting]
    /\ UNCHANGED <<sent, old, peer, msgs, rows, answer, charged, live, changed, dropped, restarts>>
-----------------------------------------------------------------------------
(* The topic.  A node does not hear its own messages; a known one is        *)
(* dropped before the limits are asked.                                     *)
Hear(m) ==
    /\ m \in net \ Own
    /\ At("topic", "idle")
    /\ m \notin Known
    /\ Begin("topic", m)
    /\ UNCHANGED <<world, msgs, rows, answer, charged, tui>>

(* publishLive: a full channel drops the line.                              *)
PublishLive ==
    /\ At("topic", "done")
    /\ IF Len(live) < LiveCap
       THEN live' = Append(live, thread["topic"].msg) /\ UNCHANGED dropped
       ELSE /\ dropped' = dropped \cup ({thread["topic"].msg} \ (ToSet(screen) \cup ToSet(live)))
            /\ UNCHANGED live
    /\ thread' = [thread EXCEPT !["topic"] = Resting]
    /\ UNCHANGED <<world, msgs, rows, answer, charged, changed, screen, restarts>>
-----------------------------------------------------------------------------
(* Sync                                                                     *)

\* Mutant of Missing: the messages both sides have, the condition turned round.
Shared(s, have) ==
    LET has == Without(s, ToSet(s) \ have)
    IN  SubSeq(has, 1, IF Len(has) < MaxSync THEN Len(has) ELSE MaxSync)

\* What one side sends to a side that has the messages of have.
Missing(s, have) ==
    LET lacks == Without(s, have)
    IN  SubSeq(lacks, 1, IF Len(lacks) < MaxSync THEN Len(lacks) ELSE MaxSync)

(* The request carries the identifiers known now.                           *)
SyncAsk ==
    /\ At("sync", "idle")
    /\ thread' = [thread EXCEPT !["sync"] = [Resting EXCEPT !.at = "asked", !.ids = Known]]
    /\ UNCHANGED <<world, msgs, rows, answer, charged, tui>>

(* The peer answers from what it has by then.                               *)
SyncAnswer ==
    /\ At("sync", "asked")
    /\ answer' = Missing(peer, thread["sync"].ids)
    /\ thread' = [thread EXCEPT !["sync"] = [Resting EXCEPT !.at = "done"]]
    /\ UNCHANGED <<world, msgs, rows, charged, tui>>

(* The next message of the response, if its author's hour has room.  The    *)
(* node's own hour is not at its limit here: the limit counts one author.   *)
SyncNext ==
    /\ At("sync", "done")
    /\ answer # <<>>
    /\ LET m == Head(answer) IN
       IF m \in Own \/ charged < SyncQuota
       THEN /\ charged' = IF m \in Own THEN charged ELSE charged + 1
            /\ Begin("sync", m)
       ELSE UNCHANGED <<charged, thread>>
    /\ answer' = Tail(answer)
    /\ UNCHANGED <<world, msgs, rows, tui>>

\* Mutant of SyncEnds: only an eviction signals, not what the sync stored.
SyncEndsSilent ==
    /\ At("sync", "done")
    /\ answer = <<>>
    /\ thread' = [thread EXCEPT !["sync"] = Resting]
    /\ UNCHANGED <<world, msgs, rows, answer, charged, tui>>

SyncEnds ==
    /\ At("sync", "done")
    /\ answer = <<>>
    /\ changed' = (changed \/ thread["sync"].news)
    /\ thread' = [thread EXCEPT !["sync"] = Resting]
    /\ UNCHANGED <<world, msgs, rows, answer, charged, live, screen, dropped, restarts>>

SyncFail ==
    /\ At("sync", "asked")
    /\ thread' = [thread EXCEPT !["sync"] = Resting]
    /\ UNCHANGED <<world, msgs, rows, answer, charged, tui>>
-----------------------------------------------------------------------------
(* The screen.  Update runs one message at a time; while Send is in it, no  *)
(* other.  The two channels are read by commands of their own, in any order.*)
ShowLive ==
    /\ At("user", "idle")
    /\ live # <<>> /\ Len(screen) < MaxLines
    /\ screen' = Append(screen, Head(live))
    /\ live' = Tail(live)
    /\ UNCHANGED <<world, store, changed, dropped, restarts>>

ShowHistory ==
    /\ At("user", "idle")
    /\ changed
    /\ changed' = FALSE
    /\ screen' = msgs /\ dropped' = {}
    /\ UNCHANGED <<world, store, live, restarts>>
-----------------------------------------------------------------------------
(* Elsewhere: the peer has every message sent by somebody else, and the     *)
(* topic with luck; it asks this node for the others.                       *)
PeerStores(m) == peer' = IF m \in ToSet(peer) THEN peer ELSE Room(Append(peer, m))

SendElsewhere ==
    /\ sent < Count /\ sent + 1 \notin Own
    /\ sent' = sent + 1
    /\ PeerStores(sent + 1)
    /\ net' \in {net, net \cup {sent + 1}}
    /\ UNCHANGED <<old, store, tui>>

PeerSyncs ==
    /\ Missing(msgs, ToSet(peer)) # <<>>
    /\ PeerStores(Missing(msgs, ToSet(peer))[1])
    /\ UNCHANGED <<sent, old, net, store, tui>>

Expire ==
    /\ old < sent
    /\ old' = old + 1
    /\ UNCHANGED <<sent, net, peer, store, tui>>

PeerCleans ==
    /\ \E m \in ToSet(peer) : Expired(m)
    /\ peer' = Without(peer, Overdue)
    /\ UNCHANGED <<sent, old, net, store, tui>>
-----------------------------------------------------------------------------
(* cleanup looks at the table first and leaves the map alone when no row    *)
(* had expired.                                                             *)
Cleanup ==
    /\ \E m \in rows : Expired(m)
    /\ rows' = rows \ Overdue
    /\ msgs' = Without(msgs, Overdue)
    /\ UNCHANGED <<world, thread, answer, charged, tui>>

(* The process ends anywhere and starts again from the table, by SentAt.    *)
ChatRestart ==
    LET s == Without([m \in Messages |-> m], Messages \ (rows \ Overdue)) IN
    /\ restarts < MaxRestarts /\ restarts' = restarts + 1
    /\ msgs' = s /\ screen' = s
    /\ thread' = [t \in Threads |-> Resting]
    /\ answer' = <<>> /\ charged' = 0
    /\ live' = <<>> /\ changed' = FALSE /\ dropped' = {}
    /\ UNCHANGED <<world, rows>>

Storing(t) == Persist(t) \/ Rows(t)

SyncSteps == SyncAsk \/ SyncAnswer \/ SyncNext \/ SyncEnds \/ Storing("sync")

ChatNext ==
    \/ Send \/ Publish \/ Storing("user")
    \/ (\E m \in Messages : Hear(m)) \/ PublishLive \/ Storing("topic")
    \/ SyncSteps \/ SyncFail
    \/ ShowLive \/ ShowHistory
    \/ SendElsewhere \/ PeerSyncs
    \/ Expire \/ PeerCleans \/ Cleanup \/ ChatRestart

ChatSpec == ChatInit /\ [][ChatNext]_chatVars

(* Each goroutine goes on; the scheduler syncs again and again (PeerSync),  *)
(* and a sync with a peer that does not go away succeeds in the end.        *)
ChatFairSpec ==
    /\ ChatSpec
    /\ \A t \in Threads : WF_chatVars(Storing(t))
    /\ WF_chatVars(Publish) /\ WF_chatVars(PublishLive)
    /\ WF_chatVars(SyncAsk) /\ SF_chatVars(SyncAnswer) /\ WF_chatVars(SyncNext \/ SyncEnds)
    /\ WF_chatVars(ShowLive) /\ WF_chatVars(ShowHistory)
    /\ WF_chatVars(PeerSyncs)
-----------------------------------------------------------------------------
ChatTypeOK ==
    /\ sent \in 0..Count /\ old \in 0..sent /\ net \subseteq 1..sent
    /\ Known \subseteq 1..sent /\ IsInjective(msgs)
    /\ rows \subseteq 1..sent
    /\ Len(live) <= LiveCap /\ changed \in BOOLEAN /\ dropped \subseteq 1..sent
    /\ charged \in 0..SyncQuota /\ restarts \in 0..MaxRestarts
    /\ \A t \in Threads : thread[t].at \in Places

Quiet ==
    /\ \A t \in Threads : At(t, "idle")
    /\ live = <<>> /\ ~changed

(* Once the node has nothing in hand, the screen shows every message it     *)
(* keeps: nothing falls between the live channel, the signal and the        *)
(* rebuilt history.  Only a message that found the live channel full waits  *)
(* for the next rebuilt history.                                            *)
ScreenComplete ==
    /\ ChatTypeOK
    /\ Quiet => Known \subseteq ToSet(screen) \cup dropped

(* "NewMessages streams messages as they arrive" (chatlog.go:831): without  *)
(* the exception.  While a plugin has the terminal nobody reads the channel,*)
(* which is smaller than the history: 257 messages fill it, and the one     *)
(* that is dropped evicts nothing.                                          *)
AllShown == Quiet => Known \subseteq ToSet(screen)

(* A message is one line of the screen.  The comment at chatlog.go:745-748  *)
(* has the listener rebuild the complete history when messages had to go.   *)
ShownOnce == IsInjective(screen)

RowsKept == (\A t \in Threads : At(t, "idle")) => Known \subseteq rows

(* Whatever the topic loses and wherever the process ends, syncs bring each *)
(* side every message the other keeps, as long as both fit and none expires.*)
Agree == Known = ToSet(peer)

CatchesUp == [](sent <= MaxStored /\ old = 0) => <>[]Agree
=============================================================================
