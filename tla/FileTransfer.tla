---------------------------- MODULE FileTransfer ----------------------------
(***************************************************************************)
(* One file on its way from one node to another: filemgr.Broker            *)
(* (internal/filemgr).  The sender opens a stream for each attempt and      *)
(* goes through INIT, RESUME, CHUNK and ACK, DONE, one message at a time;  *)
(* the receiver asks its user, writes the chunks to a .part file and the   *)
(* progress to a state file, and renames the .part file at the end.        *)
(*                                                                         *)
(* The streams of several attempts overlap at the receiver: the connection *)
(* of the first may be gone while its handler still reads what arrived.    *)
(* All of them share the identifier of the transfer, so one .part file,    *)
(* one state file and one place for the user's answer.  A handler that has *)
(* opened the .part file keeps its inode when another removes the name.    *)
(***************************************************************************)
EXTENDS Integers, FiniteSets

CONSTANTS
    Streams,        \* streams that exist at a time
    Total,          \* number of chunks, from 0
    LastFull,       \* whether the last chunk is a full one
    Patient         \* whether the user sends again only when no DONE is underway

Chunks == 0..(Total - 1)
Inodes == 1..(Cardinality(Streams) + 2)
NoFile == 0

ASSUME TransferAssumption ==
    /\ IsFiniteSet(Streams) /\ Total \in Nat \ {0}
    /\ LastFull \in BOOLEAN /\ Patient \in BOOLEAN

VARIABLES
    sender,     \* where SendFile is on each stream, and the chunk it is at
    wire,       \* the message on each stream, one at a time
    handler,    \* where handleStream is, its recvState.NextChunk and its file
    pend,       \* consentPend: the stream an answer goes to
    answer,     \* the channels of the streams' answers
    polling,    \* a plugin's consent poll is open
    prompt,     \* a consent request is before the user
    part,       \* the inode of the .part file
    state,      \* NextChunk in the state file; 0 also when there is none
    data,       \* the chunks in each inode
    final,      \* the inodes that were given the file's name
    settled     \* nothing fails any more

consent == <<pend, answer, polling, prompt>>
disk    == <<part, state, data, final>>
transferVars == <<sender, wire, handler, consent, disk, settled>>
-----------------------------------------------------------------------------
Free == [at |-> "idle", next |-> 0, file |-> NoFile]

SendAt(s, place)   == sender[s].at = place
HandleAt(s, place) == handler[s].at = place

Msg(type, n) == [type |-> type, n |-> n]
Silence == Msg("none", 0)

Holds(s, type) == wire[s].type = type

\* A handler returns; what the sender still writes is lost.
Return(s) == handler' = [handler EXCEPT ![s] = Free]

Goes(s, place) == handler' = [handler EXCEPT ![s].at = place]

\* Mutant of LongEnough: a short last chunk counts as a whole one.
ShortLastCounts(i, n) == \E c \in data[i] : c + 1 >= n

\* A file has at least n whole chunks' length, holes included.
LongEnough(i, n) == \E c \in data[i] : c + 1 > n \/ (c + 1 = n /\ (n < Total \/ LastFull))

Whole(i) == Chunks \subseteq data[i]

TransferInit ==
    /\ sender = [s \in Streams |-> [at |-> "idle", i |-> 0]]
    /\ wire = [s \in Streams |-> Silence]
    /\ handler = [s \in Streams |-> Free]
    /\ pend = {} /\ answer = [s \in Streams |-> "none"]
    /\ polling = FALSE /\ prompt = FALSE
    /\ part = NoFile /\ state = 0 /\ data = [i \in Inodes |-> {}] /\ final = {}
    /\ settled = FALSE
-----------------------------------------------------------------------------
(* The sender                                                               *)

Waiting == {s \in Streams : ~SendAt(s, "idle")}

\* A DONE was sent, and the other side has not finished with it.
Finishing(s) == Holds(s, "DONE") \/ HandleAt(s, "rename")

(* The user sends, and sends again when SendFile has returned and the file  *)
(* has not arrived.                                                         *)
Send(s) ==
    /\ final = {}
    /\ HandleAt(s, "idle") /\ SendAt(s, "idle")
    /\ Patient => Waiting = {} /\ \A t \in Streams : ~Finishing(t)
    /\ sender' = [sender EXCEPT ![s] = [at |-> "resume", i |-> 0]]
    /\ wire' = [wire EXCEPT ![s] = Msg("INIT", 0)]
    /\ Goes(s, "init")
    /\ answer' = [answer EXCEPT ![s] = "none"]
    /\ UNCHANGED <<pend, polling, prompt, disk, settled>>

Write(s, i) ==
    IF i < Total
    THEN /\ wire' = [wire EXCEPT ![s] = Msg("CHUNK", i)]
         /\ sender' = [sender EXCEPT ![s] = [at |-> "ack", i |-> i]]
    ELSE /\ wire' = [wire EXCEPT ![s] = Msg("DONE", 0)]
         /\ sender' = [sender EXCEPT ![s] = [at |-> "idle", i |-> 0]]

\* RESUME past the last chunk: SendFile returns, with no error and no DONE.
Resume(s) ==
    /\ SendAt(s, "resume") /\ Holds(s, "RESUME")
    /\ IF wire[s].n >= Total
       THEN /\ wire' = [wire EXCEPT ![s] = Silence]
            /\ sender' = [sender EXCEPT ![s].at = "idle"]
       ELSE Write(s, wire[s].n)
    /\ UNCHANGED <<handler, consent, disk, settled>>

Acked(s) ==
    /\ SendAt(s, "ack") /\ Holds(s, "ACK") /\ wire[s].n = sender[s].i
    /\ Write(s, sender[s].i + 1)
    /\ UNCHANGED <<handler, consent, disk, settled>>

\* The other side has closed the stream, or it fails.
Closed(s) == HandleAt(s, "idle") /\ wire[s] = Silence

(* A read or write fails.  What is on the wire may still be read.           *)
SendFails(s) ==
    /\ ~SendAt(s, "idle")
    /\ Closed(s) \/ ~settled
    /\ sender' = [sender EXCEPT ![s] = [at |-> "idle", i |-> 0]]
    /\ wire' = IF wire[s].type \in {"RESUME", "ACK"} THEN [wire EXCEPT ![s] = Silence] ELSE wire
    /\ UNCHANGED <<handler, consent, disk, settled>>
-----------------------------------------------------------------------------
(* Consent                                                                  *)

\* The author is banned, the disk is full, or nobody is there to ask.
Refuse(s) ==
    /\ HandleAt(s, "init")
    /\ ~polling \/ ~settled
    /\ Return(s)
    /\ wire' = [wire EXCEPT ![s] = Silence]
    /\ UNCHANGED <<sender, consent, disk, settled>>

\* The place for the answer, which another stream may have taken.
Ask(s) ==
    /\ HandleAt(s, "init") /\ Holds(s, "INIT") /\ polling
    /\ wire' = [wire EXCEPT ![s] = Silence]
    /\ pend' = {s}
    /\ Goes(s, "tell")
    /\ UNCHANGED <<sender, answer, polling, prompt, disk, settled>>

\* deliverConsent: to the polls open now.
Tell(s) ==
    /\ HandleAt(s, "tell")
    /\ prompt' = (prompt \/ polling)
    /\ polling' = FALSE
    /\ Goes(s, "consent")
    /\ UNCHANGED <<sender, wire, pend, answer, disk, settled>>

Poll ==
    /\ polling' = ~polling
    /\ UNCHANGED <<sender, wire, handler, pend, answer, prompt, disk, settled>>

\* A handler is at work on its files, which takes no time next to the user's.
Working(s) == answer[s] # "none" \/ handler[s].at \in {"open", "save", "rename", "forget"}

(* RespondConsent, for a request shown earlier.                             *)
Respond(yes) ==
    /\ prompt
    /\ prompt' = FALSE
    /\ \A s \in Streams : ~Working(s)
    /\ answer' = [s \in Streams |-> IF s \in pend THEN yes ELSE answer[s]]
    /\ pend' = {}
    /\ UNCHANGED <<sender, wire, handler, polling, disk, settled>>

(* The user said no, or nothing for 30 s: the place is emptied, whichever   *)
(* stream it belongs to.                                                    *)
NotAccepted(s) ==
    /\ HandleAt(s, "consent") /\ answer[s] # "yes"
    /\ pend' = {}
    /\ answer' = [answer EXCEPT ![s] = "none"]
    /\ Return(s)
    /\ UNCHANGED <<sender, wire, polling, prompt, disk, settled>>
-----------------------------------------------------------------------------
(* Receiving                                                                *)

\* Mutant of Resumable: the state file is believed without a look at the .part file.
StateBelieved == state > 0

Resumable == state > 0 /\ part # NoFile /\ LongEnough(part, state)

(* loadOrCreateState, and RESUME.                                           *)
Load(s) ==
    /\ HandleAt(s, "consent") /\ answer[s] = "yes"
    /\ answer' = [answer EXCEPT ![s] = "none"]
    /\ IF Resumable
       THEN UNCHANGED <<part, state>>
       ELSE part' = NoFile /\ state' = 0
    /\ IF SendAt(s, "resume")
       THEN /\ handler' = [handler EXCEPT ![s].at = "open", ![s].next = state']
            /\ wire' = [wire EXCEPT ![s] = Msg("RESUME", state')]
       ELSE /\ Return(s)
            /\ UNCHANGED wire
    /\ UNCHANGED <<sender, pend, polling, prompt, data, final, settled>>

InUse == {part} \cup final \cup {handler[s].file : s \in Streams}

(* OpenFile creates the .part file if it is not there.                      *)
OpenPart(s) ==
    LET new == CHOOSE i \in Inodes : i \notin InUse
        i   == IF part = NoFile THEN new ELSE part
    IN
    /\ HandleAt(s, "open")
    /\ part' = i
    /\ data' = IF part = NoFile THEN [data EXCEPT ![new] = {}] ELSE data
    /\ handler' = [handler EXCEPT ![s].at = "read", ![s].file = i]
    /\ UNCHANGED <<sender, wire, consent, state, final, settled>>

(* A chunk: the data, then the state file and the ACK.                      *)
TakeChunk(s) ==
    /\ HandleAt(s, "read") /\ Holds(s, "CHUNK") /\ wire[s].n = handler[s].next
    /\ data' = [data EXCEPT ![handler[s].file] = @ \cup {wire[s].n}]
    /\ Goes(s, "save")
    /\ UNCHANGED <<sender, wire, consent, part, state, final, settled>>

Save(s) ==
    LET n == handler[s].next + 1 IN
    /\ HandleAt(s, "save")
    /\ state' = n
    /\ IF SendAt(s, "ack")
       THEN /\ handler' = [handler EXCEPT ![s].at = "read", ![s].next = n]
            /\ wire' = [wire EXCEPT ![s] = Msg("ACK", n - 1)]
       ELSE /\ Return(s)
            /\ wire' = [wire EXCEPT ![s] = Silence]
    /\ UNCHANGED <<sender, consent, part, data, final, settled>>

\* The length of a complete file, as Stat reports it.
FullLength(i) == Total - 1 \in data[i]

Done(s) ==
    /\ HandleAt(s, "read") /\ Holds(s, "DONE")
    /\ wire' = [wire EXCEPT ![s] = Silence]
    /\ IF handler[s].next = Total /\ FullLength(handler[s].file)
       THEN Goes(s, "rename")
       ELSE Return(s)
    /\ UNCHANGED <<sender, consent, disk, settled>>

(* Rename goes by name: it moves the file that is called .part now.         *)
Rename(s) ==
    /\ HandleAt(s, "rename")
    /\ part' = NoFile
    /\ IF part = NoFile
       THEN Return(s) /\ UNCHANGED final
       ELSE Goes(s, "forget") /\ final' = final \cup {part}
    /\ UNCHANGED <<sender, wire, consent, state, data, settled>>

Forget(s) ==
    /\ HandleAt(s, "forget")
    /\ state' = 0
    /\ Return(s)
    /\ UNCHANGED <<sender, wire, consent, part, data, final, settled>>

(* The handler's next read fails, if only because the sender is gone.       *)
ReadFails(s) ==
    /\ HandleAt(s, "read")
    /\ (SendAt(s, "idle") /\ wire[s] = Silence) \/ ~settled
    /\ Return(s)
    /\ wire' = [wire EXCEPT ![s] = Silence]
    /\ UNCHANGED <<sender, consent, disk, settled>>

Crash ==
    /\ ~settled
    /\ handler' = [s \in Streams |-> Free]
    /\ wire' = [s \in Streams |-> Silence]
    /\ pend' = {} /\ answer' = [s \in Streams |-> "none"]
    /\ polling' = FALSE /\ prompt' = FALSE
    /\ UNCHANGED <<sender, disk, settled>>

Settle ==
    /\ ~settled
    /\ settled' = TRUE
    /\ UNCHANGED <<sender, wire, handler, consent, disk>>
-----------------------------------------------------------------------------
Sending(s) == Resume(s) \/ Acked(s)

Handling(s) ==
    \/ Refuse(s) \/ Tell(s) \/ NotAccepted(s) \/ Load(s) \/ OpenPart(s)
    \/ TakeChunk(s) \/ Save(s) \/ Done(s) \/ Rename(s) \/ Forget(s) \/ ReadFails(s)

TransferNext ==
    \/ \E s \in Streams :
        \/ Send(s) \/ Sending(s) \/ SendFails(s)
        \/ Ask(s) \/ Handling(s)
    \/ Poll \/ (\E yes \in {"yes", "no"} : Respond(yes))
    \/ Crash \/ Settle

TransferSpec == TransferInit /\ [][TransferNext]_transferVars

(* SendFile, handleStream and the plugin's loop of polls go on.  The gaps   *)
(* of that loop are short: the user, who sends until the file is there, and *)
(* a stream that must ask meet an open poll in the end, and in the end the  *)
(* user agrees while the stream waits.                                      *)
TransferFairSpec ==
    /\ TransferSpec
    /\ \A s \in Streams : WF_transferVars(Sending(s)) /\ WF_transferVars(settled /\ Handling(s))
    /\ SF_transferVars(\E s \in Streams : Send(s) /\ polling)
    /\ SF_transferVars(\E s \in Streams : SendFails(s) /\ Closed(s) /\ polling)
    /\ SF_transferVars(\E s \in Streams : Ask(s))
    /\ SF_transferVars(\E s \in Streams : Tell(s) /\ polling)
    /\ WF_transferVars(Poll /\ ~polling)
    /\ SF_transferVars(Respond("yes") /\ pend # {})
-----------------------------------------------------------------------------
TransferTypeOK ==
    /\ \A s \in Streams : sender[s].at \in {"idle", "resume", "ack"} /\ sender[s].i \in 0..Total
    /\ \A s \in Streams : handler[s].next \in 0..Total /\ handler[s].file \in Inodes \cup {NoFile}
    /\ pend \subseteq Streams
    /\ part \in Inodes \cup {NoFile} /\ state \in 0..Total
    /\ data \in [Inodes -> SUBSET Chunks] /\ final \subseteq Inodes /\ settled \in BOOLEAN

(* A file given its name, and announced to the plugins, has every chunk,    *)
(* whichever of the overlapping streams of the transfer wrote them; and a   *)
(* transfer that would be resumed has every chunk before the resumption:    *)
(* the check of the .part file's length stands for one of its content.      *)
DeliveredWhole ==
    /\ TransferTypeOK
    /\ \A i \in final : Whole(i)
    /\ Resumable => part # NoFile /\ 0..(state - 1) \subseteq data[part]

(* "karsi tarafda dosya zaten tam" (fm.go:254): a sender told to resume past *)
(* the last chunk returns without an error because the file is complete at  *)
(* the other side.                                                          *)
CompleteThere ==
    \A s \in Streams :
        SendAt(s, "resume") /\ Holds(s, "RESUME") /\ wire[s].n >= Total => final # {}

(* Once nothing fails any more, the file arrives in the end: no attempt leaves    *)
(* behind, in a state file, a .part file or the place for the answer, what  *)
(* stops every later one.                                                   *)
Completes == settled ~> final # {}
=============================================================================
