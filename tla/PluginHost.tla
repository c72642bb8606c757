----------------------------- MODULE PluginHost -----------------------------
(***************************************************************************)
(* A plugin in AND: the terminal interface that asks for its permissions   *)
(* and runs it (internal/tui, internal/pluginmgr), the API server that     *)
(* answers it (internal/pluginapi), and the plugin itself, ozel_chat       *)
(* (Eklentiler/ozel_chat), which shows the private messages and tells AND  *)
(* which of them were read.                                                *)
(*                                                                         *)
(* The interface waits while the plugin runs; the plugin's calls do not    *)
(* wait for each other.  A call is checked when it reaches the server and  *)
(* has its effect later, possibly when the plugin is gone.                 *)
(***************************************************************************)
EXTENDS Naturals, FiniteSets, Functions, FiniteSetsExt

CONSTANTS
    Peers,          \* the other ends of the conversations
    None,           \* no conversation, no text
    Role,           \* what the node is: "user", "moderator", "founder"
    Others,         \* routes the plugin calls besides its messages
    MaxAnswers,     \* bound on the histories on their way to the plugin
    MaxIn,          \* bound on the messages received
    MaxCalls,       \* bound on the messages sent and the calls of Others
    MaxTurns        \* bound on exits of the plugin, restarts and changed settings

Perms == {"dm", "file"}

\* Others holds routes of Route below, and none that its messages need.
ASSUME PluginHostAssumption ==
    /\ None \notin Peers
    /\ Others \subseteq {"consent", "peers", "allPosts", "bans", "grant"}

VARIABLES
    screen,     \* "menu", "ask" (screenIzin), "plugin"
    enabled,    \* pluginmgr.Plugin.Enabled
    approved,   \* the approval in plugins_state.json
    wants,      \* the permissions in the manifest that was read at the start
    keys,       \* Server.yetkiler without AND's own key: what each key permits
    served,     \* the calls the server has admitted and not finished
    core,       \* dmmgr: the number of messages received from each peer
    marks,      \* dmmgr.okundu: up to which of them a conversation was read
    ui,         \* the plugin's screen
    history,    \* histories on their way to it: requests overtake each other
    markCall,   \* its request for the read marks, and the answer
    okundu,     \* its read marks, in memory
    file,       \* and in ozel_chat_okundu.json
    tell,       \* bildirilecek: marks AND is to be told; 0 when there is none
    calls, turns,   \* what the bounds count
    calm        \* nothing fails any more and the user stays in the plugin

hostVars   == <<screen, enabled, approved, wants, keys>>
serverVars == <<served, core, marks>>
pluginVars == <<ui, history, markCall, okundu, file, tell>>
bounds     == <<calls, turns>>
vars       == <<hostVars, serverVars, pluginVars, bounds, calm>>
-----------------------------------------------------------------------------
(* Routes and permissions                                                   *)

\* The part of routeTable that a plugin of this kind calls, and one route of
\* each of the other kinds.
Route == [ send    |-> [perm |-> "dm"],    read   |-> [perm |-> "dm"],
           history |-> [perm |-> "dm"],    marks  |-> [perm |-> "dm"],
           consent |-> [perm |-> "file"],  peers  |-> [perm |-> "temel"],
           allPosts |-> [perm |-> "temel"], bans  |-> [perm |-> "moderation"],
           grant   |-> [perm |-> "moderation"] ]

\* enforceModeratorRole, enforceFounderRole: at the head of these handlers.
ModeratorRoutes == {"allPosts", "bans"}
FounderRoutes   == {"grant"}

RoleAllows(op) ==
    /\ op \in ModeratorRoutes => Role \in {"moderator", "founder"}
    /\ op \in FounderRoutes => Role = "founder"

Permits(key, op) == Route[op].perm = "temel" \/ Route[op].perm \in key

\* authMiddleware and izinDenetle, for the plugin's key if it is live, and the role.
Admitted(op) == RoleAllows(op) /\ \E key \in keys : Permits(key, op)

\* What becomes of calls: the server checks each on arrival.
Admit(new) == served' = served \cup {c \in new : Admitted(c.op)}

Call(op, peer, text, n) == [op |-> op, peer |-> peer, text |-> text, n |-> n]

Bigger(m, n) == IF m > n THEN m ELSE n
AtLeast(f, g) == [p \in Peers |-> Bigger(f[p], g[p])]
Zero == [p \in Peers |-> 0]

Idle  == [at |-> "idle", in |-> Zero]
Asked == [at |-> "asked", in |-> Zero]
Fresh == [in |-> Zero, focus |-> None, box |-> None, coreMarks |-> FALSE]

Init ==
    /\ screen = "menu" /\ enabled = TRUE /\ approved = {}
    /\ wants = {"dm"} /\ keys = {}
    /\ served = {} /\ core = Zero /\ marks = Zero
    /\ ui = Fresh /\ history = {} /\ markCall = Idle
    /\ okundu = Zero /\ file = Zero /\ tell = Zero
    /\ calls = 0 /\ turns = 0
    /\ calm = FALSE
-----------------------------------------------------------------------------
(* The interface                                                            *)

Turn ==
    /\ turns < MaxTurns
    /\ turns' = turns + 1

\* Mutant of Approved: any approval will do.
ApprovedOnce == approved # {}

\* IzinOnayli
Approved == wants \subseteq approved

(* eklentiCalistir: a key of its own, and the plugin starts and asks.       *)
Start ==
    /\ screen' = "plugin"
    /\ keys' = keys \cup {wants}
    /\ ui' = Fresh
    /\ history' = {core} /\ markCall' = Asked
    /\ okundu' = file /\ tell' = Zero
    /\ UNCHANGED file

\* eklentiAc
Open ==
    /\ screen = "menu" /\ enabled
    /\ IF Approved
       THEN Start
       ELSE screen' = "ask" /\ UNCHANGED <<keys, pluginVars>>
    /\ UNCHANGED <<enabled, approved, wants, serverVars, bounds, calm>>

\* IzinOnayla, in place of the earlier approval.
Approve ==
    /\ screen = "ask"
    /\ approved' = wants
    /\ Start
    /\ UNCHANGED <<enabled, wants, serverVars, bounds, calm>>

\* The user says no, or the approval could not be saved.
Decline ==
    /\ screen = "ask" /\ ~calm
    /\ screen' = "menu"
    /\ UNCHANGED <<enabled, approved, wants, keys, serverVars, pluginVars, bounds, calm>>

\* IzinleriGeriAl
Revoke ==
    /\ screen = "menu" /\ Approved /\ ~calm
    /\ Turn
    /\ approved' = {}
    /\ UNCHANGED <<screen, enabled, wants, keys, serverVars, pluginVars, calls, calm>>

\* SaveState: the mark only, whatever it reads of the approvals is written back.
Toggle ==
    /\ screen = "menu" /\ ~calm
    /\ Turn
    /\ enabled' = ~enabled
    /\ UNCHANGED <<screen, approved, wants, keys, serverVars, pluginVars, calls, calm>>

\* Mutant of KeysAfter: the exit callback forgets the key.
KeysKept(left) == left

\* geriAl, which the exit callback calls before the interface goes on.
KeysAfter(left) == left \ {wants}

(* The plugin ends.  Some of its calls had not reached the server yet, the  *)
(* others go on with nobody to answer.                                      *)
Exit ==
    /\ screen = "plugin" /\ ~calm
    /\ Turn
    /\ screen' = "menu"
    /\ keys' = KeysAfter(keys)
    /\ served' \in SUBSET {[c EXCEPT !.text = None] : c \in served}
    /\ history' = {} /\ markCall' = Idle
    /\ ui' = Fresh /\ okundu' = Zero /\ tell' = Zero
    /\ UNCHANGED <<enabled, approved, wants, core, marks, file, calls, calm>>

(* AND ends and starts, with another version of the plugin perhaps, and     *)
(* what the last SaveState without an error has left of the toggles.        *)
Restart ==
    /\ screen = "menu" /\ ~calm
    /\ Turn
    /\ wants' \in {{"dm"}, {"dm", "file"}}
    /\ enabled' \in BOOLEAN
    /\ keys' = {} /\ served' = {}
    /\ UNCHANGED <<screen, approved, core, marks, pluginVars, calls, calm>>

CalmDown ==
    /\ screen = "menu" /\ enabled /\ ~calm
    /\ calm' = TRUE
    /\ UNCHANGED <<hostVars, serverVars, pluginVars, bounds>>
-----------------------------------------------------------------------------
(* The server                                                               *)

\* A message of a peer is recorded.
Receive(p) ==
    /\ FoldFunction(+, 0, core) < MaxIn
    /\ core' = [core EXCEPT ![p] = @ + 1]
    /\ UNCHANGED <<hostVars, served, marks, pluginVars, bounds, calm>>

\* Mutant of Marked: the last report to arrive wins.
MarkedLast(c) == [marks EXCEPT ![c.peer] = c.n]

\* Broker.MarkRead: an older time takes nothing back.
Marked(c) == [marks EXCEPT ![c.peer] = Bigger(@, c.n)]

\* The plugin asks for the history: getDMHistory answers with a copy.
AskHistory ==
    history' = IF Admitted("history") /\ Cardinality(history) < MaxAnswers
               THEN history \cup {core}
               ELSE history

(* postSendDM, whose answer makes the plugin ask for the history, the POST  *)
(* of handleDMRead, and the rest.                                           *)
Serve(c) ==
    /\ c \in served
    /\ served' = served \ {c}
    /\ marks' = IF c.op = "read" THEN Marked(c) ELSE marks
    /\ IF c.text # None THEN AskHistory ELSE UNCHANGED history
    /\ UNCHANGED <<hostVars, core, ui, markCall, okundu, file, tell, bounds, calm>>

\* The GET of handleDMRead.
AnswerMarks ==
    /\ markCall = Asked /\ Admitted("marks")
    /\ markCall' = [at |-> "answered", in |-> marks]
    /\ UNCHANGED <<hostVars, serverVars, ui, history, okundu, file, tell, bounds, calm>>
-----------------------------------------------------------------------------
(* The plugin                                                               *)

(* okunduIsaretle: what the open conversation shows was read.               *)
Shown(u, read) ==
    IF u.focus = None THEN read ELSE [read EXCEPT ![u.focus] = Bigger(@, u.in[u.focus])]

\* Mutant of Saved: no file where AND keeps the marks.
SavedByAnd(u, read) == IF read # Shown(u, read) /\ ~u.coreMarks THEN Shown(u, read) ELSE file

Saved(u, read) == IF read # Shown(u, read) THEN Shown(u, read) ELSE file

MarkShown(u, read, report) ==
    LET new == Shown(u, read) IN
    /\ ui' = u
    /\ okundu' = new
    /\ file' = Saved(u, read)
    /\ tell' = [p \in Peers |-> IF new[p] > read[p] /\ u.coreMarks THEN new[p] ELSE report[p]]

\* gecmisMsg: whatever the order in which the answers come.
ApplyHistory(h) ==
    /\ history' = history \ {h}
    /\ MarkShown([ui EXCEPT !.in = h], okundu, tell)
    /\ UNCHANGED <<hostVars, serverVars, markCall, bounds, calm>>

\* Mutant of Unreported: only what is read from now on is reported.
NothingReported(read, theirs) == Zero

Unreported(read, theirs) == [p \in Peers |-> IF read[p] > theirs[p] THEN read[p] ELSE 0]

\* okunduMsg
ApplyMarks ==
    LET read == AtLeast(okundu, markCall.in) IN
    /\ markCall.at = "answered"
    /\ markCall' = Idle
    /\ MarkShown([ui EXCEPT !.coreMarks = TRUE], read,
                 AtLeast(tell, Unreported(read, markCall.in)))
    /\ UNCHANGED <<hostVars, serverVars, history, bounds, calm>>

(* tikMsg: the history again, and the marks to report, which are forgotten. *)
Tick ==
    /\ screen = "plugin"
    /\ AskHistory
    /\ Admit({Call("read", p, None, tell[p]) : p \in {q \in Peers : tell[q] > 0}})
    /\ tell' = Zero
    /\ UNCHANGED <<hostVars, core, marks, ui, markCall, okundu, file, bounds, calm>>

\* konusmaAc
OpenTalk(p) ==
    /\ screen = "plugin" /\ ui.focus # p
    /\ MarkShown([ui EXCEPT !.focus = p], okundu, tell)
    /\ UNCHANGED <<hostVars, serverVars, history, markCall, bounds, calm>>

CloseTalk ==
    /\ screen = "plugin" /\ ui.focus # None
    /\ ui' = [ui EXCEPT !.focus = None]
    /\ UNCHANGED <<hostVars, serverVars, history, markCall, okundu, file, tell, bounds, calm>>

\* Enter: whatever the box holds, an earlier text or one written now, goes to
\* the conversation that is open.
Enter ==
    LET text == IF ui.box = None THEN ui.focus ELSE ui.box IN
    /\ ui.focus # None
    /\ calls < MaxCalls /\ calls' = calls + 1
    /\ Admit({Call("send", ui.focus, text, calls)})
    /\ ui' = [ui EXCEPT !.box = None]
    /\ UNCHANGED <<hostVars, core, marks, history, markCall, okundu, file, tell, turns, calm>>

CallOther(op) ==
    /\ screen = "plugin"
    /\ calls < MaxCalls /\ calls' = calls + 1
    /\ Admit({Call(op, None, None, 0)})
    /\ UNCHANGED <<hostVars, core, marks, pluginVars, turns, calm>>

(* A call fails on its way or in its handler; nothing is asked again because *)
(* of it.  gonderildiMsg with an error: the text returns to the box if that  *)
(* is empty.                                                                 *)
Fail(c) ==
    /\ c \in served /\ ~calm
    /\ served' = served \ {c}
    /\ ui' = IF c.text # None /\ ui.box = None
             THEN [ui EXCEPT !.box = c.text]
             ELSE ui
    /\ UNCHANGED <<hostVars, core, marks, history, markCall, okundu, file, tell, bounds, calm>>

HistoryFails(h) ==
    /\ ~calm
    /\ history' = history \ {h}
    /\ UNCHANGED <<hostVars, serverVars, ui, markCall, okundu, file, tell, bounds, calm>>

MarksFail ==
    /\ markCall # Idle /\ ~calm
    /\ markCall' = Idle
    /\ UNCHANGED <<hostVars, serverVars, ui, history, okundu, file, tell, bounds, calm>>
-----------------------------------------------------------------------------
Next ==
    \/ Open \/ Approve \/ Decline \/ Revoke \/ Toggle \/ Exit \/ Restart \/ CalmDown
    \/ \E p \in Peers : Receive(p) \/ OpenTalk(p)
    \/ \E c \in served : Serve(c) \/ Fail(c)
    \/ AnswerMarks \/ ApplyMarks \/ Tick \/ CloseTalk \/ Enter
    \/ \E op \in Others : CallOther(op)
    \/ \E h \in history : ApplyHistory(h) \/ HistoryFails(h)
    \/ MarksFail

Spec == Init /\ [][Next]_vars

(* The server serves, the plugin's loop handles what comes and its tick is  *)
(* a timer; a calm user opens the plugin and agrees to what it asks for.    *)
FairSpec ==
    /\ Spec
    /\ WF_vars(calm /\ (Open \/ Approve)) /\ WF_vars(Tick)
    /\ WF_vars(\E h \in history : ApplyHistory(h)) /\ WF_vars(AnswerMarks \/ ApplyMarks)
    /\ WF_vars(\E c \in served : Serve(c))
-----------------------------------------------------------------------------
Counts == [Peers -> Nat]
Calls == [op : {"send", "read"} \cup Others, peer : Peers \cup {None},
          text : Peers \cup {None}, n : Nat]
Screens == [in : Counts, focus : Peers \cup {None}, box : Peers \cup {None},
            coreMarks : BOOLEAN]

TypeOK ==
    /\ screen \in {"menu", "ask", "plugin"} /\ enabled \in BOOLEAN
    /\ approved \subseteq Perms /\ wants \subseteq Perms /\ keys \subseteq SUBSET Perms
    /\ served \subseteq Calls
    /\ core \in Counts /\ marks \in Counts
    /\ ui \in Screens /\ history \subseteq Counts
    /\ markCall \in [at : {"idle", "asked", "answered"}, in : Counts]
    /\ okundu \in Counts /\ file \in Counts /\ tell \in Counts
    /\ calls \in Nat

(* A key is live only while the plugin runs, and what the plugin may do,    *)
(* including what calls of its last run still do, the user has approved: an *)
(* update that wants more asks again, a revocation leaves no key behind.    *)
Entitled ==
    /\ TypeOK
    /\ keys # {} => screen = "plugin"
    /\ UNION keys \subseteq approved
    /\ screen = "plugin" => \A c \in served : Permits(approved, c.op)

(* AND never counts as read what the plugin has not noted as read in its    *)
(* own file first: losing the report is then repaired at the next start.    *)
NotedFirst ==
    /\ \A c \in served : c.op = "read" => c.n <= file[c.peer]
    /\ \A p \in Peers : marks[p] <= file[p] /\ file[p] <= core[p]

(* What was read stays read, in the plugin's file and in AND's badge,       *)
(* although histories and reports may arrive in any order.                  *)
ReadStaysRead ==
    [][\A p \in Peers : file'[p] >= file[p] /\ marks'[p] >= marks[p]]_vars

InStep ==
    /\ ui.in = core
    /\ marks = file /\ okundu = file
    /\ ui.focus # None => marks[ui.focus] = core[ui.focus]

(* If from some start on nothing fails, the plugin shows every message, and *)
(* AND's badge agrees with what was read, also for marks whose report was   *)
(* lost in an earlier run.                                                  *)
ComesInStep == [](calm => <>[]InStep)

\* Refuted by TLC.  "yazilan kaybolmasin" (model.go:447) puts a text that could
\* not be sent back into the box, where it goes to the conversation open now.
RightRecipient == \A c \in served : c.text # None => c.text = c.peer
=============================================================================
