------------------------------ MODULE Profiles ------------------------------
(***************************************************************************)
(* Profiles (internal/profile).  Every publication replaces the author's   *)
(* whole profile, and on the author's node three kinds of goroutines       *)
(* publish side by side, each from what it read of the stored profile: the *)
(* start-up republication, the saves of the settings screen and the GitHub *)
(* link.  Profiles travel over a gossip topic only, which loses, repeats   *)
(* and reorders them; nothing synchronises them later.                     *)
(*                                                                         *)
(* A copy of a profile is known by its UpdatedAt, which is its place among *)
(* its author's publications; signed holds what each of them says.         *)
(* Signatures, moderator certificates, byte limits and the shape of tags   *)
(* and user names are left out, and no clock runs ahead of another.        *)
(***************************************************************************)
EXTENDS Integers, FiniteSets, Sequences

CONSTANTS
    Nodes, Authors,
    Key,          \* the identity of each node
    Editors,      \* nodes whose user edits (bound)
    Savers,       \* goroutines that carry out saves (bound: how many live at once)
    Fields, Texts,   \* fields of the settings screen and what is typed in them
    Names,        \* GitHub user names
    MaxNew,       \* maxNewAuthorsPerHour
    MaxStored,    \* maxStoredProfiles
    MaxSigned,    \* bound: publications, of all authors together (MoreToSign)
    Restarts      \* bound: restarts of nodes

Empty == "empty"      \* the empty text, and no user name

ASSUME ProfilesAssumption ==
    /\ Key \in [Nodes -> Authors]
    /\ \A n, m \in Nodes : Key[n] = Key[m] => n = m
    /\ Editors \subseteq Nodes /\ Empty \in Texts \ Names /\ "none" \notin Texts
    /\ Savers \cap {"start", "link"} = {}
    /\ {MaxNew, MaxStored, MaxSigned} \subseteq Nat \ {0} /\ Restarts \in Nat

Threads == Savers \cup {"start", "link"}

VARIABLES
    signed,       \* each author's publications
    net,          \* what has been announced on the topic
    mem,          \* s.profiles: UpdatedAt of the copy each node holds, 0 for none
    row,          \* the table profiles
    recent,       \* s.lastSeen: authors accepted less than minRepublishInterval ago
    newcomers,    \* s.newAuthorTimes
    handling,     \* the profile the topic's handler is at, and where
    job,          \* the publication each goroutine of the node is at, and where
    form,         \* the settings screen's inputs while a field is edited
    linking,      \* githubLinking
    wanted,       \* what the user was last told is published, if nothing can
                  \* have cost an edit (history)
    restarts

storeVars == <<mem, row, recent, newcomers>>
userVars == <<form, linking, wanted>>
profileVars == <<signed, net, storeVars, handling, job, userVars, restarts>>

NoText == [f \in Fields |-> Empty]
Blank == [text |-> NoText, github |-> Empty]
NoForm == [f \in Fields |-> "none"]

Unsure == [text |-> NoForm, github |-> Empty]

\* A publication: what it is to say, until it is signed; then its UpdatedAt; and
\* the field its author edited.
NoJob == [pc |-> "idle", text |-> NoText, github |-> Empty, at |-> 0, edit |-> "none"]
AtRest == [pc |-> "idle", author |-> "none", at |-> 0]

\* Get: the node's own stored profile.
Own(n) == IF mem[n][Key[n]] = 0 THEN Blank ELSE signed[Key[n]][mem[n][Key[n]]]

\* Every publication, by its author and its place.
Published == {p \in Authors \X (1..MaxSigned) : p[2] \in DOMAIN signed[p[1]]}

MoreToSign == Cardinality(Published) < MaxSigned

Known(n) == {a \in Authors : mem[n][a] # 0}

\* The publications that have read the stored profile and not yet replaced it.
Underway(n) == {t \in Threads : job[n][t].pc \in {"sign", "persist", "upsert"}}

Spoil(n, what) == wanted' = [wanted EXCEPT ![n] = IF what THEN Unsure ELSE @]

\* Reading while another publication is under way may read what it replaces.
Overlap(n) == Underway(n) # {}

AtStart == [t \in Threads |-> IF t = "start" THEN [NoJob EXCEPT !.pc = "wait"] ELSE NoJob]

ProfileInit ==
    /\ signed = [a \in Authors |-> <<>>] /\ net = {}
    /\ mem = [n \in Nodes |-> [a \in Authors |-> 0]] /\ row = mem
    /\ recent = [n \in Nodes |-> {}] /\ newcomers = [n \in Nodes |-> 0]
    /\ handling = [n \in Nodes |-> AtRest]
    /\ job = [n \in Nodes |-> AtStart]
    /\ form = [n \in Nodes |-> NoForm] /\ linking = [n \in Nodes |-> FALSE]
    /\ wanted = [n \in Nodes |-> Blank]
    /\ restarts = 0

-----------------------------------------------------------------------------
(* Receiving. *)

\* Run: the topic delivers anything ever announced, but not a node's own.
Deliver(n, m) ==
    /\ m \in net /\ m.author # Key[n] /\ handling[n].pc = "idle"
    /\ handling' = [handling EXCEPT ![n] = [pc |-> "handle", author |-> m.author, at |-> m.at]]
    /\ UNCHANGED <<signed, net, storeVars, job, userVars, restarts>>

\* handleMessage's refusals: no newer, too soon, or one new author too many.
Refused(n) ==
    LET a == handling[n].author
    IN  \/ handling[n].at <= mem[n][a]
        \/ a \in recent[n]
        \/ a \notin Known(n) /\ (newcomers[n] >= MaxNew \/ Cardinality(Known(n)) >= MaxStored)

\* handleMessage up to its Unlock; persist takes the lock again.
Handle(n) ==
    LET a == handling[n].author
    IN  /\ handling[n].pc = "handle"
        /\ \/ /\ Refused(n)
              /\ handling' = [handling EXCEPT ![n] = AtRest]
              /\ UNCHANGED <<recent, newcomers>>
           \/ /\ ~Refused(n)
              /\ handling' = [handling EXCEPT ![n].pc = "persist"]
              /\ recent' = [recent EXCEPT ![n] = @ \cup {a}]
              /\ newcomers' = [newcomers EXCEPT ![n] = IF a \in Known(n) THEN @ ELSE @ + 1]
        /\ UNCHANGED <<signed, net, mem, row, job, userVars, restarts>>

\* Mutant of Newest: what comes last wins.
Latest(n, a, at) == mem' = [mem EXCEPT ![n][a] = at]

\* persist, under its lock: the newest wins.
Newest(n, a, at) == mem' = [mem EXCEPT ![n][a] = IF at > @ THEN at ELSE @]

\* persist goes on to the table only if it replaced the copy in memory.
PersistReceived(n) ==
    LET h == handling[n]
    IN  /\ h.pc = "persist"
        /\ Newest(n, h.author, h.at)
        /\ handling' = [handling EXCEPT ![n] =
                IF h.at > mem[n][h.author] THEN [h EXCEPT !.pc = "upsert"] ELSE AtRest]
        /\ UNCHANGED <<signed, net, row, recent, newcomers, job, userVars, restarts>>

\* UpsertProfile does not compare versions.
UpsertReceived(n) ==
    LET h == handling[n]
    IN  /\ h.pc = "upsert"
        /\ row' = [row EXCEPT ![n][h.author] = h.at]
        /\ handling' = [handling EXCEPT ![n] = AtRest]
        /\ UNCHANGED <<signed, net, mem, recent, newcomers, job, userVars, restarts>>

\* minRepublishInterval passes, or the hour.
TimePasses(n) ==
    /\ recent[n] # {} \/ newcomers[n] # 0
    /\ recent' = [recent EXCEPT ![n] = {}]
    /\ newcomers' \in {newcomers, [newcomers EXCEPT ![n] = 0]}
    /\ UNCHANGED <<signed, net, mem, row, handling, job, userVars, restarts>>

-----------------------------------------------------------------------------
(* What a node publishes of its own: PublishOwn. *)

SetJob(n, t, j) == job' = [job EXCEPT ![n][t] = j]

\* UpdatedAt is the time of signing, and the last thing to stop a publication is
\* the end of its context.
Sign(n, t) ==
    LET j == job[n][t]  a == Key[n]
    IN  /\ j.pc = "sign"
        /\ \/ /\ t = "link" /\ ~linking[n]
              /\ SetJob(n, t, NoJob)
              /\ UNCHANGED signed
           \/ /\ t = "link" => linking[n]
              /\ MoreToSign
              /\ signed' = [signed EXCEPT ![a] = Append(@, [text |-> j.text, github |-> j.github])]
              /\ SetJob(n, t, [NoJob EXCEPT !.pc = "persist", !.at = Len(signed[a]) + 1, !.edit = j.edit])
        /\ UNCHANGED <<net, storeVars, handling, userVars, restarts>>

\* What the user is told is published once t has published it.
Told(n, t, new, edit) ==
    IF wanted[n] = Unsure \/ (t = "link" /\ ~linking[n]) THEN Unsure
    ELSE CASE t \in Savers -> [wanted[n] EXCEPT !.text[edit] = new.text[edit]]
           [] t = "link"   -> [wanted[n] EXCEPT !.github = new.github]
           [] t = "start"  -> wanted[n]

\* persist; an older copy is dropped without a word to the caller.
Persist(n, t) ==
    LET j == job[n][t]  a == Key[n]  new == signed[a][j.at]
    IN  /\ j.pc = "persist"
        /\ Newest(n, a, j.at)
        /\ SetJob(n, t, [j EXCEPT !.pc = IF j.at > mem[n][a] THEN "upsert" ELSE "announce"])
        /\ wanted' = [wanted EXCEPT ![n] = Told(n, t, new, j.edit)]
        /\ UNCHANGED <<signed, net, row, recent, newcomers, handling, form, linking, restarts>>

\* UpsertProfile; its error is ignored.
Upsert(n, t) ==
    /\ job[n][t].pc = "upsert"
    /\ \/ row' = [row EXCEPT ![n][Key[n]] = job[n][t].at] /\ UNCHANGED wanted
       \/ Spoil(n, TRUE) /\ UNCHANGED row
    /\ SetJob(n, t, [job[n][t] EXCEPT !.pc = "announce"])
    /\ UNCHANGED <<signed, net, mem, recent, newcomers, handling, form, linking, restarts>>

\* Topic.Publish; for the link, githubLinkedMsg ends the flow.
Announce(n, t) ==
    /\ job[n][t].pc = "announce"
    /\ net' = net \cup {[author |-> Key[n], at |-> job[n][t].at]}
    /\ SetJob(n, t, NoJob)
    /\ linking' = [linking EXCEPT ![n] = @ /\ t # "link"]
    /\ UNCHANGED <<signed, storeVars, handling, form, wanted, restarts>>

-----------------------------------------------------------------------------
(* Who publishes. *)

\* Five seconds after the start the stored profile, if any, is published again.
Republish(n) ==
    /\ job[n]["start"].pc = "wait"
    /\ \/ /\ mem[n][Key[n]] = 0
          /\ SetJob(n, "start", NoJob)
          /\ UNCHANGED wanted
       \/ /\ mem[n][Key[n]] # 0
          /\ Spoil(n, Overlap(n))
          /\ SetJob(n, "start", [NoJob EXCEPT !.pc = "sign", !.text = Own(n).text, !.github = Own(n).github])
    /\ UNCHANGED <<signed, net, storeVars, handling, form, linking, restarts>>

\* enterProfileEdit: every input is filled from the stored profile.
Edit(n) ==
    /\ n \in Editors /\ form[n] = NoForm /\ ~linking[n]
    /\ form' = [form EXCEPT ![n] = Own(n).text]
    /\ Spoil(n, Savers \cap Underway(n) # {})
    /\ UNCHANGED <<signed, net, storeVars, handling, job, linking, restarts>>

\* Esc.
Leave(n) ==
    /\ form[n] # NoForm
    /\ form' = [form EXCEPT ![n] = NoForm]
    /\ UNCHANGED <<signed, net, storeVars, handling, job, linking, wanted, restarts>>

\* Mutant of Carried: a save leaves the link out.
CarriedText(n) == Empty

\* What a save takes over from the stored profile beside the inputs.
Carried(n) == Own(n).github

\* savePublishedProfile: the inputs as the user left them, and the linked name.
SaveForm(n, s, f, x) ==
    /\ form[n] # NoForm /\ job[n][s].pc = "idle"
    /\ form' = [form EXCEPT ![n] = NoForm]
    /\ Spoil(n, Overlap(n))
    /\ SetJob(n, s, [pc |-> "sign", text |-> [form[n] EXCEPT ![f] = x],
                     github |-> Carried(n), at |-> 0, edit |-> f])
    /\ UNCHANGED <<signed, net, storeVars, handling, linking, restarts>>

\* startGitHubLink.  (githubLinkCooldown outlasts a cancelled flow.)
Link(n) ==
    /\ n \in Editors /\ form[n] = NoForm /\ ~linking[n] /\ job[n]["link"].pc = "idle"
    /\ linking' = [linking EXCEPT ![n] = TRUE]
    /\ SetJob(n, "link", [NoJob EXCEPT !.pc = "poll"])
    /\ UNCHANGED <<signed, net, storeVars, handling, form, wanted, restarts>>

\* RequestDeviceCode, PollForToken and FetchUsername fail, the code runs out, or
\* the context has ended.
LinkFails(n) ==
    /\ job[n]["link"].pc = "poll"
    /\ SetJob(n, "link", NoJob)
    /\ linking' = [linking EXCEPT ![n] = FALSE]
    /\ UNCHANGED <<signed, net, storeVars, handling, form, wanted, restarts>>

\* They succeed, and the rest is taken from the stored profile.
Linked(n, name) ==
    /\ job[n]["link"].pc = "poll" /\ linking[n]
    /\ Spoil(n, Overlap(n))
    /\ SetJob(n, "link", [NoJob EXCEPT !.pc = "sign", !.text = Own(n).text, !.github = name])
    /\ UNCHANGED <<signed, net, storeVars, handling, form, linking, restarts>>

\* Esc: the context ends, and the user is told that nothing was linked.
CancelLink(n) ==
    /\ linking[n]
    /\ linking' = [linking EXCEPT ![n] = FALSE]
    /\ Spoil(n, job[n]["link"].pc \in {"upsert", "announce"})
    /\ UNCHANGED <<signed, net, storeVars, handling, job, form, restarts>>

-----------------------------------------------------------------------------
(* Restarts, and the rest of the network. *)

\* The process ends, wherever its goroutines are, and starts again: load reads
\* the table.  Only a publication under way may go with it.
RestartNode(n) ==
    /\ restarts < Restarts
    /\ restarts' = restarts + 1
    /\ mem' = [mem EXCEPT ![n] = row[n]]
    /\ recent' = [recent EXCEPT ![n] = {}] /\ newcomers' = [newcomers EXCEPT ![n] = 0]
    /\ handling' = [handling EXCEPT ![n] = AtRest]
    /\ job' = [job EXCEPT ![n] = AtStart]
    /\ form' = [form EXCEPT ![n] = NoForm] /\ linking' = [linking EXCEPT ![n] = FALSE]
    /\ Spoil(n, Overlap(n))
    /\ UNCHANGED <<signed, net, row>>

\* An author whose node is not modelled.
Outsider(a) ==
    /\ a \notin {Key[n] : n \in Nodes} /\ MoreToSign
    /\ signed' = [signed EXCEPT ![a] = Append(@, Blank)]
    /\ net' = net \cup {[author |-> a, at |-> Len(signed[a]) + 1]}
    /\ UNCHANGED <<storeVars, handling, job, userVars, restarts>>

-----------------------------------------------------------------------------
TakeProfiles(n) ==
    \/ \E m \in net : Deliver(n, m)
    \/ Handle(n)
    \/ PersistReceived(n)
    \/ UpsertReceived(n)
    \/ TimePasses(n)

PublishOwn(n, t) == Sign(n, t) \/ Persist(n, t) \/ Upsert(n, t) \/ Announce(n, t)

User(n) ==
    \/ Edit(n)
    \/ Leave(n)
    \/ \E s \in Savers, f \in Fields, x \in Texts : SaveForm(n, s, f, x)
    \/ Link(n)
    \/ LinkFails(n)
    \/ \E name \in Names : Linked(n, name)
    \/ CancelLink(n)

ProfileNext ==
    \/ \E n \in Nodes : TakeProfiles(n) \/ Republish(n) \/ User(n) \/ RestartNode(n)
    \/ \E n \in Nodes, t \in Threads : PublishOwn(n, t)
    \/ \E a \in Authors : Outsider(a)

ProfileSpec == ProfileInit /\ [][ProfileNext]_profileVars

-----------------------------------------------------------------------------
(* Properties. *)

Copies == [Nodes -> [Authors -> 0..MaxSigned]]
Contents == [text : [Fields -> Texts], github : Names \cup {Empty}]

ProfileTypeOK ==
    /\ \A a \in Authors : \A i \in DOMAIN signed[a] : signed[a][i] \in Contents
    /\ \A m \in net : m.at \in DOMAIN signed[m.author]
    /\ mem \in Copies /\ row \in Copies
    /\ \A n \in Nodes, a \in Authors : mem[n][a] <= Len(signed[a])
    /\ recent \in [Nodes -> SUBSET Authors] /\ newcomers \in [Nodes -> 0..MaxNew]
    /\ \A n \in Nodes : handling[n].pc \in {"idle", "handle", "persist", "upsert"}
    /\ \A n \in Nodes, t \in Threads :
           job[n][t].pc \in {"idle", "wait", "poll", "sign", "persist", "upsert", "announce"}
    /\ linking \in [Nodes -> BOOLEAN] /\ wanted \in [Nodes -> Contents \cup {Unsure}]

\* While a node runs, no copy it holds gives way to an older one, whatever order
\* profiles arrive in and however the node's own publications overlap.
NewestKept ==
    [][\A n \in Nodes, a \in Authors :
         mem'[n][a] >= mem[n][a] \/ restarts' # restarts]_profileVars

\* The node's own profile, in memory and in the table, says what the user last
\* saved and linked: replacing the whole profile costs no edit of another part,
\* over restarts too.  Not if one publication read the profile while another
\* was under way, the process ended under one, the table refused one, or a link
\* was cancelled after it was stored.
OwnKept ==
    /\ ProfileTypeOK
    /\ \A n \in Nodes : wanted[n] # Unsure /\ Underway(n) = {} =>
           Own(n) = wanted[n] /\ row[n][Key[n]] = mem[n][Key[n]]
=============================================================================
