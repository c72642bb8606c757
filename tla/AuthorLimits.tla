---------------------------- MODULE AuthorLimits ----------------------------
(***************************************************************************)
(* The limits each node puts on the authors it hears from: forum's         *)
(* rateLimiter (internal/forum/ratelimit.go) and the same code in          *)
(* chatlog.Store.  Sliding windows per author and for the whole network,   *)
(* tighter limits for new identities, violations that add up to a local    *)
(* mute, mutes that grow, repeated texts, and the file that has to carry   *)
(* all of it over a restart.                                               *)
(*                                                                         *)
(* One handler runs at a time (the topic's), so a message is one step.     *)
(* Time is a counter that starts at 1; 0 is Go's zero time.                *)
(***************************************************************************)
EXTENDS Naturals, Sequences, FiniteSets, Filters

CONSTANTS
    Authors,            \* author keys
    Kinds,              \* what is counted: messages, topics, replies, deletions
    Rule,               \* [Kinds -> Rules], the limits of each kind
    Texts,              \* normalised texts
    Window,             \* rlWindow, one hour
    Grace,              \* newIdentityGracePeriod
    CooldownFactor,     \* newIdentityCooldownMultiplier
    ViolationWindow, Threshold,   \* muteViolationWindow, muteViolationThreshold
    MuteBase, MuteCap, Decay,     \* muteDuration, muteDurationCap, muteCountDecay
    DupWindow,          \* dupWindow
    MaxTime             \* bound on the clock of the model

\* newMax and cooldown bind only where the kind has them (deletions do not);
\* text: whether the repeats of a text are counted; global: the network's limit.
Rules == [max : Nat, newMax : Nat, cooldown : Nat, global : Nat, text : BOOLEAN]

ASSUME RuleAssumption == Rule \in [Kinds -> Rules]

\* A new identity is never allowed more than a known one.
ASSUME LimitsAssumption ==
    /\ {Window, Grace, CooldownFactor, ViolationWindow, Threshold, Decay, DupWindow} \subseteq Nat
    /\ {MuteBase, MuteCap, MaxTime} \subseteq Nat \ {0}
    /\ \A k \in Kinds : Rule[k].newMax <= Rule[k].max

VARIABLES
    now,        \* the clock
    bucket,     \* rl.authors: an author's state, or None
    global,     \* globalTimes by kind
    dirty,      \* memory is ahead of the file
    file,       \* forum_rates.json, chat_rates.json
    taken,      \* history: when each author was let through
    first,      \* history: when each author was first seen
    sentence    \* history: the last mute of each author

limitsVars == <<now, bucket, global, dirty, file, taken, first, sentence>>
-----------------------------------------------------------------------------
None == [none |-> TRUE]

NoTimes == [k \in Kinds |-> <<>>]

Unsaid == [t \in Texts |-> [count |-> 0, at |-> 0]]

NewBucket == [times |-> NoTimes, seen |-> now, violations |-> <<>>, mutedUntil |-> 0,
              muteCount |-> 0, lastMute |-> 0, said |-> Unsaid]

Bucket(a) == IF bucket[a] = None THEN NewBucket ELSE bucket[a]

KeepAfter(times, age) == AtPositions(times, {i \in DOMAIN times : times[i] + age > now})

Muted(a) == bucket[a] # None /\ bucket[a].mutedUntil > now

IsNew(b) == b.seen # 0 /\ now < b.seen + Grace

LimitsInit ==
    /\ now = 1
    /\ bucket = [a \in Authors |-> None]
    /\ global = NoTimes
    /\ dirty = FALSE
    /\ file = [a \in Authors |-> None]
    /\ taken = [a \in Authors |-> NoTimes]
    /\ first = [a \in Authors |-> 0]
    /\ sentence = [a \in Authors |-> [at |-> 0, length |-> 0]]
-----------------------------------------------------------------------------
(* allow, allowPost, allowReply, allowDelete: the network's window first,   *)
(* then the author's, then the pause since the last one.                    *)
Limit(b, k) == IF IsNew(b) THEN Rule[k].newMax ELSE Rule[k].max

Pause(b, k) == IF IsNew(b) THEN Rule[k].cooldown * CooldownFactor ELSE Rule[k].cooldown

Allowed(b, k) ==
    LET times == KeepAfter(b.times[k], Window) IN
    /\ Len(KeepAfter(global[k], Window)) < Rule[k].global
    /\ Len(times) < Limit(b, k)
    /\ times # <<>> => now >= times[Len(times)] + Pause(b, k)

Charged(b, k) == [b EXCEPT !.times[k] = Append(KeepAfter(@, Window), now)]

\* recordViolation: the mute grows with every mute, up to the cap, and is
\* forgotten after Decay without one.
Mutes(b) ==
    LET count == IF b.lastMute # 0 /\ now > b.lastMute + Decay THEN 1 ELSE b.muteCount + 1
    IN  [length |-> IF MuteBase * count > MuteCap THEN MuteCap ELSE MuteBase * count,
         count |-> count]

Blamed(b) == [b EXCEPT !.violations = Append(KeepAfter(@, ViolationWindow), now)]

Punished(b) == [Blamed(b) EXCEPT !.mutedUntil = now + Mutes(b).length,
                                 !.muteCount = Mutes(b).count,
                                 !.lastMute = now]

MuteDue(b) == Len(Blamed(b).violations) >= Threshold /\ b.mutedUntil <= now

\* isDuplicate: the count of a text starts again DupWindow after its last use.
Fresh(b) == [t \in Texts |-> IF now > b.said[t].at + DupWindow THEN Unsaid[t] ELSE b.said[t]]

Said(b, t) == [b EXCEPT !.said = [Fresh(b) EXCEPT ![t].count = @ + 1, ![t].at = now]]
-----------------------------------------------------------------------------
See(a) == first' = [first EXCEPT ![a] = IF @ = 0 THEN now ELSE @]

(* A message let through: its place in the windows is taken even if it is   *)
(* then dropped as a repetition (isDuplicate).                           *)
Accept(a, k, t) ==
    /\ ~Muted(a)
    /\ Allowed(Bucket(a), k)
    /\ LET b == Charged(Bucket(a), k) IN
       bucket' = [bucket EXCEPT ![a] = IF Rule[k].text THEN Said(b, t) ELSE b]
    /\ global' = [global EXCEPT ![k] = Append(KeepAfter(@, Window), now)]
    /\ taken' = [taken EXCEPT ![a][k] = Append(KeepAfter(@, Window), now)]
    /\ dirty' = TRUE
    /\ See(a)
    /\ UNCHANGED <<now, file, sentence>>

(* A message over a limit: a violation, and a mute when they add up.        *)
Reject(a, k) ==
    LET b == Bucket(a) IN
    /\ ~Muted(a)
    /\ ~Allowed(b, k)
    /\ IF MuteDue(b)
       THEN /\ bucket' = [bucket EXCEPT ![a] = Punished(b)]
            /\ sentence' = [sentence EXCEPT ![a] = [at |-> now, length |-> Mutes(b).length]]
       ELSE /\ bucket' = [bucket EXCEPT ![a] = Blamed(b)]
            /\ UNCHANGED sentence
    /\ dirty' = TRUE
    /\ See(a)
    /\ UNCHANGED <<now, global, file, taken>>

LimitsTick ==
    /\ now < MaxTime
    /\ now' = now + 1
    /\ UNCHANGED <<bucket, global, dirty, file, taken, first, sentence>>
-----------------------------------------------------------------------------
(* The file                                                                 *)

\* Mutant of Pruned: the shorter window of the violations is used for all.
PrunedByPause(b) == [b EXCEPT !.times = [k \in Kinds |-> KeepAfter(@[k], ViolationWindow)],
                              !.violations = KeepAfter(@, ViolationWindow),
                              !.mutedUntil = IF @ > now THEN @ ELSE 0,
                              !.said = Fresh(b)]

\* pruneBucket: what is still in force.
Pruned(b) == [b EXCEPT !.times = [k \in Kinds |-> KeepAfter(@[k], Window)],
                       !.violations = KeepAfter(@, ViolationWindow),
                       !.mutedUntil = IF @ > now THEN @ ELSE 0,
                       !.said = Fresh(b)]

MuteHistory(b) == b.muteCount > 0 /\ b.lastMute # 0 /\ now <= b.lastMute + Decay

\* Mutant of BucketEmpty: an author without current entries is forgotten.
EmptyWhenQuiet(b) == b.times = NoTimes /\ b.violations = <<>> /\ b.mutedUntil = 0 /\ b.said = Unsaid

BucketEmpty(b) ==
    /\ b.times = NoTimes /\ b.violations = <<>>
    /\ b.mutedUntil = 0 /\ b.said = Unsaid
    /\ ~MuteHistory(b)

Kept(b) == IF b = None \/ BucketEmpty(Pruned(b)) THEN None ELSE Pruned(b)

Saved == [a \in Authors |-> Kept(bucket[a])]

Save ==
    /\ dirty
    /\ dirty' = FALSE
    /\ file' = Saved
    /\ UNCHANGED <<now, bucket, global, taken, first, sentence>>

\* Start-up reads the file; the windows of the whole network start empty.
Load(f) ==
    /\ bucket' = [a \in Authors |-> Kept(f[a])]
    /\ global' = NoTimes
    /\ dirty' = FALSE

(* The context ends, saveLoop saves once more, and the program starts again.*)
Restart ==
    LET f == IF dirty THEN Saved ELSE file IN
    /\ file' = f
    /\ Load(f)
    /\ UNCHANGED <<now, taken, first, sentence>>

(* The program ends without the last save: what came since the last one     *)
(* (30 seconds at most) is not held against the author.                     *)
Crash ==
    /\ Load(file)
    /\ taken' = [a \in Authors |-> IF file[a] = None THEN NoTimes ELSE file[a].times]
    /\ first' = [a \in Authors |-> IF file[a] = None THEN 0 ELSE file[a].seen]
    /\ sentence' = [a \in Authors |->
                      IF file[a] = None THEN [at |-> 0, length |-> 0]
                      ELSE [at |-> file[a].lastMute,
                            length |-> IF file[a].lastMute = sentence[a].at
                                       THEN sentence[a].length ELSE 0]]
    /\ UNCHANGED <<now, file>>

LimitsNext ==
    \/ \E a \in Authors, k \in Kinds, t \in Texts : Accept(a, k, t)
    \/ \E a \in Authors, k \in Kinds : Reject(a, k)
    \/ LimitsTick \/ Save \/ Restart \/ Crash

LimitsSpec == LimitsInit /\ [][LimitsNext]_limitsVars
-----------------------------------------------------------------------------
TimesOK(ts) == \A i \in 1..Len(ts) : ts[i] \in 1..now /\ (i > 1 => ts[i - 1] <= ts[i])

BucketOK(b) ==
    /\ \A k \in Kinds : TimesOK(b.times[k]) /\ Len(b.times[k]) <= Rule[k].max
    /\ TimesOK(b.violations)
    /\ b.seen \in 0..now /\ b.lastMute \in 0..now
    /\ b.mutedUntil <= b.lastMute + MuteCap

LimitsTypeOK ==
    /\ now \in 1..MaxTime /\ dirty \in BOOLEAN
    /\ \A a \in Authors : /\ bucket[a] # None => BucketOK(bucket[a])
                          /\ file[a] # None => BucketOK(file[a])

(* Of each author no more than the limit is let through in any window,      *)
(* however often the node is stopped and started in between.  (chatlog.go   *)
(* 82-90 and the file of saveRates.)                                        *)
WindowBound ==
    /\ LimitsTypeOK
    /\ \A a \in Authors, k \in Kinds : Len(KeepAfter(taken[a][k], Window)) <= Rule[k].max

(* Who is muted again within Decay of the last mute is muted for longer, up *)
(* to the cap, over restarts too, and a mute in force is never shortened.   *)
MutesGrow ==
    [][\A a \in Authors :
         /\ sentence'[a].at > sentence[a].at /\ sentence[a].length > 0
              /\ now <= sentence[a].at + Decay
            => sentence'[a].length >= sentence[a].length
                 /\ (sentence[a].length < MuteCap => sentence'[a].length > sentence[a].length)
         /\ sentence'[a] = sentence[a] /\ sentence[a].at + sentence[a].length > now'
            => Muted(a)']_limitsVars

(* "Persisted so a restart doesn't make every known author look new again"  *)
(* (chatlog.go:149-151).                                                    *)
KnownStaysKnown == \A a \in Authors : bucket[a] # None => bucket[a].seen = first[a]
=============================================================================
