--------------------------- MODULE LoginSessions ---------------------------
(***************************************************************************)
(* The login sessions of one user: session.service.ts, called by the       *)
(* logins and logouts of auth.service.ts and by session.middleware.ts.     *)
(*                                                                         *)
(* A session is an entry of the cache.  Beside it there are the index of   *)
(* the user's sessions, one entry that every login and logout reads,       *)
(* changes and writes back, and a blacklist entry per session that was     *)
(* destroyed.  Each of them ends by itself, and each call may fail: then   *)
(* CacheService logs it and answers as if there were nothing.              *)
(*                                                                         *)
(* The dates in an entry come back from JSON as strings.  A date is never  *)
(* after a string, so getSession never finds a session expired and never   *)
(* destroys one, and the hourly cleanup destroys nothing; sorting such     *)
(* dates throws.                                                           *)
(*                                                                         *)
(* The middleware puts the session's data into the request, and the id of  *)
(* the session beside them.  The controllers look for the id in the data,  *)
(* where it is not: logout destroys no session, and logoutFromAllDevices   *)
(* spares none.                                                            *)
(***************************************************************************)
EXTENDS Naturals, FiniteSets

CONSTANTS
    Workers,      \* requests that may be in flight
    Ids,          \* session ids
    NoId,
    Ops,          \* what clients ask for
    MaxSessions,  \* auth.maxSessionsPerUser
    MaxLosses     \* bound: how many keys the cache drops, calls of it fail and
                  \* times the process dies, taken together

ASSUME IdsAssumption == IsFiniteSet(Ids) /\ NoId \notin Ids
ASSUME LimitsAssumption ==
    MaxSessions \in Nat \ {0} /\ MaxLosses \in Nat

VARIABLES
    entry,    \* the ids that have an entry session:<id>
    index,    \* the ids in the entry user_sessions:<user>, {} when there is none
    black,    \* the ids that have an entry blacklist:<id>
    job,      \* the requests in flight
    was,      \* history: what happened to each id
    losses    \* counted against the bound

vars == <<entry, index, black, job, was, losses>>

\* What getUserSessions was called for, and where its caller goes on.
Callers == {"add", "limit", "remove", "list"}
PC == {"idle", "list", "store", "index", "look", "prune", "add", "limit",
       "owned", "find", "remove", "bar", "drop", "sweep",
       "guard", "load", "touch", "renew", "logout"}

Job == [at : PC, sid : Ids \cup {NoId}, for : Callers,
        base : SUBSET Ids,    \* the index as getUserSessions read it
        left : SUBSET Ids,    \* of it, still to be looked up
        kept : SUBSET Ids,    \* of it, found alive
        todo : SUBSET Ids,    \* destroyAllUserSessions: still to be destroyed
        seen : SUBSET Ids,    \* history: sessions there were when it began
        sweeps : BOOLEAN,     \* it is destroyAllUserSessions
        late : BOOLEAN]       \* history: it began after its session had ended
Idle == [at |-> "idle", sid |-> NoId, for |-> "list", base |-> {}, left |-> {},
         kept |-> {}, todo |-> {}, seen |-> {}, sweeps |-> FALSE, late |-> FALSE]

History ==
    [used : SUBSET Ids,         \* given to a login
     listed : SUBSET Ids,       \* put into the index by its login
     acked : SUBSET Ids,        \* told to the client
     ended : SUBSET Ids,        \* a destroySession has finished
     unlisted : SUBSET Ids,     \* a destroySession took it out of the index and
                                \* has not removed its entry yet
     raced : SUBSET Ids,        \* its entry went while touchSession held a copy
     overwritten : SUBSET Ids,  \* the index lost it to a writer that had not seen it
     forgotten : SUBSET Ids,    \* its blacklist entry expired
     failed : SUBSET Ids,       \* a call of the cache about it failed
     revived : SUBSET Ids,      \* a request that began after its end was let in
     escaped : SUBSET Ids]      \* alive after all were destroyed

TypeOK ==
    /\ entry \subseteq Ids
    /\ index \subseteq Ids
    /\ black \subseteq Ids
    /\ job \in [Workers -> Job]
    /\ was \in History
    /\ losses \in Nat

Init ==
    /\ entry = {}
    /\ index = {}
    /\ black = {}
    /\ job = [w \in Workers |-> Idle]
    /\ was = [used |-> {}, listed |-> {}, acked |-> {}, ended |-> {},
              unlisted |-> {}, raced |-> {}, overwritten |-> {}, forgotten |-> {},
              failed |-> {}, revived |-> {}, escaped |-> {}]
    /\ losses = 0

-----------------------------------------------------------------------------
(* The cache and the requests. *)

If(condition, set) == IF condition THEN set ELSE {}

Lose == losses < MaxLosses /\ losses' = losses + 1

\* A call of the cache: it may fail.
Call(ok) == IF ok THEN UNCHANGED losses ELSE Lose

Go(w, label) == job' = [job EXCEPT ![w].at = label]
Leave(w) == job' = [job EXCEPT ![w] = Idle]

\* getUserSessions begins, and what it collected is forgotten when its caller
\* has used it.
GetSessions(w, caller) == job' = [job EXCEPT ![w].at = "index", ![w].for = caller]
Cleared(w) == [job[w] EXCEPT !.for = "list", !.base = {}, !.kept = {}]

\* touchSession holds a copy of s and will write it.
Held(s) == \E w \in Workers : job[w].at = "renew" /\ job[w].sid = s

\* What the index loses when w sets it, although w never saw it there.
Unseen(w, set) == (index \ set) \ job[w].base

\* A request begins; its first await is at label.
Receive(w, op, s, label) ==
    /\ op \in Ops
    /\ job[w].at = "idle"
    /\ job' = [job EXCEPT ![w] = [Idle EXCEPT !.at = label, !.sid = s]]
    /\ UNCHANGED <<entry, index, black, losses>>

-----------------------------------------------------------------------------
(* getUserSessions: the index, its sessions one by one, and the index again *)
(* if some of them have gone.                                               *)

ReadIndex(w, ok) ==
    /\ job[w].at = "index"
    /\ Call(ok)
    /\ LET read == If(ok, index) IN
       job' = [job EXCEPT ![w].base = read, ![w].left = read, ![w].kept = {},
                          ![w].at = IF read = {} THEN job[w].for ELSE "look"]
    /\ was' = [was EXCEPT !.failed = @ \cup If(~ok, {job[w].sid} \ {NoId})]
    /\ UNCHANGED <<entry, index, black>>

\* Where getUserSessions is after its last look-up.
AfterLook(w, left, kept) ==
    CASE left # {} -> "look"
      [] left = {} /\ kept # job[w].base -> "prune"
      [] OTHER -> job[w].for

Look(w, s, ok) ==
    /\ job[w].at = "look"
    /\ s \in job[w].left
    /\ Call(ok)
    /\ LET left == job[w].left \ {s}
           kept == job[w].kept \cup If(ok /\ s \in entry, {s}) IN
       job' = [job EXCEPT ![w].left = left, ![w].kept = kept,
                          ![w].at = AfterLook(w, left, kept)]
    /\ was' = [was EXCEPT !.failed = @ \cup If(~ok, {s})]
    /\ UNCHANGED <<entry, index, black>>

Prune(w, ok) ==
    /\ job[w].at = "prune"
    /\ Call(ok)
    /\ index' = IF ok THEN job[w].kept ELSE index
    /\ was' = [was EXCEPT !.overwritten = @ \cup If(ok, Unseen(w, job[w].kept))]
    /\ Go(w, job[w].for)
    /\ UNCHANGED <<entry, black>>

\* The profile page has its list.
List(w) ==
    /\ job[w].at = "list"
    /\ Leave(w)
    /\ UNCHANGED <<entry, index, black, was, losses>>

AskList(w) == Receive(w, "list", NoId, "index") /\ UNCHANGED was

-----------------------------------------------------------------------------
(* createSession, after a password or a provider was accepted. *)

Login(w, s) ==
    /\ s \notin was.used
    /\ Receive(w, "login", s, "store")
    /\ was' = [was EXCEPT !.used = @ \cup {s}]

Store(w, ok) ==
    /\ job[w].at = "store"
    /\ Call(ok)
    /\ entry' = IF ok THEN entry \cup {job[w].sid} ELSE entry
    /\ was' = [was EXCEPT !.failed = @ \cup If(~ok, {job[w].sid})]
    /\ GetSessions(w, "add")
    /\ UNCHANGED <<index, black>>

\* addToUserSessions sets the index to the copy and the new session.
Add(w, ok) ==
    /\ job[w].at = "add"
    /\ Call(ok)
    /\ LET set == job[w].kept \cup {job[w].sid} IN
       /\ index' = IF ok THEN set ELSE index
       /\ was' = [was EXCEPT !.listed = @ \cup If(ok, {job[w].sid}),
                             !.overwritten = @ \cup If(ok, Unseen(w, set)),
                             !.failed = @ \cup If(~ok, {job[w].sid})]
    /\ job' = [job EXCEPT ![w] = [Cleared(w) EXCEPT !.at = "index", !.for = "limit"]]
    /\ UNCHANGED <<entry, black>>

\* A mutant: the session of this login is not counted.
TooManyOthers(w) == Cardinality(job[w].kept \ {job[w].sid}) > MaxSessions

\* enforceMaxSessionsPerUser: to remove the oldest it sorts dates that are
\* strings, so the login fails with its session stored.
TooMany(w) == Cardinality(job[w].kept) > MaxSessions

Limit(w) ==
    /\ job[w].at = "limit"
    /\ was' = [was EXCEPT !.acked = @ \cup If(~TooMany(w), {job[w].sid})]
    /\ Leave(w)
    /\ UNCHANGED <<entry, index, black, losses>>

-----------------------------------------------------------------------------
(* Logging out; destroySession, for one session or for each in a copy of  *)
(* the index.                                                              *)

\* logout is given no session id, so it takes away the client's cookies only.
Logout(w, s) == s \in was.acked /\ Receive(w, "logout", s, "logout") /\ UNCHANGED was

LogOut(w) ==
    /\ job[w].at = "logout"
    /\ Leave(w)
    /\ UNCHANGED <<entry, index, black, was, losses>>

\* terminateSession looks the session up before it destroys it; its id comes from
\* the list of sessions.
Terminate(w, s) == s \in was.listed /\ Receive(w, "terminate", s, "owned") /\ UNCHANGED was

Owned(w, ok) ==
    /\ job[w].at = "owned"
    /\ Call(ok)
    /\ IF ok /\ job[w].sid \in entry THEN Go(w, "find") ELSE Leave(w)
    /\ UNCHANGED <<entry, index, black, was>>

\* A session whose entry is gone is not taken out of the index.
Find(w, ok) ==
    /\ job[w].at = "find"
    /\ Call(ok)
    /\ IF ok /\ job[w].sid \in entry
       THEN GetSessions(w, "remove")
       ELSE Go(w, "bar")
    /\ was' = [was EXCEPT !.failed = @ \cup If(~ok, {job[w].sid})]
    /\ UNCHANGED <<entry, index, black>>

\* A mutant: the whole index is deleted, whatever is left of it.
RemoveAll(w, ok) ==
    /\ job[w].at = "remove"
    /\ Call(ok)
    /\ LET set == job[w].kept \ {job[w].sid} IN
       /\ index' = IF ok THEN {} ELSE index
       /\ was' = [was EXCEPT !.unlisted = @ \cup If(ok, {job[w].sid}),
                             !.overwritten = @ \cup If(ok, Unseen(w, set) \ {job[w].sid})]
    /\ job' = [job EXCEPT ![w] = [Cleared(w) EXCEPT !.at = "bar"]]
    /\ UNCHANGED <<entry, black>>

\* removeFromUserSessions; an index without sessions is deleted.
Remove(w, ok) ==
    /\ job[w].at = "remove"
    /\ Call(ok)
    /\ LET set == job[w].kept \ {job[w].sid} IN
       /\ index' = IF ok THEN set ELSE index
       /\ was' = [was EXCEPT !.unlisted = @ \cup If(ok, {job[w].sid}),
                             !.overwritten = @ \cup If(ok, Unseen(w, set) \ {job[w].sid})]
    /\ job' = [job EXCEPT ![w] = [Cleared(w) EXCEPT !.at = "bar"]]
    /\ UNCHANGED <<entry, black>>

\* A mutant: nothing is put on the blacklist.
BarNothing(w, ok) ==
    /\ job[w].at = "bar"
    /\ Call(ok)
    /\ Go(w, "drop")
    /\ UNCHANGED <<entry, index, black, was>>

Bar(w, ok) ==
    /\ job[w].at = "bar"
    /\ Call(ok)
    /\ black' = IF ok THEN black \cup {job[w].sid} ELSE black
    /\ was' = [was EXCEPT !.failed = @ \cup If(~ok, {job[w].sid})]
    /\ Go(w, "drop")
    /\ UNCHANGED <<entry, index>>

\* The next session of destroyAllUserSessions.
NextOf(w, s) == [job[w] EXCEPT !.at = "find", !.sid = s, !.todo = @ \ {s}]

\* What is still there of the sessions that all were to be destroyed, those
\* excepted that another request is about to remove.
Escaped(w) ==
    If(job[w].sweeps, (job[w].seen \cap entry') \ (was.unlisted \ {job[w].sid}))

\* A mutant: the entry stays, the blacklist is to bar it.
DropNothing(w, ok) ==
    /\ job[w].at = "drop"
    /\ Call(ok)
    /\ was' = [was EXCEPT !.ended = @ \cup {job[w].sid},
                          !.escaped = @ \cup If(job[w].todo = {},
                              (job[w].seen \cap entry) \ (was.unlisted \ {job[w].sid}))]
    /\ \/ job[w].todo = {} /\ Leave(w)
       \/ \E t \in job[w].todo : job' = [job EXCEPT ![w] = NextOf(w, t)]
    /\ UNCHANGED <<entry, index, black>>

Drop(w, ok) ==
    /\ job[w].at = "drop"
    /\ Call(ok)
    /\ LET s == job[w].sid IN
       /\ entry' = IF ok THEN entry \ {s} ELSE entry
       /\ was' = [was EXCEPT !.ended = @ \cup {s},
                             !.unlisted = IF ok THEN @ \ {s} ELSE @,
                             !.raced = @ \cup If(ok /\ Held(s), {s}),
                             !.failed = @ \cup If(~ok, {s}),
                             !.escaped = @ \cup If(job[w].todo = {}, Escaped(w))]
    /\ \/ job[w].todo = {} /\ Leave(w)
       \/ \E t \in job[w].todo : job' = [job EXCEPT ![w] = NextOf(w, t)]
    /\ UNCHANGED <<index, black>>

\* logoutFromAllDevices and a password reset.
LogoutAll(w) ==
    /\ "logoutAll" \in Ops
    /\ job[w].at = "idle"
    /\ job' = [job EXCEPT ![w] = [Idle EXCEPT !.at = "sweep", !.sweeps = TRUE,
                                 !.seen = (entry \cap was.acked) \ was.unlisted]]
    /\ UNCHANGED <<entry, index, black, was, losses>>

\* A mutant: the walk goes one past the end of the copy.
SweepPast(w, ok) ==
    /\ job[w].at = "sweep"
    /\ Call(ok)
    /\ LET todo == If(ok, index) \cup {NoId} IN
       \E t \in todo : job' = [job EXCEPT ![w].at = "find", ![w].sid = t,
                                         ![w].todo = todo \ {t}]
    /\ UNCHANGED <<entry, index, black, was>>

\* destroyAllUserSessions reads the index once and walks through the copy.
Sweep(w, ok) ==
    /\ job[w].at = "sweep"
    /\ Call(ok)
    /\ LET todo == If(ok, index) IN
       /\ \/ todo = {} /\ Leave(w)
          \/ \E t \in todo : job' = [job EXCEPT ![w].at = "find", ![w].sid = t,
                                                ![w].todo = todo \ {t}]
       /\ was' = [was EXCEPT !.failed = @ \cup If(~ok, job[w].seen),
                             !.escaped = @ \cup If(todo = {},
                                 (job[w].seen \cap entry) \ was.unlisted)]
    /\ UNCHANGED <<entry, index, black>>

-----------------------------------------------------------------------------
(* validateSession, before each request: the blacklist, the entry, and the  *)
(* entry again to write it back with a new time of access.                  *)

Request(w, s) ==
    /\ s \in was.acked
    /\ Receive(w, "request", s, "guard")
    /\ UNCHANGED was

Guard(w, ok) ==
    /\ job[w].at = "guard"
    /\ Call(ok)
    /\ IF ok /\ job[w].sid \in black THEN Leave(w)
       ELSE job' = [job EXCEPT ![w].at = "load", ![w].late = job[w].sid \in was.ended]
    /\ was' = [was EXCEPT !.failed = @ \cup If(~ok, {job[w].sid})]
    /\ UNCHANGED <<entry, index, black>>

Load(w, ok) ==
    /\ job[w].at = "load"
    /\ Call(ok)
    /\ IF ok /\ job[w].sid \in entry THEN Go(w, "touch") ELSE Leave(w)
    /\ UNCHANGED <<entry, index, black, was>>

\* The request is let in, whether or not there is still something to touch.
LetIn(w) == If(job[w].late, {job[w].sid})

Touch(w, ok) ==
    /\ job[w].at = "touch"
    /\ Call(ok)
    /\ IF ok /\ job[w].sid \in entry
       THEN Go(w, "renew") /\ UNCHANGED was
       ELSE Leave(w) /\ was' = [was EXCEPT !.revived = @ \cup LetIn(w)]
    /\ UNCHANGED <<entry, index, black>>

Renew(w, ok) ==
    /\ job[w].at = "renew"
    /\ Call(ok)
    /\ entry' = IF ok THEN entry \cup {job[w].sid} ELSE entry
    /\ was' = [was EXCEPT !.revived = @ \cup LetIn(w)]
    /\ Leave(w)
    /\ UNCHANGED <<index, black>>

-----------------------------------------------------------------------------
(* Redis lets keys expire and evicts them; the process may die. *)

EntryExpires(s) ==
    /\ s \in entry
    /\ Lose
    /\ entry' = entry \ {s}
    /\ was' = [was EXCEPT !.raced = @ \cup If(Held(s), {s})]
    /\ UNCHANGED <<index, black, job>>

\* The index is not renewed by the requests that renew its sessions.
IndexExpires ==
    /\ index # {}
    /\ Lose
    /\ index' = {}
    /\ was' = [was EXCEPT !.overwritten = @ \cup index]
    /\ UNCHANGED <<entry, black, job>>

BlackExpires(s) ==
    /\ s \in black
    /\ Lose
    /\ black' = black \ {s}
    /\ was' = [was EXCEPT !.forgotten = @ \cup {s}]
    /\ UNCHANGED <<entry, index, job>>

Crash ==
    /\ Lose
    /\ job' = [w \in Workers |-> Idle]
    /\ UNCHANGED <<entry, index, black, was>>

-----------------------------------------------------------------------------

Arrive(w) ==
    \/ AskList(w)
    \/ LogoutAll(w)
    \/ \E s \in Ids : \/ Login(w, s) \/ Logout(w, s) \/ Terminate(w, s)
                      \/ Request(w, s)

Serve(w) ==
    \/ \E ok \in BOOLEAN :
        \/ ReadIndex(w, ok) \/ Prune(w, ok) \/ Store(w, ok) \/ Add(w, ok)
        \/ Owned(w, ok) \/ Find(w, ok) \/ Remove(w, ok) \/ Bar(w, ok)
        \/ Drop(w, ok) \/ Sweep(w, ok) \/ Guard(w, ok) \/ Load(w, ok)
        \/ Touch(w, ok) \/ Renew(w, ok)
        \/ \E s \in Ids : Look(w, s, ok)
    \/ Limit(w)
    \/ List(w)
    \/ LogOut(w)

Next ==
    \/ \E w \in Workers : Arrive(w) \/ Serve(w)
    \/ \E s \in Ids : EntryExpires(s) \/ BlackExpires(s)
    \/ IndexExpires
    \/ Crash

Spec == Init /\ [][Next]_vars

-----------------------------------------------------------------------------
(* Properties. *)

\* A destroySession is between the index and the entry, the entry came back
\* from a copy, the index lost it to another writer, or the cache failed.
Excused == was.unlisted \cup was.raced \cup was.overwritten \cup was.failed

\* "Get user's active sessions": a session that is alive and was put into the
\* index is in it.  The exceptions are few and named: nothing that a single
\* login, logout or listing does by itself loses a live session.
IndexComplete == entry \cap was.listed \subseteq index \cup Excused

\* destroySession is final: a request that begins afterwards is let in only if
\* a request overlapped the end of the session and wrote the entry back, and
\* only when the blacklist has forgotten the session.
EndedStaysOut == was.revived \subseteq (was.raced \cap was.forgotten) \cup was.failed

\* auth.maxSessionsPerUser: the sessions that are alive and were given to the
\* client are no more than that, whichever logins overlap.
SessionsBounded ==
    Cardinality((entry \cap was.acked) \ Excused) <= MaxSessions

\* "Revoke all existing sessions ... for security": what a password reset finds
\* and leaves alive was written back by a request that overlapped, had been
\* lost from the index before, or was spared by a failing cache.
SweepComplete == was.escaped \subseteq was.raced \cup was.overwritten \cup was.failed

\* Each step of the requests is one that Register allows: a destroyed session comes
\* back only from a copy that a request held when it went, nobody is let in by it
\* but through such a copy, and whoever replaces the index drops no live session
\* that it has seen and that nobody removes.
Abstract == INSTANCE Register WITH
    alive <- entry, shown <- index, listed <- was.listed, ended <- was.ended,
    late <- was.revived, leaving <- was.unlisted, echoed <- was.raced,
    lost <- was.overwritten, forgotten <- was.forgotten, failed <- was.failed
RegisterSpec == Abstract!Spec

\* auth.service.ts:641, "Destroy session if provided": who has logged out, no call
\* having failed, has no session.
LogoutEnds ==
    [][\A w \in Workers : job[w].at = "logout" /\ losses = 0 /\ losses' = 0
                             /\ job'[w].at = "idle" => job[w].sid \notin entry']_vars
=============================================================================
