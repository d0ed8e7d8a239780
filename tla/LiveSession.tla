----------------------------- MODULE LiveSession -----------------------------
(***************************************************************************)
(* One live session: video-session.service.ts with the rooms of            *)
(* webrtc.service.ts, and the teacher's page, whose service writes the     *)
(* same row.                                                               *)
(*                                                                         *)
(* Requests share the session's row, a copy of it in the cache, the rows   *)
(* of the participants and the room that a participant is connected to.    *)
(* A request reads the session from the copy if there is one.  Whoever     *)
(* joins or leaves changes its own row, counts the active ones and writes  *)
(* the number into the session's row; the copy is left as it was.          *)
(*                                                                         *)
(* The dates in a copy are strings, so endSession fails on a session it    *)
(* was given from the cache, after it has deleted the room.  The teacher's *)
(* page starts, ends and updates a session without looking at its status,  *)
(* at the copy or at the room.                                             *)
(***************************************************************************)
EXTENDS Naturals, FiniteSets

CONSTANTS
    Workers,          \* requests that may be in flight
    Users,            \* who may take part
    Host,             \* the session's host
    Capacities,       \* what maxParticipants may be set to
    MaxRequests,      \* bound: how many requests there are
    MaxLosses         \* bound: how many keys the cache drops, calls of it fail
                      \* and times the process dies, taken together

ASSUME UsersAssumption == IsFiniteSet(Users) /\ Host \in Users
ASSUME LimitsAssumption ==
    Capacities \subseteq Nat \ {0} /\ MaxRequests \in Nat /\ MaxLosses \in Nat

VARIABLES
    row,     \* the session's row: its status and currentParticipants
    copy,    \* the entry video_session:<id>
    part,    \* the connectionStatus of each user's row
    room,    \* where webrtc.service.ts has the room: in its map, in the cache
    job,     \* the requests in flight
    was,     \* history
    used     \* requests and losses, counted against the bounds

vars == <<row, copy, part, room, job, was, used>>

Status == {"scheduled", "live", "completed"}

Row == [status : Status, count : 0 .. Cardinality(Users), max : Capacities]

\* The session as somebody read it.  "old" is history: its count may be less than
\* the participants there are.
Copy == [status : Status \cup {"none"}, count : 0 .. Cardinality(Users),
         max : Capacities \cup {0}, old : BOOLEAN]
NoCopy == [status |-> "none", count |-> 0, max |-> 0, old |-> FALSE]

Callers == {"start", "end", "update", "join", "reply"}
PC == {"idle", "look", "fetch", "fill", "start", "end", "close", "disconnect",
       "update", "settings", "clear", "join", "find", "seat", "leave", "connect", "count", "write"}

Job == [at : PC,
        for : Callers,             \* what getSessionById was called for
        user : Users,              \* who joins or leaves
        got : Copy,                \* what getSessionById returned
        cached : BOOLEAN,          \* it came from the cache
        known : BOOLEAN,           \* joinSession found the user's row
        n : 0 .. Cardinality(Users),  \* updateParticipantCount's count
        late : BOOLEAN]            \* history: participants have changed since
Idle == [at |-> "idle", for |-> "reply", user |-> Host, got |-> NoCopy,
         cached |-> FALSE, known |-> FALSE, n |-> 0, late |-> FALSE]

History == [uncounted : BOOLEAN,   \* participants changed and were not counted, or
                                   \* the last count written was an old one
            stuck : BOOLEAN,       \* the copy was kept or filled after an end
            roomless : BOOLEAN]    \* there was no room to begin with, a restart lost
                                   \* it, endSession failed after it had deleted it,
                                   \* or a session that had ended was started

TypeOK ==
    /\ row \in Row
    /\ copy \in Copy
    /\ part \in [Users -> {"none", "connecting", "connected", "disconnected"}]
    /\ room \subseteq {"map", "cache"}
    /\ job \in [Workers -> Job]
    /\ was \in History
    /\ used \in [requests : Nat, losses : Nat]

\* Created by POST /video/sessions, which makes the room and caches what it
\* answers, or on the teacher's page, which does neither.
Init ==
    /\ \E m \in Capacities : row = [status |-> "scheduled", count |-> 0, max |-> m]
    /\ \/ /\ room = {"map", "cache"}
          /\ copy = [status |-> "scheduled", count |-> 0, max |-> row.max, old |-> TRUE]
          /\ part = [u \in Users |-> IF u = Host THEN "connecting" ELSE "none"]
          /\ was = [uncounted |-> TRUE, stuck |-> FALSE, roomless |-> FALSE]
       \/ /\ room = {}
          /\ copy = NoCopy
          /\ part = [u \in Users |-> IF u = Host THEN "connected" ELSE "none"]
          /\ was = [uncounted |-> TRUE, stuck |-> FALSE, roomless |-> TRUE]
    /\ job = [w \in Workers |-> Idle]
    /\ used = [requests |-> 0, losses |-> 0]

-----------------------------------------------------------------------------
(* Requests, and calls of the cache. *)

Ask == used.requests < MaxRequests /\ used' = [used EXCEPT !.requests = @ + 1]
Lose == used.losses < MaxLosses /\ used' = [used EXCEPT !.losses = @ + 1]

\* A call of the cache may fail; the caller goes on as if there were nothing.
Call(ok) == IF ok THEN UNCHANGED used ELSE Lose

\* What a request has read is kept while it is going to be used.
Go(w, label) == job' = [job EXCEPT ![w].at = label]
GoOn(w, label) == job' = [job EXCEPT ![w] = [Idle EXCEPT !.at = label]]
Leave(w) == job' = [job EXCEPT ![w] = Idle]

Active == {u \in Users : part[u] \in {"connecting", "connected"}}

\* The requests that changed a participant and have not written the count.
Counting == {w \in Workers : job[w].at \in {"connect", "count", "write"}}

\* Everyone's job when participants change: who has counted has counted others.
Outdated(w) == [job[w] EXCEPT !.late = job[w].at = "write"]

\* The copy does not know of an end.
SaysOpen == copy.status \in {"scheduled", "live"}

Receive(w, caller, u) ==
    /\ job[w].at = "idle"
    /\ job' = [job EXCEPT ![w] = [Idle EXCEPT !.at = "look", !.for = caller, !.user = u]]
    /\ Ask
    /\ UNCHANGED <<row, copy, part, room, was>>

-----------------------------------------------------------------------------
(* getSessionById. *)

\* joinSession needs all of what it was given, the others its status.
Needed(w, read) ==
    IF job[w].for = "join" THEN read ELSE [NoCopy EXCEPT !.status = read.status]

\* What was called for goes on; a client that only asked has its answer.
Got(w, read, cached) ==
    IF job[w].for = "reply"
    THEN Leave(w)
    ELSE job' = [job EXCEPT ![w].at = job[w].for, ![w].got = Needed(w, read),
                            ![w].cached = cached]

Look(w, ok) ==
    /\ job[w].at = "look"
    /\ Call(ok)
    /\ IF ok /\ copy.status # "none"
       THEN Got(w, copy, TRUE)
       ELSE Go(w, "fetch")
    /\ UNCHANGED <<row, copy, part, room, was>>

\* The row's count is what it says if nobody is about to write it.
Fetch(w) ==
    /\ job[w].at = "fetch"
    /\ job' = [job EXCEPT ![w].at = "fill",
                          ![w].got = [status |-> row.status, count |-> row.count,
                                      max |-> row.max,
                                      old |-> was.uncounted \/ Counting # {}]]
    /\ UNCHANGED <<row, copy, part, room, was, used>>

Fill(w, ok) ==
    /\ job[w].at = "fill"
    /\ Call(ok)
    /\ copy' = IF ok THEN job[w].got ELSE copy
    /\ was' = IF ok THEN [was EXCEPT !.stuck = job[w].got.status # row.status] ELSE was
    /\ Got(w, job[w].got, FALSE)
    /\ UNCHANGED <<row, part, room>>

\* A mutant: the copy is left to expire.
ClearNothing(w, ok) ==
    /\ job[w].at = "clear"
    /\ Call(ok)
    /\ was' = [was EXCEPT !.stuck = ~ok /\ SaysOpen]
    /\ job' = [job EXCEPT ![w].at = "look", ![w].for = "reply"]
    /\ UNCHANGED <<row, copy, part, room>>

\* The end of startSession, endSession and updateSession: the copy is deleted and
\* the session read again.
Clear(w, ok) ==
    /\ job[w].at = "clear"
    /\ Call(ok)
    /\ copy' = IF ok THEN NoCopy ELSE copy
    /\ was' = [was EXCEPT !.stuck = ~ok /\ SaysOpen]
    /\ job' = [job EXCEPT ![w].at = "look", ![w].for = "reply"]
    /\ UNCHANGED <<row, part, room>>

-----------------------------------------------------------------------------
(* startSession, endSession and updateSession; the host's requests. *)

\* A mutant: the status is not looked at.
StartAny(w) ==
    /\ job[w].at = "start"
    /\ row' = [row EXCEPT !.status = "live"]
    /\ was' = [was EXCEPT !.roomless = @ \/ (room = {} /\ job[w].got.status # row.status)]
    /\ GoOn(w, "clear")
    /\ UNCHANGED <<copy, part, room, used>>

\* A copy may still say "scheduled" of a session that has ended.
Start(w) ==
    /\ job[w].at = "start"
    /\ IF job[w].got.status = "scheduled"
       THEN /\ row' = [row EXCEPT !.status = "live"]
            /\ was' = [was EXCEPT !.roomless = @ \/ (room = {} /\ job[w].got.status # row.status)]
            /\ GoOn(w, "clear")
       ELSE Leave(w) /\ UNCHANGED <<row, was>>
    /\ UNCHANGED <<copy, part, room, used>>

\* endRoom: a room that is not in the map is left in the cache.
RoomEnds(ok) ==
    room' = IF "map" \notin room THEN room ELSE IF ok THEN {} ELSE room \ {"map"}

\* The room is deleted; then a start that is a string has no getTime.
End(w, ok) ==
    /\ job[w].at = "end"
    /\ IF job[w].got.status = "live"
       THEN /\ IF "map" \in room THEN Call(ok) ELSE ok /\ UNCHANGED used
            /\ RoomEnds(ok)
            /\ IF job[w].cached
               THEN Leave(w) /\ was' = [was EXCEPT !.roomless = @ \/ room' = {}]
               ELSE GoOn(w, "close") /\ UNCHANGED was
       ELSE ok /\ Leave(w) /\ UNCHANGED <<room, was, used>>
    /\ UNCHANGED <<row, copy, part>>

Close(w) ==
    /\ job[w].at = "close"
    /\ row' = [row EXCEPT !.status = "completed"]
    /\ Go(w, "disconnect")
    /\ UNCHANGED <<copy, part, room, was, used>>

\* Who joined is "connecting" and stays so; the count is left as it was.
Disconnect(w) ==
    /\ job[w].at = "disconnect"
    /\ part' = [u \in Users |-> IF part[u] = "connected" THEN "disconnected" ELSE part[u]]
    /\ IF part' # part
       THEN /\ job' = [v \in Workers |-> IF v = w THEN [job[w] EXCEPT !.at = "clear"]
                                                  ELSE Outdated(v)]
            /\ was' = [was EXCEPT !.uncounted = TRUE]
       ELSE Go(w, "clear") /\ UNCHANGED was
    /\ UNCHANGED <<row, copy, room, used>>

\* The capacity may be changed, and the room's settings given.
Update(w) ==
    /\ job[w].at = "update"
    /\ \E m \in Capacities : row' = [row EXCEPT !.max = m]
    /\ GoOn(w, "settings") \/ GoOn(w, "clear")
    /\ UNCHANGED <<copy, part, room, was, used>>

\* updateRoom: a room that is in the map goes to the cache as well.
Settings(w, ok) ==
    /\ job[w].at = "settings"
    /\ IF "map" \in room THEN Call(ok) ELSE ok /\ UNCHANGED used
    /\ room' = IF ok /\ "map" \in room THEN room \cup {"cache"} ELSE room
    /\ GoOn(w, "clear")
    /\ UNCHANGED <<row, copy, part, was>>

-----------------------------------------------------------------------------
(* joinSession and leaveSession. *)

\* A mutant: one participant too many.
AdmitOneMore(w) ==
    /\ job[w].at = "join"
    /\ IF job[w].got.status = "completed" \/ job[w].got.count > job[w].got.max
       THEN Leave(w)
       ELSE Go(w, "find")
    /\ UNCHANGED <<row, copy, part, room, was, used>>

\* validateSessionAccess, without registration.
Admit(w) ==
    /\ job[w].at = "join"
    /\ IF job[w].got.status = "completed" \/ job[w].got.count >= job[w].got.max
       THEN Leave(w)
       ELSE Go(w, "find")
    /\ UNCHANGED <<row, copy, part, room, was, used>>

Find(w) ==
    /\ job[w].at = "find"
    /\ job' = [job EXCEPT ![w].at = "seat", ![w].known = part[job[w].user] # "none"]
    /\ UNCHANGED <<row, copy, part, room, was, used>>

\* Everyone's job when a participant is added: who has read the count has read less.
Joining == {"fill", "join", "find", "seat", "connect"}
Crowded(v) == [Outdated(v) EXCEPT !.got.old = job[v].at \in Joining]

Seated(w) ==
    [Idle EXCEPT !.at = "connect",
                 !.got = [NoCopy EXCEPT !.max = job[w].got.max, !.old = job[w].got.old]]

\* The user's row is changed, or inserted: a second insert breaks the unique key.
Seat(w) ==
    /\ job[w].at = "seat"
    /\ LET u == job[w].user IN
       IF ~job[w].known /\ part[u] # "none"
       THEN Leave(w) /\ UNCHANGED <<part, copy>>
       ELSE /\ part' = [part EXCEPT ![u] = "connecting"]
            /\ IF u \in Active
               THEN job' = [job EXCEPT ![w] = Seated(w)] /\ UNCHANGED copy
               ELSE /\ job' = [v \in Workers |-> IF v = w THEN Seated(w) ELSE Crowded(v)]
                    /\ copy' = [copy EXCEPT !.old = copy.status # "none"]
    /\ UNCHANGED <<row, room, was, used>>

\* getConnectionInfo: without a room it throws, and nobody counts the participant.
Connect(w, ok) ==
    /\ job[w].at = "connect"
    /\ IF "map" \in room THEN ok /\ UNCHANGED used ELSE Call(ok)
    /\ IF "map" \in room \/ (ok /\ "cache" \in room)
       THEN GoOn(w, "count") /\ UNCHANGED was
       ELSE /\ job' = [v \in Workers |-> IF v = w THEN Idle ELSE Outdated(v)]
            /\ was' = [was EXCEPT !.uncounted = TRUE]
    /\ UNCHANGED <<row, copy, part, room>>

\* leaveSession, asked for by the user or by the gateway when the socket closes.
AskLeave(w, u) ==
    /\ job[w].at = "idle"
    /\ u \in Active
    /\ job' = [job EXCEPT ![w] = [Idle EXCEPT !.at = "leave", !.user = u]]
    /\ Ask
    /\ UNCHANGED <<row, copy, part, room, was>>

\* A mutant: who leaves is not counted.
Uncounted(w) ==
    /\ job[w].at = "leave"
    /\ part' = [part EXCEPT ![job[w].user] = "disconnected"]
    /\ job' = [v \in Workers |-> IF v = w THEN Idle ELSE Outdated(v)]
    /\ UNCHANGED <<row, copy, room, was, used>>

Part(w) ==
    /\ job[w].at = "leave"
    /\ part' = [part EXCEPT ![job[w].user] = "disconnected"]
    /\ job' = [v \in Workers |-> IF v = w THEN [Idle EXCEPT !.at = "count"]
                                          ELSE Outdated(v)]
    /\ UNCHANGED <<row, copy, room, was, used>>

\* updateParticipantCount
Count(w) ==
    /\ job[w].at = "count"
    /\ job' = [job EXCEPT ![w].at = "write", ![w].n = Cardinality(Active)]
    /\ UNCHANGED <<row, copy, part, room, was, used>>

Write(w) ==
    /\ job[w].at = "write"
    /\ row' = [row EXCEPT !.count = job[w].n]
    /\ was' = [was EXCEPT !.uncounted = job[w].late]
    /\ Leave(w)
    /\ UNCHANGED <<copy, part, room, used>>

-----------------------------------------------------------------------------
(* The teacher's page; the cache and the process. *)

TeacherStart ==
    /\ Ask
    /\ row' = [row EXCEPT !.status = "live"]
    /\ was' = [was EXCEPT !.roomless = @ \/ (room = {} /\ row.status = "completed")]
    /\ UNCHANGED <<copy, part, room, job>>

\* A mutant: a status that the column does not know.
TeacherEndOther ==
    /\ Ask
    /\ row' = [row EXCEPT !.status = "ended"]
    /\ UNCHANGED <<copy, part, room, job, was>>

TeacherEnd ==
    /\ Ask
    /\ row' = [row EXCEPT !.status = "completed"]
    /\ was' = [was EXCEPT !.stuck = SaysOpen]
    /\ UNCHANGED <<copy, part, room, job>>

TeacherUpdate ==
    /\ Ask
    /\ \E m \in Capacities : row' = [row EXCEPT !.max = m]
    /\ UNCHANGED <<copy, part, room, job, was>>

CopyExpires ==
    /\ copy.status # "none"
    /\ copy' = NoCopy
    /\ was' = [was EXCEPT !.stuck = FALSE]
    /\ UNCHANGED <<row, part, room, job, used>>

\* The cache keeps a room for an hour.
RoomExpires ==
    /\ "cache" \in room
    /\ room' = room \ {"cache"}
    /\ was' = [was EXCEPT !.roomless = @ \/ room' = {}]
    /\ UNCHANGED <<row, copy, part, job, used>>

\* The map is in memory.
Crash ==
    /\ Lose
    /\ room' = room \ {"map"}
    /\ job' = [w \in Workers |-> Idle]
    /\ was' = [was EXCEPT !.uncounted = @ \/ Counting # {},
                          !.stuck = @ \/ SaysOpen,
                          !.roomless = @ \/ room' = {}]
    /\ UNCHANGED <<row, copy, part>>

-----------------------------------------------------------------------------

Arrive(w) ==
    \/ \E caller \in {"start", "end", "update", "reply"} : Receive(w, caller, Host)
    \/ \E u \in Users : Receive(w, "join", u) \/ AskLeave(w, u)

Serve(w) ==
    \/ \E ok \in BOOLEAN : \/ Look(w, ok) \/ Fill(w, ok) \/ Clear(w, ok)
                           \/ End(w, ok) \/ Settings(w, ok) \/ Connect(w, ok)
    \/ Fetch(w) \/ Start(w) \/ Close(w) \/ Disconnect(w) \/ Update(w)
    \/ Admit(w) \/ Find(w) \/ Seat(w) \/ Part(w) \/ Count(w) \/ Write(w)

Next ==
    \/ \E w \in Workers : Arrive(w) \/ Serve(w)
    \/ TeacherStart \/ TeacherEnd \/ TeacherUpdate
    \/ CopyExpires \/ RoomExpires \/ Crash

Spec == Init /\ [][Next]_vars

-----------------------------------------------------------------------------
(* Properties. *)

\* currentParticipants is the number of those who are connecting or connected
\* when nobody is about to write it: whichever joins and leaves overlap, only a
\* count that was old when it was written, a join that found no room, the
\* end of the session and a crash leave it wrong, and the next count corrects it.
CountTruthful ==
    Counting = {} /\ ~was.uncounted => row.count = Cardinality(Active)

\* maxParticipants: a join that was let in by a count that was still true is
\* within the capacity it was shown.
CapacityHeld ==
    \A w \in Workers : job[w].at = "connect" /\ ~job[w].got.old
                            => Cardinality(Active) <= job[w].got.max

\* When endSession has returned the cache does not show the session as open, so
\* that nobody can join it: unless a request that had read it before filled the
\* copy afterwards, the teacher's page ended it, or the cache or the process failed.
EndIsSeen ==
    /\ row.status = "completed"
    /\ ~was.stuck
    /\ \A w \in Workers : job[w].at \notin {"disconnect", "clear"}
    => ~SaysOpen

\* A live session has its room, so that whoever joins can be connected: unless
\* endSession failed after it had deleted the room, the session had ended and was
\* started by a request that did not see it, or a restart lost the room.
LiveHasRoom ==
    row.status = "live" /\ (\A w \in Workers : job[w].at # "close")
        => room # {} \/ was.roomless
=============================================================================
