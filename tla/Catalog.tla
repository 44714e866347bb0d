------------------------------ MODULE Catalog ------------------------------
(***************************************************************************)
(* What the server knows of accounts, videos and watchers: RegisterRq,     *)
(* LoginRq, VideoClickRq, PlayReportRq and GetFileList (clogic.cpp) over   *)
(* t_UserData, t_VideoInfo, t_UserRecv and t_VideoPlayLog.  Handlers of    *)
(* different connections interleave at every statement; a statement is     *)
(* atomic and may fail.  A user is the number of its row.                  *)
(*                                                                         *)
(* The order of the videos inside one recommendation query is left out,    *)
(* as is the age of a play report: each is younger than 30 days.           *)
(***************************************************************************)
EXTENDS Integers, Sequences, FiniteSets, SequencesExt

CONSTANTS
  Conn, Name, Password,
  Video,
  Dirty,             \* whose thumbnail may be missing
  Match,             \* per video: tags it shares with the users of the model
  Slots, TagSlots,   \* 10 and 7
  Completion,        \* percentages of a video its viewers may watch
  MaxUsers,          \* bound: rows of t_UserData
  MaxRequests,       \* bound: refreshes, clicks and reports
  MaxFaults          \* bound: statements that fail, and ends of the process

ASSUME ConnAssumption == IsFiniteSet(Conn)
ASSUME VideoAssumption == IsFiniteSet(Video) /\ Dirty \subseteq Video /\ Match \in [Video -> Nat]
ASSUME SlotsAssumption == TagSlots \in Nat /\ Slots \in Nat /\ TagSlots <= Slots
ASSUME CompletionAssumption == Completion \subseteq 0 .. 100
ASSUME BoundsAssumption == {MaxUsers, MaxRequests, MaxFaults} \subseteq Nat

User == 1 .. MaxUsers

VARIABLES
  users,        \* t_UserData
  dirty,        \* the videos whose thumbnail cannot be opened, or is empty
  recv,         \* t_UserRecv: the videos a user has watched, by recvTime
  log,          \* t_VideoPlayLog: per video the number of rows and their sum
  count, hot,   \* playCount and hotdegree of t_VideoInfo
  last,         \* m_mapLastPushed
  id,           \* per connection: the user its client logged in as, or 0
  h,            \* per connection: its handler and what it holds
  calm,         \* refreshes during which nobody else wrote the user's rows
  stale,        \* videos whose last report was not worked off
  faults, asked

vars == <<dirty, users, recv, log, count, hot, last, id, h, calm, stale, faults, asked>>
tables == <<dirty, users, recv, log, count, hot>>
history == <<stale, faults>>
Ask == asked < MaxRequests /\ asked' = asked + 1

Idle == [pc |-> "idle"]
Refreshing == {"reset", "readLast", "tag", "hot", "seen", "watched", "writeLast", "send"}
Handler ==
  {Idle}
  \cup [pc : {"regInsert"}, name : Name, password : Password]
  \cup [pc : {"clickInsert"}, user : User, video : Video]
  \cup [pc : {"reportUpdate"}, video : Video]
  \cup [pc : Refreshing, user : User, last : SUBSET Video, batch : Seq(Video)]

TypeOK ==
  /\ dirty \subseteq Dirty
  /\ users \in Seq([name : Name, password : Password])
  /\ recv \in [User -> Seq(Video)]
  /\ log \in [Video -> [n : Nat, sum : Nat]]
  /\ count \in [Video -> Nat] /\ hot \in [Video -> Nat]
  /\ last \in [User -> SUBSET Video]
  /\ id \in [Conn -> 0 .. MaxUsers]
  /\ \A c \in Conn : h[c] \in Handler
  /\ calm \subseteq Conn /\ stale \subseteq Video /\ faults \in 0 .. MaxFaults
  /\ asked \in 0 .. MaxRequests

Init ==
  /\ dirty \in SUBSET Dirty
  /\ users = << >> /\ recv = [u \in User |-> << >>]
  /\ log = [v \in Video |-> [n |-> 0, sum |-> 0]]
  /\ count = [v \in Video |-> 0] /\ hot = [v \in Video |-> 0]
  /\ last = [u \in User |-> {}]
  /\ id = [c \in Conn |-> 0] /\ h = [c \in Conn |-> Idle]
  /\ calm = {} /\ stale = {} /\ faults = 0 /\ asked = 0

(* The entries of s at the places I, in their order.                       *)
Nth(I, k) == CHOOSE i \in I : Cardinality({j \in I : j <= i}) = k
Chosen(s, I) == [k \in 1 .. Cardinality(I) |-> s[Nth(I, k)]]
Without(s, S) == Chosen(s, {i \in DOMAIN s : s[i] \notin S})

Hold(c, r) == h' = [h EXCEPT ![c] = r]
At(c, pc) == h[c].pc = pc
Fails == faults < MaxFaults /\ faults' = faults + 1
Works == UNCHANGED faults

-----------------------------------------------------------------------------
(* Accounts.  Nothing but RegisterRq's first statement keeps a name from   *)
(* having two rows; a SELECT gives them in the order of their ids.         *)

Rows(n) == {k \in DOMAIN users : users[k].name = n}
IdOfNewest(n) == CHOOSE k \in Rows(n) : \A j \in Rows(n) : j <= k
IdOf(n) == CHOOSE k \in Rows(n) : \A j \in Rows(n) : k <= j

RegisterRq(c, n, p) ==
  /\ At(c, "idle") /\ Rows(n) = {}
  /\ Len(users) + Cardinality({d \in Conn : At(d, "regInsert")}) < MaxUsers
  /\ Hold(c, [pc |-> "regInsert", name |-> n, password |-> p])
  /\ UNCHANGED <<tables, last, id, calm, history, asked>>

(* The client is told "registered" whether the INSERT works or not.        *)
RegisterInsert(c) ==
  /\ At(c, "regInsert")
  /\ Hold(c, Idle)
  /\ \/ Works /\ users' = Append(users, [name |-> h[c].name, password |-> h[c].password])
     \/ Fails /\ UNCHANGED users
  /\ UNCHANGED <<dirty, recv, log, count, hot, last, id, calm, stale, asked>>

LoginRq(c, n, p) ==
  /\ At(c, "idle") /\ Rows(n) # {}
  /\ users[IdOf(n)].password = p
  /\ id' = [id EXCEPT ![c] = IdOf(n)]
  /\ UNCHANGED <<tables, last, h, calm, history, asked>>

-----------------------------------------------------------------------------
(* Watching.                                                               *)

Watched(u) == ToSet(recv[u])

(* A refresh of the same user by another connection is no longer calm.     *)
Disturb(c, u) ==
  calm' = calm \ {d \in Conn \ {c} : h[d].pc \in Refreshing /\ h[d].user = u}

(* Two statements: the row moves to the end.                               *)
VideoClickRq(c, v) ==
  /\ At(c, "idle") /\ id[c] # 0 /\ Ask
  /\ Hold(c, [pc |-> "clickInsert", user |-> id[c], video |-> v])
  /\ \/ Works /\ recv' = [recv EXCEPT ![id[c]] = Without(@, {v})]
     \/ Fails /\ UNCHANGED recv
  /\ Disturb(c, id[c])
  /\ UNCHANGED <<dirty, users, log, count, hot, last, id, stale>>

ClickInsert(c) ==
  /\ At(c, "clickInsert")
  /\ Hold(c, Idle)
  /\ \/ Works /\ recv' = [recv EXCEPT ![h[c].user] = Append(@, h[c].video)]
     \/ Fails /\ UNCHANGED recv
  /\ Disturb(c, h[c].user)
  /\ UNCHANGED <<dirty, users, log, count, hot, last, id, stale, asked>>

PlayReportRq(c, v, percent) ==
  /\ At(c, "idle") /\ id[c] # 0 /\ Ask
  /\ Hold(c, [pc |-> "reportUpdate", video |-> v])
  /\ \/ Works /\ log' = [log EXCEPT ![v] = [n |-> @.n + 1, sum |-> @.sum + percent]]
     \/ Fails /\ UNCHANGED log
  /\ UNCHANGED <<dirty, users, recv, count, hot, last, id, calm, stale>>

(* GREATEST(0, ROUND(n * 25 * (average - 0.3)))                            *)
HeatUnbounded(r) == (25 * (r.sum - 30 * r.n) + 50) \div 100
Heat(r) == IF r.sum <= 30 * r.n THEN 0 ELSE (25 * (r.sum - 30 * r.n) + 50) \div 100
PlaysPlusOne(v) == count[v] + 1
Plays(v) == log[v].n

(* One UPDATE derives both counters from the log.                          *)
ReportUpdate(c) ==
  LET v == h[c].video IN
  /\ At(c, "reportUpdate")
  /\ Hold(c, Idle)
  /\ \/ /\ Works /\ count' = [count EXCEPT ![v] = Plays(v)]
        /\ hot' = [hot EXCEPT ![v] = Heat(log[v])]
        /\ stale' = stale \ {v}
     \/ /\ Fails /\ stale' = stale \cup {v}
        /\ UNCHANGED <<count, hot>>
  /\ UNCHANGED <<dirty, users, recv, log, last, id, calm, asked>>

-----------------------------------------------------------------------------
(* GetFileList: one step per statement and per lock of m_recMutex.  It     *)
(* counts videos a user has not watched, those without a thumbnail too.    *)

Unwatched(u) == Video \ Watched(u)

Refresh(c) ==
  /\ At(c, "idle") /\ id[c] # 0 /\ Ask
  /\ Hold(c, [pc |-> IF Unwatched(id[c]) = {} THEN "reset" ELSE "readLast", user |-> id[c],
              last |-> {}, batch |-> << >>])
  /\ calm' = calm \cup {c}
  /\ UNCHANGED <<tables, last, id, history>>

(* When the DELETE fails the list stays empty.                             *)
Reset(c) ==
  /\ At(c, "reset")
  /\ \/ /\ Works
        /\ recv' = [recv EXCEPT ![h[c].user] = << >>]
        /\ Hold(c, [h[c] EXCEPT !.pc = "readLast"])
        /\ Disturb(c, h[c].user)
     \/ /\ Fails
        /\ Hold(c, Idle)
        /\ calm' = calm \ {c}
        /\ UNCHANGED recv
  /\ UNCHANGED <<dirty, users, log, count, hot, last, id, stale, asked>>

ReadLast(c) ==
  /\ At(c, "readLast")
  /\ Hold(c, [h[c] EXCEPT !.pc = "tag", !.last = last[h[c].user]])
  /\ UNCHANGED <<tables, last, id, calm, history, asked>>

(* What "order by .. limit 0, n" may give.                                 *)
Better(byTag, v, w) ==
  IF byTag /\ Match[v] # Match[w] THEN Match[v] > Match[w] ELSE hot[v] > hot[w]
Limit(rows, n, byTag) ==
  {P \in SUBSET rows : /\ Cardinality(P) = IF n < Cardinality(rows) THEN n ELSE Cardinality(rows)
                       /\ \A v \in P, w \in rows \ P : ~Better(byTag, w, v)}

(* FetchVideos: rows whose thumbnail is missing and rows picked before are *)
(* skipped, but have taken their place in the LIMIT.                       *)
Picked(batch, rows) ==
  {i \in DOMAIN rows : /\ rows[i] \notin dirty /\ rows[i] \notin ToSet(batch)
                       /\ \A j \in 1 .. i - 1 : rows[j] # rows[i]}
FetchVideos(batch, rows) == batch \o Chosen(rows, Picked(batch, rows))

Free(r) == Slots - Len(r.batch)
FreshRowsAny(r) == Unwatched(r.user) \ ToSet(r.batch)
FreshRows(r) == (Unwatched(r.user) \ r.last) \ ToSet(r.batch)
SeenRowsFresh(r) == FreshRows(r)
SeenRows(r) == Unwatched(r.user) \ ToSet(r.batch)
WatchedRows(r) == Without(recv[r.user], ToSet(r.batch))

(* One query of GetFileList; it may give any of these sequences of rows.   *)
(* It is not sent when no slot is free.                                    *)
Query(c, from, results, to) ==
  /\ At(c, from)
  /\ \/ \E rows \in results :
          Hold(c, [h[c] EXCEPT !.pc = to, !.batch = FetchVideos(@, rows)])
        /\ Works /\ UNCHANGED calm
     \/ /\ Free(h[c]) > 0 /\ Fails
        /\ Hold(c, [h[c] EXCEPT !.pc = to])
        /\ calm' = calm \ {c}
  /\ UNCHANGED <<tables, last, id, stale, asked>>

Seqs(sets) == {SetToSeq(P) : P \in sets}
ByTag(c) == Query(c, "tag", Seqs(Limit(FreshRows(h[c]), TagSlots, TRUE)), "hot")
ByHeat(c) == Query(c, "hot", Seqs(Limit(FreshRows(h[c]), Free(h[c]), FALSE)), "seen")
Seen(c) == Query(c, "seen", Seqs(Limit(SeenRows(h[c]), Free(h[c]), FALSE)), "watched")
OldestWatched(c) ==
  Query(c, "watched",
        {LET r == WatchedRows(h[c]) IN SubSeq(r, 1, IF Free(h[c]) < Len(r) THEN Free(h[c])
                                                                          ELSE Len(r))},
        "writeLast")

WriteLast(c) ==
  /\ At(c, "writeLast")
  /\ last' = [last EXCEPT ![h[c].user] = ToSet(h[c].batch)]
  /\ Hold(c, [h[c] EXCEPT !.pc = "send"])
  /\ UNCHANGED <<tables, id, calm, history, asked>>

(* The list goes to DownloadRq.                                            *)
Send(c) ==
  /\ At(c, "send")
  /\ Hold(c, Idle)
  /\ calm' = calm \ {c}
  /\ UNCHANGED <<tables, last, id, history, asked>>

-----------------------------------------------------------------------------
(* The process ends, also when two LoginRq write m_mapIDToUserFD at once.  *)
Crash ==
  /\ Fails
  /\ stale' = stale \cup {v \in Video : \E c \in Conn : At(c, "reportUpdate") /\ h[c].video = v}
  /\ h' = [c \in Conn |-> Idle] /\ id' = [c \in Conn |-> 0] /\ calm' = {}
  /\ last' = [u \in User |-> {}]
  /\ UNCHANGED <<tables, asked>>

GetFileList(c) ==
  Refresh(c) \/ Reset(c) \/ ReadLast(c) \/ ByTag(c) \/ ByHeat(c) \/ Seen(c) \/ OldestWatched(c)
  \/ WriteLast(c) \/ Send(c)

Next ==
  \/ \E c \in Conn :
       \/ \E n \in Name, p \in Password : RegisterRq(c, n, p) \/ LoginRq(c, n, p)
       \/ \E v \in Video \ dirty : VideoClickRq(c, v) \/ \E k \in Completion : PlayReportRq(c, v, k)
       \/ RegisterInsert(c) \/ ClickInsert(c) \/ ReportUpdate(c)
       \/ GetFileList(c)
  \/ Crash

Spec == Init /\ [][Next]_vars

-----------------------------------------------------------------------------
Ready(c) == At(c, "send")
Fewest(a, b) == IF a < b THEN a ELSE b

(* A batch shows no video twice, although t_UserRecv may hold one twice    *)
(* (two clicks at once, a DELETE that failed), and leaves no slot blank    *)
(* (clogic.cpp:1019): when nobody else writes the user's rows meanwhile, a *)
(* slot stays empty only for want of videos, for a video without a         *)
(* thumbnail, or for a row that is in t_UserRecv twice.                    *)
NoBlank ==
  \A c \in Conn : Ready(c) =>
    LET r == h[c]
        twice == Len(recv[r.user]) - Cardinality(Watched(r.user))
    IN /\ Len(r.batch) <= Slots /\ Cardinality(ToSet(r.batch)) = Len(r.batch)
       /\ c \in calm =>
            Len(r.batch) + Cardinality(dirty) + twice >= Fewest(Slots, Cardinality(Video))

(* Another batch each time (clogic.cpp:931): videos that were watched or   *)
(* pushed last come only after all others, again up to the places that     *)
(* videos without a thumbnail take.                                        *)
FreshFirst ==
  \A c \in calm : Ready(c) =>
    LET r == h[c]
        fresh == (Unwatched(r.user) \ r.last) \ dirty
    IN Cardinality(ToSet(r.batch) \ fresh) > Cardinality(dirty) => fresh \subseteq ToSet(r.batch)

(* playCount and hotdegree do not drift from the log (clogic.cpp:1192):    *)
(* whatever reports interleave, statements fail and handlers are lost, the *)
(* next report of the video that is worked off sets them right.            *)
HotFromLog ==
  \A v \in Video \ stale :
    (\A c \in Conn : At(c, "reportUpdate") => h[c].video # v) =>
      count[v] = log[v].n /\ hot[v] = Heat(log[v])

(* A second registration of a name, which may slip in between the SELECT   *)
(* and the INSERT of the first, never takes its account over.              *)
AccountKept == [][\A n \in Name : Rows(n) # {} => IdOf(n)' = IdOf(n)]_vars
=============================================================================
