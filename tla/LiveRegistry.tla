---------------------------- MODULE LiveRegistry ----------------------------
(***************************************************************************)
(* The live list of the media server: LiveStartRq, LiveStopRq, LiveListRq   *)
(* and the live part of OnClientDisconnect (clogic.cpp) over the rows of    *)
(* t_LiveStream and the map m_mapLiveFdToUser, and the state LiveDialog     *)
(* keeps on the other side of the connection.  Handlers of different        *)
(* connections interleave at every statement sent to the database; the map  *)
(* has no lock.  Only rows with status 1 count; a new row has status 1.     *)
(***************************************************************************)
EXTENDS Naturals, Sequences

CONSTANTS
  Conn, NoConn,    \* descriptors: numbers, in the order of the map
  Erased,          \* an iterator whose entry another handler has erased
  User, NoUser,
  Sessions,        \* of a user: "one", the earlier one's clean-up being over;
                   \* "next", when the peer of the earlier one has closed; or "any"
  StaleCleanups,   \* bound: clean-ups to come for a descriptor accepted again
  MaxRow,          \* bound: starts are sent while no user has MaxRow rows
  MaxSent,         \* bound: requests of a client on their way; 1: it awaits the reply
  Crashes,         \* the process may be killed, once
  DbFaults         \* a statement may fail

ASSUME ConnAssumption ==
  Conn \subseteq Nat /\ {NoConn, Erased} \cap Conn = {} /\ NoUser \notin User
ASSUME BoundAssumption == {StaleCleanups, MaxRow, MaxSent} \subseteq Nat
ASSUME FlagAssumption ==
  {Crashes, DbFaults} \subseteq BOOLEAN /\ Sessions \in {"one", "next", "any"}

VARIABLES
  on,           \* per user: rows of t_LiveStream with status 1
  map,          \* m_mapLiveFdToUser: per descriptor its user or NoUser
  user,         \* per descriptor: who is logged in
  living,       \* m_isLiving of LiveDialog, per descriptor
  sent,         \* per descriptor: requests the server has not read
  gone,         \* descriptors whose peer has closed, unread by the server
  pc,           \* per descriptor: where its handler is
  it,           \* per descriptor: the iterator of its list request
  cleanup, at,  \* OnClientDisconnect: calls to come, and its iterator
  spoiled       \* the process ended, or a statement of a clean-up failed

vars == <<on, map, user, living, sent, gone, pc, it, cleanup, at, spoiled>>

Pc == {"closed", "idle", "startUser", "startDelete", "startInsert", "startMap",
       "stopUpdate", "stopErase", "listProbe", "listHeal", "listQuery"}

TypeOK ==
  /\ on \in [User -> Nat]
  /\ map \in [Conn -> User \cup {NoUser}]
  /\ user \in [Conn -> User \cup {NoUser}]
  /\ living \in [Conn -> BOOLEAN]
  /\ sent \in [Conn -> Seq({"start", "stop", "list"})]
  /\ gone \subseteq Conn
  /\ pc \in [Conn -> Pc]
  /\ {it, at} \subseteq [Conn -> Conn \cup {NoConn, Erased}]
  /\ cleanup \in [Conn -> Nat]
  /\ \A c \in Conn : pc[c] # "closed" => user[c] \in User
  /\ \A c, d \in Conn : d \in {it[c], at[c]} => map[d] # NoUser
  /\ spoiled \in BOOLEAN

Fresh ==
  /\ map = [c \in Conn |-> NoUser] /\ user = [c \in Conn |-> NoUser]
  /\ living = [c \in Conn |-> FALSE] /\ sent = [c \in Conn |-> << >>] /\ gone = {}
  /\ pc = [c \in Conn |-> "closed"]
  /\ it = [c \in Conn |-> NoConn]
  /\ cleanup = [c \in Conn |-> 0] /\ at = [c \in Conn |-> NoConn]

Init == Fresh /\ on = [u \in User |-> 0] /\ spoiled = FALSE

Open(c) == pc[c] # "closed"
Goto(c, from, to) == pc[c] = from /\ pc' = [pc EXCEPT ![c] = to]

(* An iterator to an entry is invalid when another handler erases the entry. *)
InvalidateNone(f, e) == f
Invalidate(f, e) == [c \in Conn |-> IF f[c] = e THEN Erased ELSE f[c]]

ServerVars == <<on, map, it, cleanup, at, spoiled>>

-----------------------------------------------------------------------------
(* Clients.                                                                *)

Login(c, u) ==
  /\ cleanup[c] <= StaleCleanups
  /\ \A d \in Conn :
       /\ Sessions = "one" => map[d] # u /\ (Open(d) => user[d] # u)
       /\ Sessions = "next" => (Open(d) /\ user[d] = u => d \in gone)
  /\ Goto(c, "closed", "idle")
  /\ user' = [user EXCEPT ![c] = u]
  /\ UNCHANGED <<living, sent, gone, ServerVars>>

SendRq(c, rq) ==
  /\ Open(c) /\ c \notin gone
  /\ Len(sent[c]) + (IF pc[c] = "idle" THEN 0 ELSE 1) < MaxSent
  /\ sent' = [sent EXCEPT ![c] = Append(@, rq)]
  /\ UNCHANGED <<user, living, gone, pc, ServerVars>>

(* The start button stays enabled until the reply, the stop button too.    *)
AskStart(c) == ~living[c] /\ (\A u \in User : on[u] < MaxRow) /\ SendRq(c, "start")
AskStop(c) == living[c] /\ SendRq(c, "stop")
AskList(c) == SendRq(c, "list")

(* The peer closes, crashes or loses the network.                          *)
Leave(c) ==
  /\ Open(c) /\ c \notin gone
  /\ gone' = gone \cup {c}
  /\ living' = [living EXCEPT ![c] = FALSE]
  /\ UNCHANGED <<user, sent, pc, ServerVars>>

(* recv_task: the next request; a list request begins with the first entry  *)
(* of the map.                                                              *)
Least(cs) == IF cs = {} THEN NoConn ELSE CHOOSE c \in cs : \A d \in cs : c <= d
Entries == {c \in Conn : map[c] # NoUser}
FirstStep == [start |-> "startUser", stop |-> "stopUpdate", list |-> "listProbe"]

Receive(c) ==
  /\ sent[c] # << >>
  /\ Goto(c, "idle", FirstStep[Head(sent[c])])
  /\ sent' = [sent EXCEPT ![c] = Tail(@)]
  /\ it' = IF Head(sent[c]) = "list" THEN [it EXCEPT ![c] = Least(Entries)] ELSE it
  /\ UNCHANGED <<on, map, user, living, gone, cleanup, at, spoiled>>

(* recv_task of a connection whose peer has closed: the descriptor is       *)
(* closed, OnClientDisconnect is to come.                                   *)
Close(c) ==
  /\ c \in gone /\ sent[c] = << >>
  /\ Goto(c, "idle", "closed")
  /\ gone' = gone \ {c}
  /\ user' = [user EXCEPT ![c] = NoUser]
  /\ cleanup' = [cleanup EXCEPT ![c] = @ + 1]
  /\ UNCHANGED <<on, map, living, sent, it, at, spoiled>>

-----------------------------------------------------------------------------
(* LiveStartRq.                                                            *)

(* The reply, as LiveDialog takes it; one that says "failed" changes nothing. *)
Reply(c, live) == living' = [living EXCEPT ![c] = live /\ c \notin gone]

(* The user is found or not.                                               *)
StartUser(c) ==
  /\ \/ Goto(c, "startUser", "startDelete")
     \/ Goto(c, "startUser", "idle")
  /\ UNCHANGED <<user, living, sent, gone, ServerVars>>

DeletedNone(c) == on
Deleted(c) == [on EXCEPT ![user[c]] = 0]
StartDelete(c) ==
  /\ Goto(c, "startDelete", "startInsert")
  /\ \/ on' = Deleted(c)
     \/ DbFaults /\ UNCHANGED on
  /\ UNCHANGED <<map, user, living, sent, gone, it, cleanup, at, spoiled>>

StartInsert(c) ==
  /\ \/ /\ Goto(c, "startInsert", "startMap")
        /\ on' = [on EXCEPT ![user[c]] = @ + 1]
        /\ UNCHANGED living
     \/ DbFaults /\ Goto(c, "startInsert", "idle") /\ UNCHANGED <<on, living>>
  /\ UNCHANGED <<map, user, sent, gone, it, cleanup, at, spoiled>>

MappedNever(c) == map
Mapped(c) == [map EXCEPT ![c] = user[c]]
StartMap(c) ==
  /\ Goto(c, "startMap", "idle")
  /\ map' = Mapped(c)
  /\ Reply(c, TRUE)
  /\ UNCHANGED <<on, user, sent, gone, it, cleanup, at, spoiled>>

-----------------------------------------------------------------------------
(* LiveStopRq.                                                             *)

StopUpdateAll(c) == [u \in User |-> 0]
StopUpdated(c) == [on EXCEPT ![user[c]] = 0]
StopUpdate(c) ==
  /\ \/ Goto(c, "stopUpdate", "stopErase") /\ on' = StopUpdated(c) /\ UNCHANGED living
     \/ DbFaults /\ Goto(c, "stopUpdate", "idle") /\ UNCHANGED <<on, living>>
  /\ UNCHANGED <<map, user, sent, gone, it, cleanup, at, spoiled>>

StopErase(c) ==
  /\ Goto(c, "stopErase", "idle")
  /\ map' = [map EXCEPT ![c] = NoUser]
  /\ Reply(c, FALSE)
  /\ it' = Invalidate(it, c) /\ at' = Invalidate(at, c)
  /\ UNCHANGED <<on, user, sent, gone, cleanup, spoiled>>

-----------------------------------------------------------------------------
(* LiveListRq: recv with MSG_PEEK on every descriptor of the map.  It fails *)
(* with EBADF on a closed one; on one whose peer has closed it returns 0,   *)
(* or fails when the connection was reset.                                  *)

(* The UPDATE of a clean-up for the entry e; its result is not looked at.    *)
OfflineNone(e) == UNCHANGED <<on, spoiled>>
Offline(e) ==
  \/ on' = [on EXCEPT ![map[e]] = 0] /\ UNCHANGED spoiled
  \/ DbFaults /\ UNCHANGED on /\ spoiled' = TRUE

After(c) == Least({d \in Entries : d > it[c]})

ProbeOk(c) ==
  /\ it[c] \in Conn /\ Open(it[c])
  /\ Goto(c, "listProbe", "listProbe")
  /\ it' = [it EXCEPT ![c] = After(c)]
  /\ UNCHANGED <<on, map, user, living, sent, gone, cleanup, at, spoiled>>

(* "Self-heal": the row first, the entry then.                             *)
ProbeFails(c) ==
  /\ it[c] \in Conn
  /\ ~Open(it[c]) \/ (it[c] \in gone /\ sent[it[c]] = << >>)
  /\ Goto(c, "listProbe", "listHeal")
  /\ Offline(it[c])
  /\ UNCHANGED <<map, user, living, sent, gone, it, cleanup, at>>

Heal(c) ==
  /\ Goto(c, "listHeal", "listProbe")
  /\ it[c] \in Conn
  /\ it' = [Invalidate(it, it[c]) EXCEPT ![c] = After(c)]
  /\ at' = Invalidate(at, it[c])
  /\ map' = [map EXCEPT ![it[c]] = NoUser]
  /\ UNCHANGED <<on, user, living, sent, gone, cleanup, spoiled>>

ProbesDone(c) ==
  /\ it[c] = NoConn
  /\ Goto(c, "listProbe", "listQuery")
  /\ UNCHANGED <<user, living, sent, gone, ServerVars>>

(* The rows with status 1 are sent.                                        *)
ListQuery(c) ==
  /\ Goto(c, "listQuery", "idle")
  /\ UNCHANGED <<user, living, sent, gone, ServerVars>>

-----------------------------------------------------------------------------
(* OnClientDisconnect.                                                     *)

DisconnectIdle(c) ==
  /\ cleanup[c] > 0 /\ at[c] = NoConn /\ map[c] = NoUser
  /\ cleanup' = [cleanup EXCEPT ![c] = @ - 1]
  /\ UNCHANGED <<on, map, user, living, sent, gone, pc, it, at, spoiled>>

DisconnectUpdate(c) ==
  /\ cleanup[c] > 0 /\ at[c] = NoConn /\ map[c] # NoUser
  /\ Offline(c)
  /\ at' = [at EXCEPT ![c] = c]
  /\ UNCHANGED <<map, user, living, sent, gone, pc, it, cleanup>>

DisconnectErase(c) ==
  /\ at[c] = c
  /\ at' = [at EXCEPT ![c] = NoConn]
  /\ it' = Invalidate(it, c)
  /\ map' = [map EXCEPT ![c] = NoUser]
  /\ cleanup' = [cleanup EXCEPT ![c] = @ - 1]
  /\ UNCHANGED <<on, user, living, sent, gone, pc, spoiled>>

-----------------------------------------------------------------------------
(* The process ends: the rows stay.                                        *)
Restart ==
  /\ map' = [c \in Conn |-> NoUser] /\ user' = [c \in Conn |-> NoUser]
  /\ living' = [c \in Conn |-> FALSE] /\ sent' = [c \in Conn |-> << >>] /\ gone' = {}
  /\ pc' = [c \in Conn |-> "closed"]
  /\ it' = [c \in Conn |-> NoConn]
  /\ cleanup' = [c \in Conn |-> 0] /\ at' = [c \in Conn |-> NoConn]
  /\ spoiled' = TRUE
  /\ UNCHANGED on

Crash ==
  /\ Crashes /\ ~spoiled
  /\ Restart

(* A handler uses an iterator whose entry another worker has erased.       *)
UseErased ==
  /\ \E c \in Conn : Erased \in {it[c], at[c]}
  /\ Restart

-----------------------------------------------------------------------------
Client(c) ==
  (\E u \in User : Login(c, u)) \/ AskStart(c) \/ AskStop(c) \/ AskList(c) \/ Leave(c)
Handler(c) ==
  \/ Receive(c) \/ StartUser(c) \/ StartDelete(c) \/ StartInsert(c) \/ StartMap(c)
  \/ StopUpdate(c) \/ StopErase(c)
  \/ ProbeOk(c) \/ ProbeFails(c) \/ Heal(c) \/ ProbesDone(c) \/ ListQuery(c)
Disconnect(c) == DisconnectIdle(c) \/ DisconnectUpdate(c) \/ DisconnectErase(c)
Worker(c) == Handler(c) \/ Close(c) \/ Disconnect(c)

Next == Crash \/ UseErased \/ \E c \in Conn : Client(c) \/ Worker(c)

Spec == Init /\ [][Next]_vars

(* Every event finds a worker in the end, and its handler returns.         *)
FairSpec ==
  /\ Spec /\ WF_vars(UseErased)
  /\ \A c \in Conn : WF_vars(Handler(c)) /\ WF_vars(Close(c)) /\ WF_vars(Disconnect(c))

-----------------------------------------------------------------------------
(* Properties.                                                             *)

(* No zombie in the list: a listed stream belongs to a connection that is    *)
(* in the map, open or about to be cleaned up, or that is just entering it.  *)
(* Whatever handlers, clean-ups and probes run at the same time, none leaves *)
(* a zombie, as long as the process runs and the clean-ups' statements do.   *)
NoZombie ==
  spoiled \/
  \A u \in User : on[u] > 0 =>
    \E c \in Conn : \/ map[c] = u /\ (Open(c) \/ cleanup[c] > 0)
                    \/ pc[c] = "startMap" /\ user[c] = u

(* A client that was told it is live, and has sent nothing since, is in the  *)
(* list, and once: no clean-up, probe or stop of another connection takes it *)
(* off, and LiveStartRq has deleted the earlier rows of the user.            *)
LiveIsListed ==
  \A c \in Conn :
    living[c] /\ pc[c] = "idle" /\ sent[c] = << >> => on[user[c]] = 1

(* A stream whose connection ended leaves the list (OnClientDisconnect), or *)
(* its user streams again, unless the process ends first.                   *)
Streaming(u) == \E c \in Conn : Open(c) /\ c \notin gone /\ user[c] = u
DeadGoesOffline ==
  \A u \in User :
    on[u] > 0 /\ ~Streaming(u) ~> on[u] = 0 \/ Streaming(u) \/ spoiled

=============================================================================
