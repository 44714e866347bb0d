------------------------- MODULE LiveRegistryProofs -------------------------
(***************************************************************************)
(* Theorems about LiveRegistry, for any descriptors, users and bounds:     *)
(* no zombie stays in the list, and a client that was told it is live is   *)
(* in it.                                                                  *)
(***************************************************************************)
EXTENDS LiveRegistry, SequenceTheorems, WellFoundedInduction, TLAPS

Rq == {"start", "stop", "list"}

(* An iterator is at an entry that is in the map, and a clean-up that has   *)
(* one is still to come to its end.                                        *)
Iter == Conn \cup {NoConn, Erased}
Iterators(m, i, a, k) ==
  /\ m \in [Conn -> User \cup {NoUser}]
  /\ i \in [Conn -> Iter] /\ a \in [Conn -> Iter]
  /\ k \in [Conn -> Nat]
  /\ \A c, d \in Conn : i[c] = d => m[d] # NoUser
  /\ \A c \in Conn : /\ a[c] \in {c, NoConn, Erased}
                     /\ a[c] = c => m[c] # NoUser
                     /\ a[c] # NoConn => k[c] > 0

Types ==
  /\ on \in [User -> Nat]
  /\ user \in [Conn -> User \cup {NoUser}]
  /\ sent \in [Conn -> Seq(Rq)]
  /\ gone \subseteq Conn
  /\ pc \in [Conn -> Pc]
  /\ \A c \in Conn : pc[c] # "closed" => user[c] \in User
  /\ Iterators(map, it, at, cleanup)

Flags == living \in [Conn -> BOOLEAN] /\ spoiled \in BOOLEAN

(* When no descriptor is accepted again before its clean-up is over, an    *)
(* entry belongs to who is logged in, or to a clean-up.                    *)
Owned ==
  \A c \in Conn :
    /\ cleanup[c] > 0 => ~Open(c)
    /\ map[c] # NoUser => cleanup[c] > 0 \/ (Open(c) /\ user[c] = map[c])
    /\ living[c] => Open(c) /\ c \notin gone
    /\ c \in gone => Open(c)

(* When a client awaits the reply before it sends again, a start finds no   *)
(* entry.                                                                  *)
Starts == {"startUser", "startDelete", "startInsert", "startMap"}
OneRequest ==
  \A c \in Conn :
    /\ sent[c] # << >> => pc[c] = "idle" /\ Len(sent[c]) = 1
    /\ Open(c) /\ c \notin gone /\ map[c] # NoUser => living[c]
    /\ pc[c] \in Starts => map[c] = NoUser
    /\ sent[c] # << >> /\ Head(sent[c]) = "start" => map[c] = NoUser

(* The entry e is about to be erased: its row was set first.                *)
Pending(e) ==
  \/ pc[e] = "stopErase" \/ at[e] = e
  \/ \E c \in Conn : pc[c] = "listHeal" /\ it[c] = e

(* A listed stream has an entry that is not about to be erased, or is just  *)
(* entering the map.                                                       *)
Entered(c, u) == map[c] = u /\ ~Pending(c)
Entering(c, u) == pc[c] = "startMap" /\ user[c] = u
Witnessed == spoiled \/ \A u \in User : on[u] > 0 => \E c \in Conn : Entered(c, u) \/ Entering(c, u)

(* When a user's sessions do not overlap, only handlers of its connection   *)
(* write its rows while it is there.                                       *)
Holds(c, u) == (Open(c) /\ user[c] = u) \/ map[c] = u
OneSession == \A c, d \in Conn, u \in User : Holds(c, u) /\ Holds(d, u) => c = d

RowOf(c) ==
  /\ pc[c] = "startInsert" => on[user[c]] = 0
  /\ pc[c] = "startMap" /\ c \notin gone => on[user[c]] = 1
  /\ pc[c] \notin {"startInsert", "startMap", "stopErase"} /\ living[c] => on[user[c]] = 1
Listed == \A c \in Conn : RowOf(c)

-----------------------------------------------------------------------------
(* Iterators.                                                              *)

LEMMA Minimum ==
  ASSUME NEW S, S \subseteq Nat, S # {}
  PROVE  \E k \in S : \A j \in S : k <= j
  <1>1. \E k \in S : \A j \in S : ~(<<j, k>> \in OpToRel(<, Nat))
    BY NatLessThanWellFounded, WFMin, Zenon
  <1>2. PICK k \in S : \A j \in S : ~(<<j, k>> \in OpToRel(<, Nat))
    BY <1>1
  <1>3. ASSUME NEW j \in S PROVE k <= j
    <2>1. j \in Nat /\ k \in Nat /\ ~(j < k)
      BY <1>2, <1>3 DEF OpToRel
    <2>2. QED
      BY <2>1
  <1>4. QED
    BY <1>3

(* The first entry, or the end of the map.                                 *)
LEMMA LeastIn ==
  ASSUME NEW cs, cs \subseteq Conn
  PROVE  Least(cs) \in cs \cup {NoConn}
  <1>1. CASE cs = {}
    BY <1>1 DEF Least
  <1>2. CASE cs # {}
    <2>1. \E c \in cs : \A d \in cs : c <= d
      BY <1>2, ConnAssumption, Minimum
    <2>2. QED
      BY <1>2, <2>1 DEF Least
  <1>3. QED
    BY <1>1, <1>2

(* An entry is erased: no iterator is at it any more.                      *)
LEMMA EntryErased ==
  ASSUME NEW m, NEW i, NEW a, NEW k, Iterators(m, i, a, k), NEW e \in Conn
  PROVE  /\ Iterators([m EXCEPT ![e] = NoUser], Invalidate(i, e), Invalidate(a, e), k)
         /\ \A c \in Conn : Invalidate(i, e)[c] # e /\ Invalidate(a, e)[c] # e
         /\ \A c, d \in Conn : /\ Invalidate(i, e)[c] = d => i[c] = d
                               /\ Invalidate(a, e)[c] = d => a[c] = d
  <1> DEFINE n == [m EXCEPT ![e] = NoUser]
             j == Invalidate(i, e)
             b == Invalidate(a, e)
  <1>1. /\ n \in [Conn -> User \cup {NoUser}]
        /\ \A c \in Conn : n[c] = IF c = e THEN NoUser ELSE m[c]
    BY DEF Iterators
  <1>2. /\ j \in [Conn -> Iter]
        /\ \A c \in Conn : j[c] = IF i[c] = e THEN Erased ELSE i[c]
    BY DEF Iterators, Iter, Invalidate
  <1>3. /\ b \in [Conn -> Iter]
        /\ \A c \in Conn : b[c] = IF a[c] = e THEN Erased ELSE a[c]
    BY DEF Iterators, Iter, Invalidate
  <1> HIDE DEF n, j, b
  <1>4. \A c \in Conn : c # NoConn /\ c # Erased
    BY ConnAssumption
  <1>5. \A c \in Conn : j[c] # e /\ b[c] # e
    BY <1>2, <1>3, <1>4
  <1>6. \A c, d \in Conn : (j[c] = d => i[c] = d) /\ (b[c] = d => a[c] = d)
    BY <1>2, <1>3, <1>4
  <1>7. \A c, d \in Conn : j[c] = d => n[d] # NoUser
    BY <1>1, <1>5, <1>6 DEF Iterators
  <1>8. \A c \in Conn : /\ b[c] \in {c, NoConn, Erased}
                        /\ b[c] = c => n[c] # NoUser
                        /\ b[c] # NoConn => k[c] > 0
    BY <1>1, <1>3, <1>4, <1>5 DEF Iterators
  <1>9. k \in [Conn -> Nat]
    BY DEF Iterators
  <1>10. Iterators(n, j, b, k)
    BY <1>1, <1>2, <1>3, <1>7, <1>8, <1>9 DEF Iterators
  <1>11. QED
    BY <1>5, <1>6, <1>10 DEF n, j, b

LEMMA Invalidated ==
  ASSUME NEW f, NEW e, NEW c \in Conn, NEW x \in Conn, Invalidate(f, e)[c] = x
  PROVE  f[c] = x
  BY ConnAssumption DEF Invalidate

(* An iterator moves to an entry, or to the end.                           *)
LEMMA IteratorMoved ==
  ASSUME NEW m, NEW i, NEW a, NEW k, Iterators(m, i, a, k), NEW c \in Conn,
         NEW x \in Conn \cup {NoConn}, x \in Conn => m[x] # NoUser
  PROVE  Iterators(m, [i EXCEPT ![c] = x], a, k)
  BY ConnAssumption DEF Iterators, Iter

-----------------------------------------------------------------------------
(* Types.                                                                  *)

LEMMA TypesInit == Init => Types
  BY ConnAssumption DEF Init, Fresh, Types, Pc, Iterators, Iter

LEMMA TypesRestart ==
  ASSUME Types, Restart
  PROVE  Types'
  BY ConnAssumption DEF Restart, Types, Pc, Iterators, Iter

(* A step of a handler, by its first and its last point.                   *)
LEMMA TypesGoto ==
  ASSUME Types, NEW c \in Conn, NEW p, NEW q \in Pc, p # "closed", Goto(c, p, q)
  PROVE  /\ pc' \in [Conn -> Pc] /\ user[c] \in User
         /\ \A d \in Conn : pc'[d] # "closed" => pc[d] # "closed"
  BY DEF Goto, Types

LEMMA TypesClient ==
  ASSUME Types, NEW c \in Conn, Client(c)
  PROVE  Types'
  <1>1. ASSUME NEW u \in User, Login(c, u) PROVE Types'
    BY <1>1 DEF Login, Goto, ServerVars, Types, Pc
  <1>2. ASSUME NEW rq \in Rq, SendRq(c, rq) PROVE Types'
    <2>1. sent' \in [Conn -> Seq(Rq)]
      BY <1>2 DEF SendRq, Types
    <2>2. QED
      BY <1>2, <2>1 DEF SendRq, ServerVars, Types
  <1>3. CASE Leave(c)
    BY <1>3 DEF Leave, ServerVars, Types
  <1>4. QED
    BY <1>1, <1>2, <1>3 DEF Client, AskStart, AskStop, AskList, Rq

LEMMA TypesReceive ==
  ASSUME Types, NEW c \in Conn, Receive(c)
  PROVE  Types'
  <1>1. sent[c] \in Seq(Rq) /\ sent[c] # << >>
    BY DEF Receive, Types
  <1>2. Head(sent[c]) \in Rq /\ Tail(sent[c]) \in Seq(Rq)
    BY <1>1
  <1>3. sent' \in [Conn -> Seq(Rq)]
    BY <1>2 DEF Receive, Types
  <1>4. FirstStep[Head(sent[c])] \in Pc
    BY <1>2 DEF FirstStep, Rq, Pc
  <1>5. pc' \in [Conn -> Pc] /\ \A d \in Conn : pc'[d] # "closed" => pc[d] # "closed"
    BY <1>4, TypesGoto DEF Receive
  <1>6. Least(Entries) \in Entries \cup {NoConn}
    BY LeastIn DEF Entries
  <1>7. Iterators(map, it', at, cleanup)
    <2>1. Iterators(map, [it EXCEPT ![c] = Least(Entries)], at, cleanup)
      BY <1>6, IteratorMoved, ConnAssumption DEF Entries, Types
    <2>2. QED
      BY <2>1 DEF Receive, Types
  <1>8. QED
    BY <1>3, <1>5, <1>7 DEF Receive, Types

LEMMA TypesClose ==
  ASSUME Types, NEW c \in Conn, Close(c)
  PROVE  Types'
  <1>1. Iterators(map, it, at, cleanup')
    BY DEF Close, Types, Iterators
  <1>2. QED
    BY <1>1 DEF Close, Goto, Types, Pc

LEMMA TypesStart ==
  ASSUME Types, NEW c \in Conn, StartUser(c) \/ StartDelete(c) \/ StartInsert(c) \/ StartMap(c)
  PROVE  Types'
  <1>1. /\ pc' \in [Conn -> Pc] /\ user[c] \in User
        /\ \A d \in Conn : pc'[d] # "closed" => pc[d] # "closed"
    <2>1. {"idle", "startDelete", "startInsert", "startMap"} \subseteq Pc
      BY DEF Pc
    <2>2. QED
      BY <2>1, TypesGoto DEF StartUser, StartDelete, StartInsert, StartMap
  <1>2. CASE StartUser(c)
    BY <1>1, <1>2 DEF StartUser, ServerVars, Types
  <1>3. CASE StartDelete(c)
    <2>1. on' \in [User -> Nat]
      BY <1>1, <1>3 DEF StartDelete, Deleted, Types
    <2>2. QED
      BY <1>1, <1>3, <2>1 DEF StartDelete, Types
  <1>4. CASE StartInsert(c)
    <2>1. on \in [User -> Nat] /\ on[user[c]] \in Nat
      BY <1>1 DEF Types
    <2>2. on' = on \/ on' = [on EXCEPT ![user[c]] = on[user[c]] + 1]
      BY <1>4 DEF StartInsert
    <2>3. on' \in [User -> Nat]
      BY <2>1, <2>2
    <2>4. QED
      BY <1>1, <1>4, <2>3 DEF StartInsert, Types
  <1>5. CASE StartMap(c)
    <2>1. map' = [map EXCEPT ![c] = user[c]]
      BY <1>5 DEF StartMap, Mapped
    <2>2. Iterators(map', it, at, cleanup)
      BY <1>1, <2>1, ConnAssumption DEF Types, Iterators
    <2>3. QED
      BY <1>1, <1>5, <2>2 DEF StartMap, Types
  <1>6. QED
    BY <1>2, <1>3, <1>4, <1>5

LEMMA TypesStop ==
  ASSUME Types, NEW c \in Conn, StopUpdate(c) \/ StopErase(c)
  PROVE  Types'
  <1>1. /\ pc' \in [Conn -> Pc] /\ user[c] \in User
        /\ \A d \in Conn : pc'[d] # "closed" => pc[d] # "closed"
    <2>1. {"idle", "stopErase"} \subseteq Pc
      BY DEF Pc
    <2>2. QED
      BY <2>1, TypesGoto DEF StopUpdate, StopErase
  <1>2. CASE StopUpdate(c)
    <2>1. on' \in [User -> Nat]
      <3>1. on \in [User -> Nat] /\ (on' = on \/ on' = [on EXCEPT ![user[c]] = 0])
        BY <1>2 DEF StopUpdate, StopUpdated, Types
      <3>2. QED
        BY <1>1, <3>1
    <2>2. QED
      BY <1>1, <1>2, <2>1 DEF StopUpdate, Types
  <1>3. CASE StopErase(c)
    <2>1. /\ it' = Invalidate(it, c) /\ at' = Invalidate(at, c) /\ map' = [map EXCEPT ![c] = NoUser]
          /\ UNCHANGED <<on, user, sent, gone, cleanup>>
      BY <1>3 DEF StopErase
    <2>2. Iterators(map', it', at', cleanup)
      BY <2>1, EntryErased DEF Types
    <2>3. QED
      BY <1>1, <2>1, <2>2 DEF Types
  <1>4. QED
    BY <1>2, <1>3

LEMMA TypesOffline ==
  ASSUME Types, NEW e \in Conn, map[e] # NoUser, Offline(e)
  PROVE  on' \in [User -> Nat] /\ map[e] \in User
  <1>1. map[e] \in User /\ on \in [User -> Nat]
    BY DEF Types, Iterators
  <1>2. on' = on \/ on' = [on EXCEPT ![map[e]] = 0]
    BY DEF Offline
  <1>3. QED
    BY <1>1, <1>2

LEMMA TypesList ==
  ASSUME Types, NEW c \in Conn,
         ProbeOk(c) \/ ProbeFails(c) \/ ProbesDone(c) \/ ListQuery(c)
  PROVE  Types'
  <1>1. /\ pc' \in [Conn -> Pc]
        /\ \A d \in Conn : pc'[d] # "closed" => pc[d] # "closed"
    <2>1. {"idle", "listProbe", "listHeal", "listQuery"} \subseteq Pc
      BY DEF Pc
    <2>2. QED
      BY <2>1, TypesGoto DEF ProbeOk, ProbeFails, ProbesDone, ListQuery
  <1>2. CASE ProbeOk(c)
    <2>1. After(c) \in Entries \cup {NoConn}
      BY LeastIn DEF After, Entries
    <2>2. Iterators(map, [it EXCEPT ![c] = After(c)], at, cleanup)
      BY <2>1, IteratorMoved, ConnAssumption DEF Entries, Types
    <2>3. QED
      BY <1>1, <1>2, <2>2 DEF ProbeOk, Types
  <1>3. CASE ProbeFails(c)
    <2>1. it[c] \in Conn /\ map[it[c]] # NoUser
      BY <1>3 DEF ProbeFails, Types, Iterators
    <2>2. on' \in [User -> Nat]
      BY <1>3, <2>1, TypesOffline DEF ProbeFails
    <2>3. QED
      BY <1>1, <1>3, <2>2 DEF ProbeFails, Types
  <1>4. CASE ProbesDone(c) \/ ListQuery(c)
    BY <1>1, <1>4 DEF ProbesDone, ListQuery, ServerVars, Types
  <1>5. QED
    BY <1>2, <1>3, <1>4

LEMMA TypesHeal ==
  ASSUME Types, NEW c \in Conn, Heal(c)
  PROVE  Types'
  <1>1. pc' \in [Conn -> Pc] /\ \A d \in Conn : pc'[d] # "closed" => pc[d] # "closed"
    BY TypesGoto DEF Heal, Pc
  <1>2. PICK e \in Conn : e = it[c]
    BY DEF Heal
  <1>3. /\ it' = [Invalidate(it, e) EXCEPT ![c] = After(c)]
        /\ at' = Invalidate(at, e) /\ map' = [map EXCEPT ![e] = NoUser]
        /\ UNCHANGED <<on, user, sent, gone, cleanup>>
    BY <1>2 DEF Heal
  <1>4. After(c) \in {d \in Entries : d > e} \cup {NoConn}
    BY <1>2, LeastIn DEF After, Entries
  <1>5. After(c) \in Conn \cup {NoConn} /\ (After(c) \in Conn => map'[After(c)] # NoUser)
    <2>1. \A d \in Conn : d > e => d # e
      BY ConnAssumption
    <2>2. map \in [Conn -> User \cup {NoUser}]
      BY DEF Types, Iterators
    <2>3. \A d \in Entries : d > e => map'[d] # NoUser
      BY <1>3, <2>1, <2>2 DEF Entries
    <2>4. QED
      BY <1>4, <2>3, ConnAssumption DEF Entries
  <1>6. Iterators(map', Invalidate(it, e), at', cleanup)
    BY <1>3, EntryErased DEF Types
  <1>7. Iterators(map', it', at', cleanup)
    BY <1>3, <1>5, <1>6, IteratorMoved
  <1>8. QED
    BY <1>1, <1>3, <1>7 DEF Types

LEMMA TypesDisconnect ==
  ASSUME Types, NEW c \in Conn, Disconnect(c)
  PROVE  Types'
  <1>1. cleanup[c] \in Nat
    BY DEF Types, Iterators
  <1>2. CASE DisconnectIdle(c)
    <2>1. Iterators(map, it, at, cleanup')
      BY <1>1, <1>2 DEF DisconnectIdle, Types, Iterators
    <2>2. QED
      BY <1>2, <2>1 DEF DisconnectIdle, Types
  <1>3. CASE DisconnectUpdate(c)
    <2>1. on' \in [User -> Nat]
      BY <1>3, TypesOffline DEF DisconnectUpdate
    <2>2. Iterators(map, it, at', cleanup)
      BY <1>3 DEF DisconnectUpdate, Types, Iterators, Iter
    <2>3. QED
      BY <1>3, <2>1, <2>2 DEF DisconnectUpdate, Types
  <1>4. CASE DisconnectErase(c)
    <2>1. /\ it' = Invalidate(it, c) /\ at' = [at EXCEPT ![c] = NoConn]
          /\ map' = [map EXCEPT ![c] = NoUser] /\ at[c] = c
          /\ cleanup' = [cleanup EXCEPT ![c] = @ - 1]
          /\ UNCHANGED <<on, user, sent, gone, pc>>
      BY <1>4 DEF DisconnectErase
    <2>2. cleanup[c] > 0
      BY <2>1, ConnAssumption DEF Types, Iterators
    <2>3. Iterators(map', it', Invalidate(at, c), cleanup)
      BY <2>1, EntryErased DEF Types
    <2>4. at' \in [Conn -> Iter] /\ at'[c] = NoConn /\ \A d \in Conn \ {c} : at'[d] = Invalidate(at, c)[d]
      BY <2>1, ConnAssumption DEF Types, Iterators, Iter, Invalidate
    <2>5. cleanup' \in [Conn -> Nat] /\ \A d \in Conn \ {c} : cleanup'[d] = cleanup[d]
      BY <1>1, <2>1, <2>2 DEF Types, Iterators
    <2>6. Iterators(map', it', at', cleanup')
      BY <2>3, <2>4, <2>5, ConnAssumption DEF Iterators
    <2>7. QED
      BY <2>1, <2>6 DEF Types
  <1>5. QED
    BY <1>2, <1>3, <1>4 DEF Disconnect

LEMMA TypesNext == Types /\ [Next]_vars => Types'
  <1> SUFFICES ASSUME Types, [Next]_vars PROVE Types'
    OBVIOUS
  <1>1. CASE Crash \/ UseErased
    BY <1>1, TypesRestart DEF Crash, UseErased
  <1>2. CASE \E c \in Conn : Client(c) \/ Worker(c)
    BY <1>2, TypesClient, TypesReceive, TypesClose, TypesStart, TypesStop, TypesList, TypesHeal,
       TypesDisconnect DEF Worker, Handler
  <1>3. CASE UNCHANGED vars
    BY <1>3 DEF vars, Types
  <1>4. QED
    BY <1>1, <1>2, <1>3 DEF Next

-----------------------------------------------------------------------------
(* The flags.                                                              *)

LEMMA LivingAt ==
  ASSUME Flags, NEW c \in Conn, NEW b \in BOOLEAN, living' = [living EXCEPT ![c] = b]
  PROVE  /\ living' \in [Conn -> BOOLEAN]
         /\ living'[c] <=> b
         /\ \A d \in Conn : d # c => (living'[d] <=> living[d])
  BY Zenon DEF Flags

LEMMA Replied ==
  ASSUME Flags, NEW c \in Conn, NEW live \in BOOLEAN, Reply(c, live)
  PROVE  /\ living' \in [Conn -> BOOLEAN]
         /\ living'[c] <=> live /\ c \notin gone
         /\ \A d \in Conn : d # c => (living'[d] <=> living[d])
  <1>1. (live /\ c \notin gone) \in BOOLEAN
    BY Zenon
  <1>2. QED
    BY <1>1, LivingAt DEF Reply

LEMMA FlagsNext == Flags /\ [Next]_vars => Flags'
  <1> SUFFICES ASSUME Flags, [Next]_vars PROVE Flags'
    OBVIOUS
  <1>1. spoiled' \in {spoiled, TRUE}
    BY DEF Next, vars, Client, Worker, Handler, Disconnect, Crash, UseErased, Restart, Login, AskStart,
       AskStop, AskList, SendRq, Leave, Receive, Close, StartUser, StartDelete, StartInsert, StartMap,
       StopUpdate, StopErase, ProbeOk, ProbeFails, Heal, ProbesDone, ListQuery, Offline,
       DisconnectIdle, DisconnectUpdate, DisconnectErase, ServerVars
  <1>2. spoiled' \in BOOLEAN
    BY <1>1, Zenon DEF Flags
  <1>3. \/ living' = living \/ living' = [c \in Conn |-> FALSE]
        \/ \E c \in Conn : \/ living' = [living EXCEPT ![c] = FALSE]
                           \/ \E live \in BOOLEAN : Reply(c, live)
    BY DEF Next, vars, Client, Worker, Handler, Disconnect, Crash, UseErased, Restart, Login, AskStart,
       AskStop, AskList, SendRq, Leave, Receive, Close, StartUser, StartDelete, StartInsert, StartMap,
       StopUpdate, StopErase, ProbeOk, ProbeFails, Heal, ProbesDone, ListQuery,
       DisconnectIdle, DisconnectUpdate, DisconnectErase, ServerVars
  <1>4. living' \in [Conn -> BOOLEAN]
    <2>1. CASE living' = living
      BY <2>1, Zenon DEF Flags
    <2>2. CASE living' = [c \in Conn |-> FALSE]
      BY <2>2, Zenon
    <2>3. CASE \E c \in Conn : \/ living' = [living EXCEPT ![c] = FALSE]
                               \/ \E live \in BOOLEAN : Reply(c, live)
      BY <2>3, LivingAt, Replied, Zenon
    <2>4. QED
      BY <1>3, <2>1, <2>2, <2>3
  <1>5. QED
    BY <1>2, <1>4 DEF Flags

LEMMA FlagsInit == Init => Flags
  BY Zenon DEF Init, Fresh, Flags

(* The types of the model hold for any descriptors, users and bounds.      *)
THEOREM LiveTypes == Spec => []TypeOK
  <1>1. Init => Types /\ Flags
    BY TypesInit, FlagsInit
  <1>2. Types /\ Flags /\ [Next]_vars => (Types /\ Flags)'
    BY TypesNext, FlagsNext
  <1>3. Types /\ Flags => TypeOK
    <2> SUFFICES ASSUME Types, Flags PROVE TypeOK
      OBVIOUS
    <2>1. \A c, d \in Conn : d \in {it[c], at[c]} => map[d] # NoUser
      BY ConnAssumption DEF Types, Iterators
    <2>2. /\ {it, at} \subseteq [Conn -> Conn \cup {NoConn, Erased}]
          /\ cleanup \in [Conn -> Nat] /\ map \in [Conn -> User \cup {NoUser}]
      BY DEF Types, Iterators, Iter
    <2>3. living \in [Conn -> BOOLEAN] /\ spoiled \in BOOLEAN
      BY DEF Flags
    <2>4. QED
      BY <2>1, <2>2, <2>3, Zenon DEF TypeOK, Types, Rq
  <1>4. QED
    BY <1>1, <1>2, <1>3, PTL DEF Spec

-----------------------------------------------------------------------------
(* Who owns an entry.                                                      *)

LEMMA OwnedInit == Init => Owned
  BY DEF Init, Fresh, Owned, Open

LEMMA OwnedNext ==
  ASSUME StaleCleanups = 0
  PROVE  Types /\ Flags /\ Owned /\ [Next]_vars => Owned'
  <1> SUFFICES ASSUME Types, Flags, Owned, [Next]_vars PROVE Owned'
    OBVIOUS
  <1> USE DEF Open
  <1>1. CASE Crash \/ UseErased
    BY <1>1 DEF Crash, UseErased, Restart, Owned
  <1>2. CASE UNCHANGED vars
    BY <1>2 DEF vars, Owned
  <1>3. ASSUME NEW c \in Conn, NEW u \in User, Login(c, u) PROVE Owned'
    <2>1. cleanup[c] = 0 /\ map[c] = NoUser
      BY <1>3 DEF Login, Goto, Owned, Types, Iterators
    <2>2. /\ pc'[c] = "idle" /\ \A d \in Conn : d # c => pc'[d] = pc[d] /\ user'[d] = user[d]
          /\ UNCHANGED <<map, cleanup, living, gone>>
      BY <1>3 DEF Login, Goto, Types, ServerVars
    <2>3. QED
      BY <2>1, <2>2 DEF Owned
  <1>4. ASSUME NEW c \in Conn, NEW rq, SendRq(c, rq) PROVE Owned'
    BY <1>4 DEF SendRq, ServerVars, Owned
  <1>5. ASSUME NEW c \in Conn, Leave(c) PROVE Owned'
    <2>1. ~living'[c] /\ \A d \in Conn : d # c => (living'[d] <=> living[d])
      BY <1>5, LivingAt, Zenon DEF Leave
    <2>2. pc[c] # "closed" /\ gone' = gone \cup {c} /\ UNCHANGED <<map, cleanup, pc, user>>
      BY <1>5 DEF Leave, ServerVars
    <2>3. QED
      BY <2>1, <2>2 DEF Owned
  <1>6. ASSUME NEW c \in Conn, Close(c) PROVE Owned'
    <2>1. /\ c \in gone /\ pc'[c] = "closed" /\ gone' = gone \ {c}
          /\ cleanup'[c] > 0
          /\ \A d \in Conn : d # c => pc'[d] = pc[d] /\ user'[d] = user[d] /\ cleanup'[d] = cleanup[d]
          /\ UNCHANGED <<map, living>>
      BY <1>6 DEF Close, Goto, Types, Iterators
    <2>2. QED
      BY <2>1 DEF Owned
  <1>7. ASSUME NEW c \in Conn, NEW p, NEW q, p # "closed", q # "closed", Goto(c, p, q),
               UNCHANGED <<map, user, living, gone, cleanup>>
        PROVE  Owned'
    <2>1. \A d \in Conn : pc'[d] # "closed" <=> pc[d] # "closed"
      BY <1>7 DEF Goto, Types
    <2>2. QED
      BY <1>7, <2>1 DEF Owned
  <1>8. ASSUME NEW c \in Conn, StartMap(c) \/ StopErase(c) PROVE Owned'
    <2>1. living'[c] => c \notin gone
      BY <1>8, Replied DEF StartMap, StopErase
    <2>2. \A d \in Conn : d # c => (living'[d] <=> living[d])
      BY <1>8, Replied DEF StartMap, StopErase
    <2>3. /\ pc[c] # "closed" /\ pc'[c] # "closed" /\ \A d \in Conn : d # c => pc'[d] = pc[d]
          /\ map'[c] \in {user[c], NoUser} /\ \A d \in Conn : d # c => map'[d] = map[d]
          /\ UNCHANGED <<user, gone, cleanup>>
      BY <1>8 DEF StartMap, Mapped, StopErase, Goto, Types, Iterators
    <2>4. QED
      BY <2>1, <2>2, <2>3 DEF Owned
  <1>9. ASSUME NEW c \in Conn, Heal(c) PROVE Owned'
    <2>1. /\ \A d \in Conn : pc'[d] # "closed" <=> pc[d] # "closed"
          /\ \A d \in Conn : map'[d] \in {map[d], NoUser}
          /\ UNCHANGED <<user, gone, living, cleanup>>
      BY <1>9 DEF Heal, Goto, Types, Iterators
    <2>2. QED
      BY <2>1 DEF Owned
  <1>10. ASSUME NEW c \in Conn, DisconnectIdle(c) \/ DisconnectErase(c) PROVE Owned'
    <2>1. cleanup[c] \in Nat /\ cleanup[c] > 0
      BY <1>10, ConnAssumption DEF DisconnectIdle, DisconnectErase, Types, Iterators
    <2>2. /\ cleanup'[c] = cleanup[c] - 1 /\ map'[c] = NoUser
          /\ \A d \in Conn : d # c => cleanup'[d] = cleanup[d] /\ map'[d] = map[d]
          /\ UNCHANGED <<pc, user, gone, living>>
      BY <1>10 DEF DisconnectIdle, DisconnectErase, Types, Iterators
    <2>3. QED
      BY <2>1, <2>2 DEF Owned
  <1>11. ASSUME NEW c \in Conn, DisconnectUpdate(c) PROVE Owned'
    BY <1>11 DEF DisconnectUpdate, Owned
  <1>12. ASSUME NEW c \in Conn, Receive(c) PROVE Owned'
    <2>1. FirstStep[Head(sent[c])] # "closed"
      <3>1. sent[c] \in Seq(Rq) /\ sent[c] # << >>
        BY <1>12 DEF Receive, Types
      <3>2. Head(sent[c]) \in Rq
        BY <3>1
      <3>3. QED
        BY <3>2 DEF FirstStep, Rq
    <2>2. QED
      BY <1>7, <1>12, <2>1 DEF Receive
  <1>13. ASSUME NEW c \in Conn, \/ StartUser(c) \/ StartDelete(c) \/ StartInsert(c) \/ StopUpdate(c)
                                \/ ProbeOk(c) \/ ProbeFails(c) \/ ProbesDone(c) \/ ListQuery(c)
         PROVE  Owned'
    BY <1>7, <1>13 DEF StartUser, StartDelete, StartInsert, StopUpdate, ProbeOk, ProbeFails,
       ProbesDone, ListQuery, ServerVars
  <1>14. QED
    BY <1>1, <1>2, <1>3, <1>4, <1>5, <1>6, <1>8, <1>9, <1>10, <1>11, <1>12, <1>13
       DEF Next, Client, AskStart, AskStop, AskList, Worker, Handler, Disconnect

-----------------------------------------------------------------------------
(* A client that awaits the reply: a start finds no entry.                 *)

LEMMA OneRequestInit == Init => OneRequest
  BY DEF Init, Fresh, OneRequest, Open, Starts

LEMMA OneRequestNext ==
  ASSUME StaleCleanups = 0, MaxSent <= 1
  PROVE  Types /\ Flags /\ Owned /\ OneRequest /\ [Next]_vars => OneRequest'
  <1> SUFFICES ASSUME Types, Flags, Owned, OneRequest, [Next]_vars PROVE OneRequest'
    OBVIOUS
  <1> USE DEF Open, Starts
  <1>1. CASE Crash \/ UseErased
    BY <1>1 DEF Crash, UseErased, Restart, OneRequest
  <1>2. CASE UNCHANGED vars
    BY <1>2 DEF vars, OneRequest
  <1>3. ASSUME NEW c \in Conn, NEW u \in User, Login(c, u) PROVE OneRequest'
    <2>1. map[c] = NoUser /\ sent[c] = << >>
      BY <1>3 DEF Login, Goto, Owned, Types, Iterators, OneRequest
    <2>2. /\ pc'[c] = "idle" /\ \A d \in Conn : d # c => pc'[d] = pc[d]
          /\ UNCHANGED <<map, sent, living, gone>>
      BY <1>3 DEF Login, Goto, Types, ServerVars
    <2>3. QED
      BY <2>1, <2>2 DEF OneRequest
  <1>4. ASSUME NEW c \in Conn, NEW rq \in Rq, SendRq(c, rq), rq = "start" => ~living[c]
        PROVE OneRequest'
    <2>1. Len(sent[c]) \in Nat /\ sent[c] \in Seq(Rq)
      BY DEF Types
    <2>2. pc[c] = "idle" /\ Len(sent[c]) = 0
      <3>1. MaxSent \in Nat
        BY BoundAssumption
      <3>2. Len(sent[c]) + (IF pc[c] = "idle" THEN 0 ELSE 1) < MaxSent
        BY <1>4 DEF SendRq
      <3>3. CASE pc[c] = "idle"
        <4>1. Len(sent[c]) + 0 < MaxSent
          BY <3>2, <3>3
        <4>2. QED
          BY <2>1, <3>1, <3>3, <4>1
      <3>4. CASE pc[c] # "idle"
        <4>1. Len(sent[c]) + 1 < MaxSent
          BY <3>2, <3>4
        <4>2. QED
          BY <2>1, <3>1, <4>1
      <3>5. QED
        BY <3>3, <3>4
    <2>3. sent'[c] = << rq >> /\ \A d \in Conn : d # c => sent'[d] = sent[d]
      <3>1. sent[c] = << >>
        BY <2>1, <2>2
      <3>2. sent'[c] = Append(sent[c], rq) /\ \A d \in Conn : d # c => sent'[d] = sent[d]
        BY <1>4 DEF SendRq, Types
      <3>3. QED
        BY <3>1, <3>2
    <2>4. Len(<< rq >>) = 1 /\ Head(<< rq >>) = rq
      OBVIOUS
    <2>5. UNCHANGED <<map, living, gone, pc>> /\ c \notin gone
      BY <1>4 DEF SendRq, ServerVars
    <2>6. rq = "start" => map[c] = NoUser
      BY <1>4, <2>2, <2>5 DEF OneRequest
    <2>7. QED
      BY <2>2, <2>3, <2>4, <2>5, <2>6 DEF OneRequest
  <1>5. ASSUME NEW c \in Conn, Leave(c) PROVE OneRequest'
    <2>1. \A d \in Conn : d # c => (living'[d] <=> living[d])
      BY <1>5, LivingAt, Zenon DEF Leave
    <2>2. gone' = gone \cup {c} /\ UNCHANGED <<map, sent, pc>>
      BY <1>5 DEF Leave, ServerVars
    <2>3. QED
      BY <2>1, <2>2 DEF OneRequest
  <1>6. ASSUME NEW c \in Conn, Close(c) PROVE OneRequest'
    <2>1. /\ sent[c] = << >> /\ pc'[c] = "closed" /\ gone' = gone \ {c}
          /\ \A d \in Conn : d # c => pc'[d] = pc[d]
          /\ UNCHANGED <<map, living, sent>>
      BY <1>6 DEF Close, Goto, Types
    <2>2. QED
      BY <2>1 DEF OneRequest
  <1>7. ASSUME NEW c \in Conn, Receive(c) PROVE OneRequest'
    <2>1. sent[c] \in Seq(Rq) /\ sent[c] # << >> /\ Len(sent[c]) = 1
      BY <1>7 DEF Receive, Types, OneRequest
    <2>2. Head(sent[c]) \in Rq /\ Tail(sent[c]) = << >>
      <3>1. Head(sent[c]) \in Rq /\ Tail(sent[c]) \in Seq(Rq) /\ Len(Tail(sent[c])) = 0
        BY <2>1
      <3>2. QED
        BY <3>1, EmptySeq
    <2>3. FirstStep[Head(sent[c])] \in Starts => Head(sent[c]) = "start"
      BY <2>2 DEF FirstStep, Rq
    <2>4. /\ pc'[c] = FirstStep[Head(sent[c])] /\ sent'[c] = << >> /\ pc[c] = "idle"
          /\ \A d \in Conn : d # c => pc'[d] = pc[d] /\ sent'[d] = sent[d]
          /\ UNCHANGED <<map, living, gone>>
      BY <1>7, <2>2 DEF Receive, Goto, Types
    <2>5. QED
      BY <2>1, <2>3, <2>4 DEF OneRequest
  <1>8. ASSUME NEW c \in Conn, NEW p, NEW q, p \notin {"closed", "idle"}, q # "closed",
               q \in Starts => p \in Starts, Goto(c, p, q),
               UNCHANGED <<map, living, sent, gone>>
        PROVE  OneRequest'
    <2>1. pc[c] = p /\ pc'[c] = q /\ \A d \in Conn : d # c => pc'[d] = pc[d]
      BY <1>8 DEF Goto, Types
    <2>2. sent[c] = << >>
      BY <1>8, <2>1 DEF OneRequest
    <2>3. QED
      BY <1>8, <2>1, <2>2 DEF OneRequest
  <1>9. ASSUME NEW c \in Conn, StartMap(c) PROVE OneRequest'
    <2>1. (living'[c] <=> c \notin gone) /\ \A d \in Conn : d # c => (living'[d] <=> living[d])
      BY <1>9, Replied DEF StartMap
    <2>2. /\ pc[c] = "startMap" /\ pc'[c] = "idle" /\ \A d \in Conn : d # c => pc'[d] = pc[d]
          /\ \A d \in Conn : d # c => map'[d] = map[d]
          /\ UNCHANGED <<sent, gone>>
      BY <1>9 DEF StartMap, Mapped, Goto, Types, Iterators
    <2>3. sent[c] = << >>
      BY <2>2 DEF OneRequest
    <2>4. QED
      BY <2>1, <2>2, <2>3 DEF OneRequest
  <1>10. ASSUME NEW c \in Conn, StopErase(c) PROVE OneRequest'
    <2>1. \A d \in Conn : d # c => (living'[d] <=> living[d])
      BY <1>10, Replied DEF StopErase
    <2>2. /\ pc[c] = "stopErase" /\ pc'[c] = "idle" /\ \A d \in Conn : d # c => pc'[d] = pc[d]
          /\ map'[c] = NoUser /\ \A d \in Conn : d # c => map'[d] = map[d]
          /\ UNCHANGED <<sent, gone>>
      BY <1>10 DEF StopErase, Goto, Types, Iterators
    <2>3. sent[c] = << >>
      BY <2>2 DEF OneRequest
    <2>4. QED
      BY <2>1, <2>2, <2>3 DEF OneRequest
  <1>11. ASSUME NEW c \in Conn, Heal(c) PROVE OneRequest'
    <2>1. /\ pc[c] = "listHeal" /\ pc'[c] = "listProbe" /\ \A d \in Conn : d # c => pc'[d] = pc[d]
          /\ \A d \in Conn : map'[d] \in {map[d], NoUser}
          /\ UNCHANGED <<living, sent, gone>>
      BY <1>11 DEF Heal, Goto, Types, Iterators
    <2>2. sent[c] = << >>
      BY <2>1 DEF OneRequest
    <2>3. QED
      BY <2>1, <2>2 DEF OneRequest
  <1>12. ASSUME NEW c \in Conn, Disconnect(c) PROVE OneRequest'
    <2>1. /\ \A d \in Conn : map'[d] \in {map[d], NoUser}
          /\ UNCHANGED <<living, sent, gone, pc>>
      BY <1>12 DEF Disconnect, DisconnectIdle, DisconnectUpdate, DisconnectErase, Types, Iterators
    <2>2. QED
      BY <2>1 DEF OneRequest
  <1>13. ASSUME NEW c \in Conn, \/ StartUser(c) \/ StartDelete(c) \/ StartInsert(c) \/ StopUpdate(c)
                                \/ ProbeOk(c) \/ ProbeFails(c) \/ ProbesDone(c) \/ ListQuery(c)
         PROVE  OneRequest'
    BY <1>8, <1>13 DEF StartUser, StartDelete, StartInsert, StopUpdate, ProbeOk, ProbeFails,
       ProbesDone, ListQuery, ServerVars
  <1>14. ASSUME NEW c \in Conn, Client(c) PROVE OneRequest'
    BY <1>3, <1>4, <1>5, <1>14 DEF Client, AskStart, AskStop, AskList, Rq
  <1>15. QED
    BY <1>1, <1>2, <1>6, <1>7, <1>9, <1>10, <1>11, <1>12, <1>13, <1>14
       DEF Next, Worker, Handler

-----------------------------------------------------------------------------
(* No zombie.                                                              *)

LEMMA WitnessedInit == Init => Witnessed
  BY DEF Init, Fresh, Witnessed

(* A step that loses a witness of a user clears its rows, or ends the       *)
(* process.                                                                *)
LEMMA WitnessKept ==
  ASSUME Witnessed, spoiled => spoiled',
         \A u \in User : on'[u] > 0 /\ ~spoiled' =>
           \/ on[u] > 0 /\ \A c \in Conn : Entered(c, u) \/ Entering(c, u) => (Entered(c, u) \/ Entering(c, u))'
           \/ \E c \in Conn : (Entered(c, u) \/ Entering(c, u))'
  PROVE  Witnessed'
  <1>1. CASE spoiled'
    BY <1>1, Zenon DEF Witnessed
  <1>2. CASE ~spoiled'
    <2>1. ~spoiled
      BY <1>2, Zenon
    <2>2. \A u \in User : on[u] > 0 => \E c \in Conn : Entered(c, u) \/ Entering(c, u)
      BY <2>1, Zenon DEF Witnessed
    <2>3. \A u \in User : on'[u] > 0 => \E c \in Conn : (Entered(c, u) \/ Entering(c, u))'
      BY <1>2, <2>2, Zenon
    <2>4. QED
      BY <2>3, Zenon DEF Witnessed
  <1>3. QED
    BY <1>1, <1>2, Zenon

LEMMA WitnessedNext ==
  ASSUME StaleCleanups = 0
  PROVE  Types /\ Owned /\ OneRequest /\ Witnessed /\ [Next]_vars => Witnessed'
  <1> SUFFICES ASSUME Types, Owned, OneRequest, Witnessed, [Next]_vars PROVE Witnessed'
    OBVIOUS
  <1> USE DEF Open, Entered, Entering, Pending
  <1>1. CASE Crash \/ UseErased
    BY <1>1, Zenon DEF Crash, UseErased, Restart, Witnessed
  <1>2. CASE UNCHANGED vars
    BY <1>2 DEF vars, Witnessed
  <1>3. ASSUME NEW c \in Conn, Client(c) PROVE Witnessed'
    <2>1. /\ pc[c] = "startMap" => user'[c] = user[c] /\ pc'[c] = pc[c]
          /\ \A d \in Conn : d # c => pc'[d] = pc[d] /\ user'[d] = user[d]
          /\ \A d \in Conn : pc'[d] \in {"stopErase", "listHeal"} => pc'[d] = pc[d]
          /\ UNCHANGED <<on, map, it, at, spoiled>>
      BY <1>3 DEF Client, AskStart, AskStop, AskList, SendRq, Leave, Login, Goto, ServerVars, Types
    <2>2. QED
      BY <2>1, WitnessKept
  <1>4. ASSUME NEW c \in Conn, Receive(c) \/ Close(c) PROVE Witnessed'
    <2>1. pc[c] = "idle" /\ pc'[c] \notin {"stopErase", "listHeal", "startMap"}
      <3>1. CASE Receive(c)
        <4>1. sent[c] \in Seq(Rq) /\ sent[c] # << >>
          BY <3>1 DEF Receive, Types
        <4>2. Head(sent[c]) \in Rq
          BY <4>1
        <4>3. QED
          BY <3>1, <4>2 DEF Receive, Goto, FirstStep, Rq, Types
      <3>2. CASE Close(c)
        BY <3>2 DEF Close, Goto, Types
      <3>3. QED
        BY <1>4, <3>1, <3>2
    <2>2. /\ \A d \in Conn : d # c => pc'[d] = pc[d] /\ user'[d] = user[d] /\ it'[d] = it[d]
          /\ UNCHANGED <<on, map, at, spoiled>>
      BY <1>4 DEF Receive, Close, Goto, Types, Iterators
    <2>3. QED
      BY <2>1, <2>2, WitnessKept
  <1>5. ASSUME NEW c \in Conn, NEW p, NEW q, Goto(c, p, q), p # "startMap", q \notin {"stopErase", "listHeal"},
               UNCHANGED <<map, user, at, spoiled>>,
               \A d \in Conn : d # c => it'[d] = it[d],
               \A u \in User : on'[u] > 0 => on[u] > 0 \/ (q = "startMap" /\ user[c] = u)
        PROVE  Witnessed'
    <2>1. pc[c] = p /\ pc'[c] = q /\ \A d \in Conn : d # c => pc'[d] = pc[d]
      BY <1>5 DEF Goto, Types
    <2>2. QED
      BY <1>5, <2>1, WitnessKept
  <1>6. ASSUME NEW c \in Conn, \/ StartUser(c) \/ StartDelete(c) \/ StartInsert(c)
                               \/ ProbeOk(c) \/ ProbesDone(c) \/ ListQuery(c)
        PROVE  Witnessed'
    <2>1. CASE StartUser(c) \/ ProbesDone(c) \/ ListQuery(c)
      BY <1>5, <2>1 DEF StartUser, ProbesDone, ListQuery, ServerVars
    <2>2. CASE StartDelete(c)
      <3>1. \A u \in User : on'[u] \in {on[u], 0}
        BY <2>2 DEF StartDelete, Deleted, Types
      <3>2. QED
        BY <1>5, <2>2, <3>1 DEF StartDelete
    <2>3. CASE StartInsert(c)
      <3>1. CASE Goto(c, "startInsert", "startMap") /\ on' = [on EXCEPT ![user[c]] = @ + 1]
        <4>1. \A u \in User : u # user[c] => on'[u] = on[u]
          BY <3>1 DEF Types
        <4>2. QED
          BY <1>5, <2>3, <3>1, <4>1 DEF StartInsert
      <3>2. CASE Goto(c, "startInsert", "idle") /\ UNCHANGED on
        BY <1>5, <2>3, <3>2 DEF StartInsert
      <3>3. QED
        BY <2>3, <3>1, <3>2 DEF StartInsert
    <2>4. CASE ProbeOk(c)
      <3>1. \A d \in Conn : d # c => it'[d] = it[d]
        BY <2>4 DEF ProbeOk, Types, Iterators
      <3>2. QED
        BY <1>5, <2>4, <3>1 DEF ProbeOk
    <2>5. QED
      BY <1>6, <2>1, <2>2, <2>3, <2>4
  <1>7. ASSUME NEW c \in Conn, StartMap(c) PROVE Witnessed'
    <2>1. /\ pc[c] = "startMap" /\ pc'[c] = "idle" /\ \A d \in Conn : d # c => pc'[d] = pc[d]
          /\ map'[c] = user[c] /\ \A d \in Conn : d # c => map'[d] = map[d]
          /\ UNCHANGED <<on, user, it, at, spoiled>>
      BY <1>7 DEF StartMap, Mapped, Goto, Types, Iterators
    <2>2. map[c] = NoUser
      BY <2>1 DEF OneRequest, Starts
    <2>3. at[c] # c /\ \A d \in Conn : it[d] # c
      BY <2>2 DEF Types, Iterators
    <2>4. (~Pending(c))' /\ \A d \in Conn : d # c => (Pending(d)' => Pending(d))
      BY <2>1, <2>3
    <2>5. \A u \in User : map[c] # u
      BY <2>2, ConnAssumption
    <2>6. \A d \in Conn, u \in User : Entered(d, u) \/ Entering(d, u) => (Entered(d, u) \/ Entering(d, u))'
      BY <2>1, <2>4, <2>5
    <2> HIDE DEF Entered, Entering
    <2>7. QED
      BY <2>1, <2>6, WitnessKept, Zenon
  <1>8. ASSUME NEW c \in Conn, StopUpdate(c) PROVE Witnessed'
    <2>1. CASE Goto(c, "stopUpdate", "idle") /\ UNCHANGED on
      BY <1>5, <1>8, <2>1 DEF StopUpdate
    <2>2. CASE Goto(c, "stopUpdate", "stopErase") /\ on' = StopUpdated(c)
      <3>1. /\ pc[c] = "stopUpdate" /\ pc'[c] = "stopErase" /\ \A d \in Conn : d # c => pc'[d] = pc[d]
            /\ \A u \in User : on'[u] = IF u = user[c] THEN 0 ELSE on[u]
            /\ UNCHANGED <<map, user, it, at, spoiled>>
        BY <1>8, <2>2 DEF StopUpdate, StopUpdated, Goto, Types
      <3>2. map[c] = NoUser \/ map[c] = user[c]
        BY <3>1 DEF Owned, Types
      <3>3. QED
        BY <3>1, <3>2, ConnAssumption, WitnessKept
    <2>3. QED
      BY <1>8, <2>1, <2>2 DEF StopUpdate
  <1>9. ASSUME NEW c \in Conn, NEW e \in Conn, Pending(e), UNCHANGED <<on, user, spoiled>>,
               pc' = pc \/ (pc[c] \in {"stopErase", "listHeal"} /\ pc'[c] \in {"idle", "listProbe"}),
               \A d \in Conn : d # c => pc'[d] = pc[d],
               \A d \in Conn : d # e => map'[d] = map[d] /\ (at'[d] = d => at[d] = d),
               \A d, x \in Conn : it'[d] = x => it[d] = x \/ (d = c /\ pc'[c] # "listHeal")
        PROVE  Witnessed'
    <2>1. \A d \in Conn : d # e => (Pending(d)' => Pending(d))
      BY <1>9
    <2>2. \A d \in Conn, u \in User : Entered(d, u) \/ Entering(d, u) => (Entered(d, u) \/ Entering(d, u))'
      BY <1>9, <2>1
    <2> HIDE DEF Entered, Entering
    <2>3. QED
      BY <1>9, <2>2, WitnessKept, Zenon
  <1>10. ASSUME NEW c \in Conn, StopErase(c) PROVE Witnessed'
    <2>1. /\ pc[c] = "stopErase" /\ pc'[c] = "idle" /\ \A d \in Conn : d # c => pc'[d] = pc[d]
          /\ \A d \in Conn : d # c => map'[d] = map[d]
          /\ it' = Invalidate(it, c) /\ at' = Invalidate(at, c)
          /\ UNCHANGED <<on, user, spoiled>>
      BY <1>10 DEF StopErase, Goto, Types, Iterators
    <2>2. \A d, x \in Conn : (it'[d] = x => it[d] = x) /\ (at'[d] = x => at[d] = x)
      BY <2>1, Invalidated
    <2>3. Pending(c)
      BY <2>1
    <2>4. QED
      BY <1>9, <2>1, <2>2, <2>3
  <1>11. ASSUME NEW e \in Conn, map[e] # NoUser, Offline(e), UNCHANGED <<map, user>>,
                \A d \in Conn : pc'[d] = "startMap" <=> pc[d] = "startMap",
                \A d \in Conn : d # e => (Pending(d)' => Pending(d))
         PROVE  Witnessed'
    <2>1. map[e] \in User
      BY <1>11 DEF Types, Iterators
    <2>2. CASE on' = [on EXCEPT ![map[e]] = 0] /\ spoiled' = spoiled
      <3>1. \A u \in User : on'[u] = IF u = map[e] THEN 0 ELSE on[u]
        BY <2>2 DEF Types
      <3>2. \A u \in User : on'[u] > 0 => on[u] > 0 /\ u # map[e]
        BY <3>1
      <3>3. \A d \in Conn, u \in User : u # map[e] /\ (Entered(d, u) \/ Entering(d, u))
                                        => (Entered(d, u) \/ Entering(d, u))'
        BY <1>11
      <3> HIDE DEF Entered, Entering
      <3>4. QED
        BY <2>2, <3>2, <3>3, WitnessKept, Zenon
    <2>3. CASE spoiled' = TRUE
      BY <2>3, Zenon DEF Witnessed
    <2>4. QED
      BY <1>11, <2>2, <2>3 DEF Offline
  <1>12. ASSUME NEW c \in Conn, ProbeFails(c) PROVE Witnessed'
    <2>1. PICK e \in Conn : e = it[c]
      BY <1>12 DEF ProbeFails
    <2>2. /\ pc[c] = "listProbe" /\ pc'[c] = "listHeal" /\ \A d \in Conn : d # c => pc'[d] = pc[d]
          /\ Offline(e) /\ UNCHANGED <<map, user, it, at>>
      BY <1>12, <2>1 DEF ProbeFails, Goto, Types
    <2>3. map[e] # NoUser
      BY <2>1 DEF Types, Iterators
    <2>4. \A d \in Conn : d # e => (Pending(d)' => Pending(d))
      BY <2>1, <2>2
    <2>5. QED
      BY <1>11, <2>2, <2>3, <2>4
  <1>13. ASSUME NEW c \in Conn, Heal(c) PROVE Witnessed'
    <2>1. PICK e \in Conn : e = it[c]
      BY <1>13 DEF Heal
    <2>2. /\ pc[c] = "listHeal" /\ pc'[c] = "listProbe" /\ \A d \in Conn : d # c => pc'[d] = pc[d]
          /\ \A d \in Conn : d # e => map'[d] = map[d]
          /\ it' = [Invalidate(it, e) EXCEPT ![c] = After(c)] /\ at' = Invalidate(at, e)
          /\ UNCHANGED <<on, user, spoiled>>
      BY <1>13, <2>1 DEF Heal, Goto, Types, Iterators
    <2>3. \A d, x \in Conn : (d # c /\ it'[d] = x => it[d] = x) /\ (at'[d] = x => at[d] = x)
      <3>1. \A d \in Conn : d # c => it'[d] = Invalidate(it, e)[d]
        BY <2>2 DEF Invalidate
      <3>2. QED
        BY <2>2, <3>1, Invalidated
    <2>4. Pending(e)
      BY <2>1, <2>2
    <2>5. QED
      BY <1>9, <2>2, <2>3, <2>4
  <1>14. ASSUME NEW c \in Conn, DisconnectIdle(c) PROVE Witnessed'
    BY <1>14 DEF DisconnectIdle, Witnessed
  <1>15. ASSUME NEW c \in Conn, DisconnectUpdate(c) PROVE Witnessed'
    <2>1. /\ map[c] # NoUser /\ Offline(c) /\ UNCHANGED <<map, user, pc, it>>
          /\ \A d \in Conn : d # c => at'[d] = at[d]
      BY <1>15 DEF DisconnectUpdate, Types, Iterators
    <2>2. \A d \in Conn : d # c => (Pending(d)' => Pending(d))
      BY <2>1
    <2>3. QED
      BY <1>11, <2>1, <2>2
  <1>16. ASSUME NEW c \in Conn, DisconnectErase(c) PROVE Witnessed'
    <2>1. /\ at[c] = c /\ it' = Invalidate(it, c)
          /\ \A d \in Conn : d # c => map'[d] = map[d] /\ at'[d] = at[d]
          /\ UNCHANGED <<on, user, spoiled, pc>>
      BY <1>16 DEF DisconnectErase, Types, Iterators
    <2>2. \A d, x \in Conn : it'[d] = x => it[d] = x
      BY <2>1, Invalidated
    <2>3. Pending(c)
      BY <2>1
    <2>4. \A d, x \in Conn : it'[d] = x => it[d] = x \/ (d = c /\ pc'[c] # "listHeal")
      BY <2>2
    <2>5. \A d \in Conn : d # c => map'[d] = map[d] /\ (at'[d] = d => at[d] = d)
      BY <2>1
    <2>6. pc' = pc /\ (\A d \in Conn : d # c => pc'[d] = pc[d]) /\ UNCHANGED <<on, user, spoiled>>
      BY <2>1
    <2> HIDE DEF Pending
    <2>7. QED
      BY <1>9, <2>3, <2>4, <2>5, <2>6
  <1>17. QED
    BY <1>1, <1>2, <1>3, <1>4, <1>6, <1>7, <1>8, <1>10, <1>12, <1>13, <1>14, <1>15, <1>16
       DEF Next, Worker, Handler, Disconnect

LEMMA WitnessedIsNoZombie ==
  ASSUME Types, Owned, Witnessed
  PROVE  NoZombie
  <1>1. CASE spoiled
    BY <1>1, Zenon DEF NoZombie
  <1>2. CASE ~spoiled
    <2>1. ASSUME NEW u \in User, on[u] > 0
          PROVE  \E c \in Conn : \/ map[c] = u /\ (Open(c) \/ cleanup[c] > 0)
                                 \/ pc[c] = "startMap" /\ user[c] = u
      <3>1. PICK c \in Conn : Entered(c, u) \/ Entering(c, u)
        BY <1>2, <2>1, Zenon DEF Witnessed
      <3>2. map[c] = u => Open(c) \/ cleanup[c] > 0
        BY ConnAssumption DEF Owned
      <3>3. QED
        BY <3>1, <3>2 DEF Entered, Entering
    <2>2. QED
      BY <2>1, Zenon DEF NoZombie
  <1>3. QED
    BY <1>1, <1>2, Zenon

(* The handlers of different connections interleave at every statement; as  *)
(* long as a descriptor is not accepted again before its clean-up is over   *)
(* and a client awaits the reply before it sends again, none of them leaves *)
(* a row on without an entry that some clean-up will find.                  *)
THEOREM NoZombieStays ==
  ASSUME StaleCleanups = 0, MaxSent <= 1
  PROVE  Spec => []NoZombie
  <1> DEFINE IInv == Types /\ Flags /\ Owned /\ OneRequest /\ Witnessed
  <1>1. Init => IInv
    BY TypesInit, FlagsInit, OwnedInit, OneRequestInit, WitnessedInit
  <1>2. IInv /\ [Next]_vars => IInv'
    BY TypesNext, FlagsNext, OwnedNext, OneRequestNext, WitnessedNext
  <1>3. IInv => NoZombie
    BY WitnessedIsNoZombie
  <1>4. QED
    BY <1>1, <1>2, <1>3, PTL DEF Spec

-----------------------------------------------------------------------------
(* The sessions of a user do not overlap.                                  *)

LEMMA OneSessionInit == Init => OneSession
  BY ConnAssumption DEF Init, Fresh, OneSession, Holds, Open

LEMMA OneSessionNext ==
  ASSUME StaleCleanups = 0, Sessions = "one"
  PROVE  Types /\ Owned /\ OneSession /\ [Next]_vars => OneSession'
  <1> SUFFICES ASSUME Types, Owned, OneSession, [Next]_vars PROVE OneSession'
    OBVIOUS
  <1> USE DEF Open
  <1>1. ASSUME \A c \in Conn, u \in User : Holds(c, u)' => Holds(c, u) PROVE OneSession'
    BY <1>1, Zenon DEF OneSession
  <1>2. CASE Crash \/ UseErased
    BY <1>1, <1>2, ConnAssumption DEF Crash, UseErased, Restart, Holds
  <1>3. CASE UNCHANGED vars
    BY <1>1, <1>3 DEF vars, Holds
  <1>4. ASSUME NEW c \in Conn, NEW u \in User, Login(c, u) PROVE OneSession'
    <2>1. map[c] = NoUser
      BY <1>4 DEF Login, Goto, Owned, Types, Iterators
    <2>2. \A d \in Conn : ~Holds(d, u)
      BY <1>4 DEF Login, Holds
    <2>3. /\ user'[c] = u /\ \A d \in Conn : d # c => pc'[d] = pc[d] /\ user'[d] = user[d]
          /\ UNCHANGED map
      BY <1>4 DEF Login, Goto, Types, ServerVars
    <2>4. \A w \in User : map[c] # w
      BY <2>1, ConnAssumption
    <2>5. \A w \in User : Holds(c, w)' => w = u
      BY <2>3, <2>4 DEF Holds
    <2>6. \A d \in Conn, w \in User : d # c /\ Holds(d, w)' => Holds(d, w)
      BY <2>3 DEF Holds
    <2>7. ASSUME NEW d \in Conn, NEW e \in Conn, NEW w \in User, Holds(d, w)', Holds(e, w)'
          PROVE  d = e
      <3>1. CASE w = u
        BY <2>2, <2>6, <2>7, <3>1
      <3>2. CASE w # u
        <4>1. Holds(d, w) /\ Holds(e, w)
          BY <2>5, <2>6, <2>7, <3>2
        <4>2. QED
          BY <4>1, Zenon DEF OneSession
      <3>3. QED
        BY <3>1, <3>2
    <2>8. QED
      BY <2>7, Zenon DEF OneSession
  <1>5. ASSUME NEW c \in Conn, StartMap(c) PROVE OneSession'
    <2>1. /\ pc[c] # "closed" /\ \A d \in Conn : pc'[d] # "closed" => pc[d] # "closed"
          /\ map'[c] = user[c] /\ \A d \in Conn : d # c => map'[d] = map[d]
          /\ UNCHANGED user
      BY <1>5 DEF StartMap, Mapped, Goto, Types, Iterators
    <2>2. QED
      BY <1>1, <2>1 DEF Holds
  <1>6. ASSUME \A d \in Conn : /\ map'[d] \in {map[d], NoUser}
                               /\ pc'[d] # "closed" => pc[d] # "closed" /\ user'[d] = user[d]
        PROVE  OneSession'
    BY <1>1, <1>6, ConnAssumption DEF Holds
  <1>7. ASSUME NEW c \in Conn, (\E rq \in Rq : SendRq(c, rq)) \/ Leave(c) \/ Disconnect(c) PROVE OneSession'
    BY <1>6, <1>7 DEF SendRq, Leave, ServerVars, Disconnect, DisconnectIdle, DisconnectUpdate,
       DisconnectErase, Types, Iterators
  <1>8. ASSUME NEW c \in Conn, Close(c) PROVE OneSession'
    BY <1>6, <1>8 DEF Close, Goto, Types
  <1>9. ASSUME NEW c \in Conn, Receive(c) \/ StartUser(c) \/ StartDelete(c) \/ StartInsert(c)
                               \/ ProbeOk(c) \/ ProbeFails(c) \/ ProbesDone(c) \/ ListQuery(c) \/ StopUpdate(c)
        PROVE OneSession'
    <2>1. UNCHANGED <<map, user>> /\ \A d \in Conn : pc'[d] # "closed" => pc[d] # "closed"
      BY <1>9 DEF Receive, StartUser, StartDelete, StartInsert, ProbeOk, ProbeFails, ProbesDone,
         ListQuery, StopUpdate, Goto, ServerVars, Types
    <2>2. QED
      BY <1>6, <2>1
  <1>10. ASSUME NEW c \in Conn, StopErase(c) \/ Heal(c) PROVE OneSession'
    <2>1. /\ UNCHANGED user /\ \A d \in Conn : pc'[d] # "closed" => pc[d] # "closed"
          /\ \A d \in Conn : map'[d] \in {map[d], NoUser}
      BY <1>10 DEF StopErase, Heal, Goto, Types, Iterators
    <2>2. QED
      BY <1>6, <2>1
  <1>11. QED
    BY <1>2, <1>3, <1>4, <1>5, <1>7, <1>8, <1>9, <1>10
       DEF Next, Client, AskStart, AskStop, AskList, Rq, Worker, Handler

-----------------------------------------------------------------------------
(* A client that is live is in the list.                                   *)

LEMMA ListedInit == Init => Listed
  BY DEF Init, Fresh, Listed, RowOf

(* A step leaves a connection and its rows alone, or the connection is      *)
(* closed.                                                                 *)
LEMMA RowKept ==
  ASSUME Owned, Listed, NEW d \in Conn, pc'[d] = pc[d], user'[d] = user[d], d \in gone => d \in gone',
         living'[d] => living[d], Open(d) => on'[user[d]] = on[user[d]]
  PROVE  RowOf(d)'
  <1>1. CASE Open(d)
    BY <1>1 DEF Listed, RowOf
  <1>2. CASE ~Open(d)
    BY <1>2 DEF Owned, Open, RowOf
  <1>3. QED
    BY <1>1, <1>2

(* A step of the session of u writes no rows but those of u.               *)
LEMMA OtherRows ==
  ASSUME Types, OneSession, NEW e \in Conn, NEW u \in User, Holds(e, u),
         \A w \in User : w # u => on'[w] = on[w]
  PROVE  \A d \in Conn : d # e /\ Open(d) => on'[user[d]] = on[user[d]]
  <1>1. ASSUME NEW d \in Conn, d # e, Open(d) PROVE user[d] \in User /\ user[d] # u
    <2>1. user[d] \in User
      BY <1>1 DEF Types, Open
    <2>2. Holds(d, user[d])
      BY <1>1 DEF Holds
    <2>3. QED
      BY <1>1, <2>1, <2>2, Zenon DEF OneSession
  <1>2. QED
    BY <1>1

LEMMA ListedNext ==
  ASSUME StaleCleanups = 0, ~DbFaults
  PROVE  Types /\ Flags /\ Owned /\ OneSession /\ Listed /\ [Next]_vars => Listed'
  <1> SUFFICES ASSUME Types, Flags, Owned, OneSession, Listed, [Next]_vars PROVE Listed'
    OBVIOUS
  <1>1. ASSUME \A d \in Conn : RowOf(d)' PROVE Listed'
    BY <1>1, Zenon DEF Listed
  <1>2. CASE Crash \/ UseErased
    BY <1>2 DEF Crash, UseErased, Restart, Listed, RowOf
  <1>3. CASE UNCHANGED vars
    BY <1>3 DEF vars, Listed, RowOf
  <1>4. ASSUME NEW c \in Conn, NEW u \in User, Login(c, u) PROVE Listed'
    <2>1. /\ pc[c] = "closed" /\ pc'[c] = "idle"
          /\ \A d \in Conn : d # c => pc'[d] = pc[d] /\ user'[d] = user[d]
          /\ UNCHANGED <<on, living, gone>>
      BY <1>4 DEF Login, Goto, Types, ServerVars
    <2>2. RowOf(c)'
      BY <2>1 DEF Owned, Open, RowOf
    <2>3. QED
      BY <1>1, <2>1, <2>2, RowKept
  <1>5. ASSUME NEW c \in Conn, (\E rq \in Rq : SendRq(c, rq)) \/ DisconnectIdle(c) \/ DisconnectErase(c)
        PROVE  Listed'
    BY <1>5 DEF SendRq, ServerVars, DisconnectIdle, DisconnectErase, Listed, RowOf
  <1>6. ASSUME NEW c \in Conn, Leave(c) PROVE Listed'
    <2>1. \A d \in Conn : living'[d] => living[d]
      BY <1>6, LivingAt, Zenon DEF Leave
    <2>2. \A d \in Conn : d \in gone => d \in gone'
      BY <1>6 DEF Leave
    <2>3. UNCHANGED <<on, pc, user>>
      BY <1>6 DEF Leave, ServerVars
    <2>4. QED
      BY <1>1, <2>1, <2>2, <2>3, RowKept
  <1>7. ASSUME NEW c \in Conn, Close(c) PROVE Listed'
    <2>1. /\ c \in gone /\ pc'[c] = "closed" /\ gone' = gone \ {c}
          /\ \A d \in Conn : d # c => pc'[d] = pc[d] /\ user'[d] = user[d]
          /\ UNCHANGED <<on, living>>
      BY <1>7 DEF Close, Goto, Types
    <2>2. RowOf(c)'
      BY <2>1 DEF Owned, RowOf
    <2>3. QED
      BY <1>1, <2>1, <2>2, RowKept
  <1>8. ASSUME NEW c \in Conn,
               pc[c] \notin {"startInsert", "startMap", "stopErase"},
               pc'[c] \notin {"startInsert", "startMap", "stopErase"},
               \A d \in Conn : d # c => pc'[d] = pc[d], UNCHANGED <<on, user, living, gone>>
        PROVE  Listed'
    <2>1. RowOf(c)'
      BY <1>8 DEF Listed, RowOf
    <2>2. QED
      BY <1>1, <1>8, <2>1, RowKept
  <1>9. ASSUME NEW c \in Conn, \/ Receive(c) \/ StartUser(c) \/ ProbeOk(c) \/ ProbesDone(c)
                               \/ ListQuery(c) \/ Heal(c)
        PROVE  Listed'
    <2>1. CASE Receive(c)
      <3>1. sent[c] \in Seq(Rq) /\ sent[c] # << >>
        BY <2>1 DEF Receive, Types
      <3>2. Head(sent[c]) \in Rq
        BY <3>1
      <3>3. FirstStep[Head(sent[c])] \notin {"startInsert", "startMap", "stopErase"}
        BY <3>2 DEF FirstStep, Rq
      <3>4. /\ pc[c] = "idle" /\ pc'[c] = FirstStep[Head(sent[c])] /\ \A d \in Conn : d # c => pc'[d] = pc[d]
            /\ UNCHANGED <<on, user, living, gone>>
        BY <2>1 DEF Receive, Goto, Types
      <3>5. QED
        BY <1>8, <3>3, <3>4
    <2>2. CASE StartUser(c) \/ ProbeOk(c) \/ ProbesDone(c) \/ ListQuery(c) \/ Heal(c)
      <3>1. /\ pc[c] \notin {"startInsert", "startMap", "stopErase"}
            /\ pc'[c] \notin {"startInsert", "startMap", "stopErase"}
            /\ \A d \in Conn : d # c => pc'[d] = pc[d]
            /\ UNCHANGED <<on, user, living, gone>>
        BY <2>2 DEF StartUser, ProbeOk, ProbesDone, ListQuery, Heal, Goto, ServerVars, Types
      <3>2. QED
        BY <1>8, <3>1
    <2>3. QED
      BY <1>9, <2>1, <2>2
  <1>10. ASSUME NEW c \in Conn, StartMap(c) \/ StopErase(c) PROVE Listed'
    <2>1. /\ pc[c] \in {"startMap", "stopErase"} /\ pc'[c] = "idle"
          /\ \A d \in Conn : d # c => pc'[d] = pc[d]
          /\ UNCHANGED <<on, user, gone>>
      BY <1>10 DEF StartMap, StopErase, Goto, Types
    <2>2. living'[c] => c \notin gone /\ pc[c] = "startMap"
      <3>1. CASE StartMap(c)
        BY <3>1, Replied DEF StartMap, Goto
      <3>2. CASE StopErase(c)
        BY <3>2, Replied DEF StopErase
      <3>3. QED
        BY <1>10, <3>1, <3>2
    <2>3. \A d \in Conn : d # c => (living'[d] => living[d])
      BY <1>10, Replied DEF StartMap, StopErase
    <2>4. RowOf(c)'
      BY <2>1, <2>2 DEF Listed, RowOf
    <2>5. QED
      BY <1>1, <2>1, <2>3, <2>4, RowKept
  <1>11. ASSUME NEW c \in Conn, StartDelete(c) \/ StartInsert(c) \/ StopUpdate(c) PROVE Listed'
    <2>1. Open(c) /\ user[c] \in User
      BY <1>11 DEF StartDelete, StartInsert, StopUpdate, Goto, Open, Types
    <2>2. /\ \A d \in Conn : d # c => pc'[d] = pc[d]
          /\ UNCHANGED <<user, living, gone>>
      BY <1>11 DEF StartDelete, StartInsert, StopUpdate, Goto, Types
    <2>3. \A w \in User : w # user[c] => on'[w] = on[w]
      BY <1>11 DEF StartDelete, Deleted, StartInsert, StopUpdate, StopUpdated, Types
    <2>4. \A d \in Conn : d # c /\ Open(d) => on'[user[d]] = on[user[d]]
      BY <2>1, <2>3, OtherRows DEF Holds
    <2>5. RowOf(c)'
      <3>1. CASE StartDelete(c)
        <4>1. pc'[c] = "startInsert" /\ on'[user[c]] = 0
          BY <2>1, <3>1 DEF StartDelete, Deleted, Goto, Types
        <4>2. QED
          BY <2>2, <4>1 DEF RowOf
      <3>2. CASE StartInsert(c)
        <4>1. pc[c] = "startInsert" /\ pc'[c] = "startMap" /\ on'[user[c]] = on[user[c]] + 1
          BY <2>1, <3>2 DEF StartInsert, Goto, Types
        <4>2. on[user[c]] = 0
          BY <4>1 DEF Listed, RowOf
        <4>3. QED
          BY <2>2, <4>1, <4>2 DEF RowOf
      <3>3. CASE StopUpdate(c)
        <4>1. pc'[c] = "stopErase"
          BY <3>3 DEF StopUpdate, Goto, Types
        <4>2. QED
          BY <4>1 DEF RowOf
      <3>4. QED
        BY <1>11, <3>1, <3>2, <3>3
    <2>6. QED
      BY <1>1, <2>2, <2>4, <2>5, RowKept
  <1>12. ASSUME NEW e \in Conn, map[e] # NoUser, Offline(e)
         PROVE  /\ \A d \in Conn : d # e /\ Open(d) => on'[user[d]] = on[user[d]]
                /\ \A w \in User : on'[w] \in {0, on[w]}
    <2>1. map[e] \in User /\ Holds(e, map[e])
      BY <1>12 DEF Types, Iterators, Holds
    <2>2. on' = [on EXCEPT ![map[e]] = 0]
      BY <1>12 DEF Offline
    <2>3. \A w \in User : on'[w] = IF w = map[e] THEN 0 ELSE on[w]
      BY <2>2 DEF Types
    <2>4. QED
      BY <2>1, <2>3, OtherRows
  <1>13. ASSUME NEW c \in Conn, ProbeFails(c) PROVE Listed'
    <2>1. PICK e \in Conn : e = it[c]
      BY <1>13 DEF ProbeFails
    <2>2. /\ pc[c] = "listProbe" /\ pc'[c] = "listHeal" /\ \A d \in Conn : d # c => pc'[d] = pc[d]
          /\ ~Open(e) \/ e \in gone
          /\ Offline(e) /\ UNCHANGED <<user, living, gone>>
      BY <1>13, <2>1 DEF ProbeFails, Goto, Types
    <2>3. map[e] # NoUser
      BY <2>1 DEF Types, Iterators
    <2>4. Open(c) /\ (Open(e) => user[e] \in User)
      BY <2>2 DEF Open, Types
    <2>5. RowOf(e)'
      <3>1. ~living'[e]
        BY <2>2 DEF Owned
      <3>2. pc'[e] \in {"startInsert", "startMap"} => pc'[e] = pc[e] /\ Open(e)
        BY <2>2 DEF Open
      <3>3. Open(e) => on'[user[e]] \in {0, on[user[e]]}
        BY <1>12, <2>2, <2>3, <2>4
      <3>4. QED
        BY <2>2, <3>1, <3>2, <3>3 DEF Listed, RowOf
    <2>6. \A d \in Conn : d # e /\ Open(d) => on'[user[d]] = on[user[d]]
      BY <1>12, <2>2, <2>3
    <2>7. \A d \in Conn : d # e /\ d # c => RowOf(d)'
      BY <2>2, <2>6, RowKept
    <2>8. c # e => RowOf(c)'
      BY <2>2, <2>4, <2>6 DEF Listed, RowOf
    <2>9. QED
      BY <1>1, <2>5, <2>7, <2>8
  <1>14. ASSUME NEW c \in Conn, DisconnectUpdate(c) PROVE Listed'
    <2>1. map[c] # NoUser /\ Offline(c) /\ cleanup[c] > 0 /\ UNCHANGED <<pc, user, living, gone>>
      BY <1>14 DEF DisconnectUpdate
    <2>2. \A d \in Conn : Open(d) => on'[user[d]] = on[user[d]]
      BY <1>12, <2>1 DEF Owned
    <2>3. QED
      BY <1>1, <2>1, <2>2, RowKept
  <1>15. QED
    BY <1>2, <1>3, <1>4, <1>5, <1>6, <1>7, <1>9, <1>10, <1>11, <1>13, <1>14
       DEF Next, Client, AskStart, AskStop, AskList, Rq, Worker, Handler, Disconnect

(* Whatever handlers and clean-ups of other connections run at the same     *)
(* time, and however many requests a client has on their way, a client that *)
(* was told it is live has one row on: as long as the sessions of a user do *)
(* not overlap, no descriptor is accepted again before its clean-up is over *)
(* and the statements succeed.                                             *)
THEOREM LiveStaysListed ==
  ASSUME StaleCleanups = 0, Sessions = "one", ~DbFaults
  PROVE  Spec => []LiveIsListed
  <1> DEFINE IInv == Types /\ Flags /\ Owned /\ OneSession /\ Listed
  <1>1. Init => IInv
    BY TypesInit, FlagsInit, OwnedInit, OneSessionInit, ListedInit
  <1>2. IInv /\ [Next]_vars => IInv'
    BY TypesNext, FlagsNext, OwnedNext, OneSessionNext, ListedNext
  <1>3. IInv => LiveIsListed
    BY DEF Listed, RowOf, LiveIsListed
  <1>4. QED
    BY <1>1, <1>2, <1>3, PTL DEF Spec
=============================================================================
