------------------------------ MODULE Gallery ------------------------------
(***************************************************************************)
(* The two pages of thumbnails of OnlineDialog, "recommended" and "my      *)
(* uploads": the client asks for a batch, the server sends of every video  *)
(* a header with the card it belongs to and the gif in blocks, and the     *)
(* client puts a gif on its card when as much came as the header said.     *)
(*                                                                         *)
(* One connection; a worker of the server handles its requests one after   *)
(* the other, the GUI thread handles the packets in order.  What a batch   *)
(* holds is Catalog's concern: here it is any sequence of videos.  Gifs    *)
(* have names of their own (two videos with one gif name share a file).    *)
(***************************************************************************)
EXTENDS Naturals, Sequences, FiniteSets, SequencesExt

CONSTANTS
  Users, Videos,
  NoUser,       \* m_id = 0
  NoVideo,      \* an empty card
  Slots,        \* cards of a page
  MaxSize,      \* blocks of a gif
  MaxRequests,  \* bound: logins and clicks
  MaxChanges,   \* bound: gifs replaced or removed on the server
  MaxLosses     \* bound: connections lost

ASSUME SizesAssumption == {Slots, MaxSize, MaxRequests, MaxChanges, MaxLosses} \subseteq Nat
ASSUME VideosAssumption == IsFiniteSet(Videos)
ASSUME NoneAssumption == NoUser \notin Users /\ NoVideo \notin Videos

VARIABLES
  id,                          \* m_id
  card,                        \* the videos of pb_playN and pb_myplayN
  entry,                       \* m_mapVideoIDToFileInfo
  requests, wire,              \* what is on its way to the server, and back
  job,                         \* the batch a worker sends
  size,                        \* blocks of the gifs on the server's disk, 0 without one
  asked, changes, losses,
  batch, clean, cut            \* history: see Properties

vars == <<id, card, entry, requests, wire, job, size, asked, changes, losses, batch, clean, cut>>
client == <<id, card, entry>>
server == <<job, size, changes>>
history == <<batch, clean, cut>>

Page == {"rec", "his"}
NoJob == [page |-> "none", rest |-> << >>]
Item == [video : Videos, slot : 1 .. Cardinality(Videos), size : 0 .. MaxSize]
Request == [type : {"login"} \cup Page, user : Users]
Header == [type : Page, item : Item]
Block == [type : {"block"}, video : Videos]
LoginReply == [type : {"login"}, user : Users \cup {NoUser}]

TypeOK ==
  /\ id \in Users \cup {NoUser}
  /\ card \in [Page -> [1 .. Slots -> Videos \cup {NoVideo}]]
  /\ \A e \in entry : e \in [page : Page, item : Item, left : 1 .. MaxSize]
  /\ requests \in Seq(Request)
  /\ wire \in Seq(Header \cup Block \cup LoginReply)
  /\ job.page \in Page \cup {"none"} /\ job.rest \in Seq(Item)
  /\ size \in [Videos -> 0 .. MaxSize]
  /\ asked \in 0 .. MaxRequests /\ changes \in 0 .. MaxChanges /\ losses \in 0 .. MaxLosses
  /\ batch \in [Page -> SUBSET Item] /\ clean \in [Page -> BOOLEAN] /\ cut \subseteq Videos

Empty == [s \in 1 .. Slots |-> NoVideo]

Init ==
  /\ id = NoUser /\ card = [p \in Page |-> Empty] /\ entry = {}
  /\ requests = << >> /\ wire = << >> /\ job = NoJob
  /\ size \in [Videos -> 1 .. MaxSize]
  /\ asked = 0 /\ changes = 0 /\ losses = 0
  /\ batch = [p \in Page |-> {}] /\ clean = [p \in Page |-> FALSE] /\ cut = {}

Quiet == requests = << >> /\ wire = << >> /\ job = NoJob

-----------------------------------------------------------------------------
(* The client: what the user does.                                         *)

Ask == asked < MaxRequests /\ asked' = asked + 1

LoginCommit(u) ==
  /\ Ask
  /\ requests' = Append(requests, [type |-> "login", user |-> u])
  /\ UNCHANGED <<client, wire, server, losses, history>>

(* on_pb_fresh_clicked and on_pb_uploadHistory_clicked: the cards are      *)
(* cleared, what is on its way is not.                                     *)
ClearNone(p) == card
Clear(p) == [card EXCEPT ![p] = Empty]
Fresh(p) ==
  /\ id # NoUser /\ Ask
  /\ card' = Clear(p)
  /\ requests' = Append(requests, [type |-> p, user |-> id])
  /\ clean' = [clean EXCEPT ![p] = Quiet]
  /\ UNCHANGED <<id, entry, wire, server, losses, batch, cut>>

-----------------------------------------------------------------------------
(* The server.                                                             *)

Serving(type) == job = NoJob /\ requests # << >> /\ Head(requests).type = type
                 /\ requests' = Tail(requests)

LoginRq ==
  /\ Serving("login")
  /\ \E u \in {Head(requests).user, NoUser} : wire' = Append(wire, [type |-> "login", user |-> u])
  /\ UNCHANGED <<client, server, asked, losses, history>>

Sequences == UNION {{q \in [1 .. n -> Videos] : IsInjective(q)} : n \in 0 .. Cardinality(Videos)}
Items(q) == [i \in DOMAIN q |-> [video |-> q[i], slot |-> i, size |-> size[q[i]]]]

(* The batch goes to job; a video without a gif is left out of the         *)
(* recommended ones before the cards are numbered, of the others after.    *)
DownloadRq ==
  /\ Serving("rec")
  /\ \E q \in Sequences :
       /\ Len(q) <= Slots /\ \A i \in DOMAIN q : size[q[i]] > 0
       /\ job' = [page |-> "rec", rest |-> Items(q)]
       /\ batch' = [batch EXCEPT !["rec"] = ToSet(Items(q))]
  /\ UNCHANGED <<client, wire, size, asked, changes, losses, clean, cut>>
UploadHistoryRq ==
  /\ Serving("his")
  /\ \E q \in Sequences :
       /\ job' = [page |-> "his", rest |-> Items(q)]
       /\ batch' = [batch EXCEPT !["his"] = {it \in ToSet(Items(q)) : it.size > 0}]
  /\ UNCHANGED <<client, wire, size, asked, changes, losses, clean, cut>>

(* The next video: the header says what the size was when the batch was    *)
(* chosen (recommended) or is now (history); the gif is read up to it.     *)
(* An empty gif of the history has a header, a missing one has none.       *)
SendVideo ==
  /\ job # NoJob
  /\ IF job.rest = << >>
     THEN job' = NoJob /\ UNCHANGED <<wire, batch, cut>>
     ELSE LET it == Head(job.rest)
              now == size[it.video]
              item == IF job.page = "rec" THEN it ELSE [it EXCEPT !.size = now]
              n == IF now < item.size THEN now ELSE item.size
              sent == <<[type |-> job.page, item |-> item]>>
                      \o [i \in 1 .. n |-> [type |-> "block", video |-> it.video]]
          IN /\ job' = [job EXCEPT !.rest = Tail(@)]
             /\ wire' \in {wire \o sent} \cup {w \in {wire} : item.size = 0}
             /\ cut' = IF item.size = 0 THEN cut
                       ELSE IF n < item.size THEN cut \cup {it.video} ELSE cut \ {it.video}
             /\ batch' = [batch EXCEPT ![job.page] =
                            IF item.size = 0 \/ n < item.size THEN @ \ {it} ELSE (@ \ {it}) \cup {item}]
  /\ UNCHANGED <<client, requests, size, asked, changes, losses, clean>>

(* A gif is uploaded again under its name, or its file is removed.         *)
Change(v) ==
  /\ changes < MaxChanges /\ changes' = changes + 1
  /\ \E n \in 0 .. MaxSize \ {size[v]} : size' = [size EXCEPT ![v] = n]
  /\ UNCHANGED <<client, requests, wire, job, asked, losses, history>>

-----------------------------------------------------------------------------
(* The client: slot_ReadyData.                                             *)

Received(types) == wire # << >> /\ Head(wire).type \in types /\ wire' = Tail(wire)

(* A login asks for a batch without clearing the page.                     *)
LoginRs ==
  /\ Received({"login"})
  /\ IF Head(wire).user = NoUser
     THEN UNCHANGED <<id, requests, clean>>
     ELSE /\ id' = Head(wire).user
          /\ requests' = Append(requests, [type |-> "rec", user |-> id'])
          /\ clean' = [clean EXCEPT !["rec"] =
                         Len(wire) = 1 /\ requests = << >> /\ job = NoJob /\ card["rec"] = Empty]
  /\ UNCHANGED <<card, entry, server, asked, losses, batch, cut>>

(* slot_downloadRs and slot_uploadHistoryRs: a transfer of the same video  *)
(* that did not end is given up.  Headers without a size are skipped.      *)
LegalAlways(it) == TRUE
Legal(it) == it.size > 0
Other(v) == {e \in entry : e.item.video # v}
DownloadRs ==
  /\ Received(Page)
  /\ LET it == Head(wire).item IN
     entry' = IF Legal(it)
              THEN Other(it.video) \cup {[page |-> Head(wire).type, item |-> it, left |-> it.size]}
              ELSE entry
  /\ UNCHANGED <<id, card, requests, server, asked, losses, history>>

(* slot_fileblockrq.                                                       *)
CompleteLate(left) == left < 1
Complete(left) == left <= 1
Fill(p, s, v) == IF s \in 1 .. Slots THEN [card EXCEPT ![p][s] = v] ELSE card
FileBlock ==
  /\ Received({"block"})
  /\ LET v == Head(wire).video IN
     \/ /\ Other(v) = entry
        /\ UNCHANGED <<card, entry>>
     \/ \E e \in entry :
          /\ e.item.video = v
          /\ IF Complete(e.left)
             THEN entry' = Other(v) /\ card' = Fill(e.page, e.item.slot, v)
             ELSE /\ entry' = Other(v) \cup {[e EXCEPT !.left = @ - 1]}
                  /\ UNCHANGED card
  /\ UNCHANGED <<id, requests, server, asked, losses, history>>

(* The connection is lost: the rest of the job goes nowhere, packets that  *)
(* were received already are still handled; the next request opens a new   *)
(* connection (TcpClientMediator::SendData).                               *)
Lose ==
  /\ ~Quiet /\ losses < MaxLosses /\ losses' = losses + 1
  /\ requests' = << >> /\ job' = NoJob
  /\ \E k \in 0 .. Len(wire) : wire' = SubSeq(wire, 1, k)
  /\ clean' = [p \in Page |-> FALSE]
  /\ cut' = cut \cup {v \in Videos : \E i \in DOMAIN wire \ DOMAIN wire' :
                                      wire[i].type = "block" /\ wire[i].video = v}
  /\ UNCHANGED <<client, size, asked, changes, batch>>

-----------------------------------------------------------------------------
User == (\E u \in Users : LoginCommit(u)) \/ (\E p \in Page : Fresh(p))
Server == LoginRq \/ DownloadRq \/ UploadHistoryRq \/ SendVideo
Receive == LoginRs \/ DownloadRs \/ FileBlock
Next == User \/ Server \/ Receive \/ Lose \/ \E v \in Videos : Change(v)

Spec == Init /\ [][Next]_vars

-----------------------------------------------------------------------------
(* Properties.  batch: what the last batch of a page puts on its cards;    *)
(* clean: the page was cleared, and nothing was on its way, when the       *)
(* last batch was asked for, and no connection was lost since; cut: videos *)
(* whose last transfer was cut short on the server or by a lost connection.*)

(* When everything has arrived a page shows the last batch it asked for,   *)
(* every video on its card and nothing of earlier batches: whatever was    *)
(* left of transfers cut short, and although both pages share the table of *)
(* transfers (slot_fileblockrq, on_pb_fresh_clicked).                      *)
CardsOfLastBatch ==
  \A p \in Page : Quiet /\ clean[p] =>
    \A s \in 1 .. Slots :
      card[p][s] = IF \E it \in batch[p] : it.slot = s
                   THEN (CHOOSE it \in batch[p] : it.slot = s).video
                   ELSE NoVideo

(* A transfer that is not cut short ends: its file is closed and its entry *)
(* removed (slot_fileblockrq).                                             *)
NoLeak == Quiet => \A e \in entry : e.item.video \in cut
=============================================================================
