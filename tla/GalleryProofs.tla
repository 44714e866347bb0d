--------------------------- MODULE GalleryProofs ---------------------------
(***************************************************************************)
(* Theorems about Gallery, for any users, videos, cards, gifs and numbers  *)
(* of requests, changes and lost connections.                              *)
(***************************************************************************)
EXTENDS Gallery, FiniteSetTheorems, SequenceTheorems, TLAPS

Msg == Header \cup Block \cup LoginReply
Entry == [page : Page, item : Item, left : 1 .. MaxSize]
BlockOf(v) == [type |-> "block", video |-> v]
HeaderOf(x, v) == x.type \in Page /\ Legal(x.item) /\ x.item.video = v

(* Of the video v exactly n blocks follow position i of w.                 *)
Runs(w, i, v, n) ==
  /\ i + n <= Len(w)
  /\ \A j \in i + 1 .. i + n : w[j] = BlockOf(v)
  /\ i + n < Len(w) => w[i + n + 1] # BlockOf(v)

(* A block follows another one of its video, or the header.                *)
InRuns(w) ==
  \A i \in DOMAIN w, v \in Videos :
    i > 1 /\ w[i] = BlockOf(v) => w[i - 1] = BlockOf(v) \/ HeaderOf(w[i - 1], v)

(* No more blocks follow than were announced; those in front are for the   *)
(* transfer that waits for them.                                           *)
Announced(w) ==
  \A i \in DOMAIN w, v \in Videos :
    HeaderOf(w[i], v) => \E n \in 0 .. w[i].item.size : Runs(w, i, v, n)
Awaited(w, E) == \A e \in E : \E n \in 0 .. e.left : Runs(w, 0, e.item.video, n)
OneEach(E) == \A e, f \in E : e.item.video = f.item.video => e = f
Flow(w, E) ==
  /\ w \in Seq(Msg) /\ E \subseteq Entry
  /\ InRuns(w) /\ Announced(w) /\ Awaited(w, E) /\ OneEach(E)

(* What was not cut short arrives: the last transfer of v on the wire is   *)
(* whole, or there is none and the one at the client is.                   *)
Coming(w, v) ==
  \E i \in DOMAIN w :
    /\ HeaderOf(w[i], v) /\ Runs(w, i, v, w[i].item.size)
    /\ \A j \in i + 1 .. Len(w) : ~HeaderOf(w[j], v)
Arriving(w, E, v) ==
  /\ \A i \in DOMAIN w : ~HeaderOf(w[i], v)
  /\ \A e \in E : e.item.video = v => Runs(w, 0, v, e.left)
Uncut(w, E, C) == \A v \in Videos \ C : Coming(w, v) \/ Arriving(w, E, v)

-----------------------------------------------------------------------------
(* Runs of blocks.                                                         *)

LEMMA Sizes == /\ Slots \in Nat /\ MaxSize \in Nat /\ MaxRequests \in Nat
               /\ MaxChanges \in Nat /\ MaxLosses \in Nat
  BY SizesAssumption

LEMMA Messages ==
  ASSUME NEW x \in Msg
  PROVE  /\ x.type \in Page => x.item \in Item /\ x.item.video \in Videos /\ x.item.size \in Nat
         /\ x.type = "block" => x = BlockOf(x.video) /\ x.video \in Videos
         /\ \A v : x = BlockOf(v) => x.type = "block" /\ x.video = v
         /\ \A v : HeaderOf(x, v) => x.item \in Item /\ x.item.size \in Nat \ {0} /\ x.type \in Page
  BY Sizes DEF Msg, Header, Block, LoginReply, BlockOf, HeaderOf, Item, Page, Legal

LEMMA Entries ==
  ASSUME NEW e \in Entry
  PROVE  /\ e.page \in Page /\ e.item \in Item /\ e.left \in Nat \ {0} /\ e.left <= MaxSize
         /\ e.item.video \in Videos
  BY Sizes DEF Entry, Item

LEMMA RunsOnce ==
  ASSUME NEW w \in Seq(Msg), NEW i \in Nat, NEW v, NEW n \in Nat, NEW m \in Nat,
         Runs(w, i, v, n), Runs(w, i, v, m)
  PROVE  n = m
  <1>1. ASSUME NEW k \in Nat, NEW l \in Nat, k < l, Runs(w, i, v, k), Runs(w, i, v, l) PROVE FALSE
    <2>1. i + k + 1 \in i + 1 .. i + l /\ i + k < Len(w)
      BY <1>1 DEF Runs
    <2>2. QED
      BY <1>1, <2>1 DEF Runs
  <1>2. QED
    BY <1>1

(* One message is received.                                                *)
LEMMA Taken ==
  ASSUME NEW w \in Seq(Msg), w # << >>
  PROVE  /\ Head(w) = w[1] /\ Head(w) \in Msg /\ Len(w) \in Nat \ {0}
         /\ Tail(w) \in Seq(Msg) /\ Len(Tail(w)) = Len(w) - 1
         /\ DOMAIN w = 1 .. Len(w) /\ DOMAIN Tail(w) = 1 .. Len(w) - 1
         /\ \A i \in 1 .. Len(w) - 1 : Tail(w)[i] = w[i + 1]
  <1>1. Len(w) \in Nat \ {0} /\ Head(w) = w[1] /\ DOMAIN w = 1 .. Len(w)
    BY EmptySeq, LenProperties
  <1>2. QED
    BY <1>1, HeadTailProperties, LenProperties

LEMMA RunsShift ==
  ASSUME NEW w \in Seq(Msg), w # << >>, NEW i \in Nat, NEW v, NEW n \in Nat
  PROVE  Runs(Tail(w), i, v, n) <=> Runs(w, i + 1, v, n)
  <1> DEFINE t == Tail(w)
  <1>1. Len(w) \in Nat /\ Len(t) = Len(w) - 1 /\ \A j \in 1 .. Len(w) - 1 : t[j] = w[j + 1]
    BY Taken
  <1> HIDE DEF t
  <1>2. i + n <= Len(t) <=> i + 1 + n <= Len(w)
    BY <1>1
  <1>3. ASSUME i + n <= Len(t)
        PROVE  (\A j \in i + 1 .. i + n : t[j] = BlockOf(v))
               <=> (\A j \in i + 1 + 1 .. i + 1 + n : w[j] = BlockOf(v))
    <2>1. ASSUME \A j \in i + 1 + 1 .. i + 1 + n : w[j] = BlockOf(v), NEW j \in i + 1 .. i + n
          PROVE  t[j] = BlockOf(v)
      <3>1. j + 1 \in i + 1 + 1 .. i + 1 + n /\ j \in 1 .. Len(w) - 1
        BY <1>1, <1>3, <2>1
      <3>2. QED
        BY <1>1, <2>1, <3>1
    <2>2. ASSUME \A j \in i + 1 .. i + n : t[j] = BlockOf(v), NEW j \in i + 1 + 1 .. i + 1 + n
          PROVE  w[j] = BlockOf(v)
      <3>1. j - 1 \in i + 1 .. i + n /\ j - 1 \in 1 .. Len(w) - 1 /\ j - 1 + 1 = j
        BY <1>1, <1>3, <2>2
      <3>2. QED
        BY <1>1, <2>2, <3>1
    <2>3. QED
      BY <2>1, <2>2
  <1>4. (i + n < Len(t) => t[i + n + 1] # BlockOf(v))
        <=> (i + 1 + n < Len(w) => w[i + 1 + n + 1] # BlockOf(v))
    <2>1. i + n < Len(t) <=> i + 1 + n < Len(w)
      BY <1>1
    <2>2. i + n < Len(t) => t[i + n + 1] = w[i + 1 + n + 1]
      <3>1. i + n < Len(t) => i + n + 1 \in 1 .. Len(w) - 1 /\ i + n + 1 + 1 = i + 1 + n + 1
        BY <1>1
      <3>2. QED
        BY <1>1, <3>1
    <2>3. QED
      BY <2>1, <2>2
  <1>5. QED
    BY <1>2, <1>3, <1>4 DEF Runs, t

LEMMA RunsFront ==
  ASSUME NEW w \in Seq(Msg), w # << >>, NEW v, NEW n \in Nat \ {0}
  PROVE  Runs(w, 0, v, n) <=> Head(w) = BlockOf(v) /\ Runs(w, 1, v, n - 1)
  <1>1. Head(w) = w[1] /\ Len(w) \in Nat
    BY Taken
  <1>2. (\A j \in 0 + 1 .. 0 + n : w[j] = BlockOf(v))
        <=> w[1] = BlockOf(v) /\ \A j \in 1 + 1 .. 1 + (n - 1) : w[j] = BlockOf(v)
    <2>1. 0 + 1 .. 0 + n = {1} \cup (1 + 1 .. 1 + (n - 1))
      OBVIOUS
    <2>2. QED
      BY <2>1
  <1>3. 0 + n = 1 + (n - 1) /\ 0 + n + 1 = 1 + (n - 1) + 1
    OBVIOUS
  <1>4. QED
    BY <1>1, <1>2, <1>3 DEF Runs

(* Nothing in front is for v, and nothing is after the first message.      *)
LEMMA Idle ==
  ASSUME NEW w \in Seq(Msg), w # << >>, InRuns(w), NEW v \in Videos,
         Head(w) # BlockOf(v), ~HeaderOf(Head(w), v)
  PROVE  Runs(w, 0, v, 0) /\ Runs(Tail(w), 0, v, 0)
  <1>1. Head(w) = w[1] /\ Len(w) \in Nat \ {0} /\ DOMAIN w = 1 .. Len(w)
    BY Taken
  <1>2. Runs(w, 0, v, 0)
    BY <1>1 DEF Runs
  <1>3. Runs(w, 1, v, 0)
    <2>1. ASSUME 1 + 0 < Len(w), w[1 + 0 + 1] = BlockOf(v) PROVE FALSE
      <3>1. 2 \in DOMAIN w /\ 2 > 1 /\ 2 - 1 = 1 /\ w[2] = BlockOf(v)
        BY <1>1, <2>1
      <3>2. QED
        BY <1>1, <3>1 DEF InRuns
    <2>2. QED
      BY <1>1, <2>1 DEF Runs
  <1>4. QED
    BY <1>2, <1>3, RunsShift

(* Other messages follow.                                                  *)
LEMMA RunsMore ==
  ASSUME NEW w \in Seq(Msg), NEW t \in Seq(Msg), NEW i \in 0 .. Len(w), NEW v, NEW n \in Nat,
         t # << >> => t[1] # BlockOf(v)
  PROVE  Runs(w \o t, i, v, n) <=> Runs(w, i, v, n)
  <1> DEFINE u == w \o t
  <1>1. /\ Len(w) \in Nat /\ Len(t) \in Nat /\ Len(u) = Len(w) + Len(t)
        /\ \A j \in 1 .. Len(w) : u[j] = w[j]
        /\ Len(t) > 0 => u[Len(w) + 1] # BlockOf(v)
    <2>1. /\ Len(w) \in Nat /\ Len(t) \in Nat /\ Len(u) = Len(w) + Len(t)
          /\ \A j \in 1 .. Len(w) + Len(t) : u[j] = IF j <= Len(w) THEN w[j] ELSE t[j - Len(w)]
      BY ConcatProperties, LenProperties
    <2>2. Len(t) > 0 => t # << >> /\ u[Len(w) + 1] = t[1]
      <3>1. Len(t) > 0 => Len(w) + 1 \in 1 .. Len(w) + Len(t) /\ ~(Len(w) + 1 <= Len(w))
                          /\ Len(w) + 1 - Len(w) = 1
        BY <2>1
      <3>2. QED
        BY <2>1, <3>1
    <2>3. QED
      BY <2>1, <2>2
  <1> HIDE DEF u
  <1>2. ASSUME Runs(w, i, v, n) PROVE Runs(u, i, v, n)
    <2>1. i + n <= Len(u) /\ \A j \in i + 1 .. i + n : u[j] = BlockOf(v)
      <3>1. i + n <= Len(w) /\ \A j \in i + 1 .. i + n : j \in 1 .. Len(w) /\ w[j] = BlockOf(v)
        BY <1>1, <1>2 DEF Runs
      <3>2. \A j \in i + 1 .. i + n : u[j] = BlockOf(v)
        BY <1>1, <3>1
      <3>3. QED
        BY <1>1, <3>1, <3>2
    <2>2. ASSUME i + n < Len(u) PROVE u[i + n + 1] # BlockOf(v)
      <3>1. CASE i + n < Len(w)
        BY <1>1, <1>2, <3>1 DEF Runs
      <3>2. CASE i + n = Len(w)
        BY <1>1, <2>2, <3>2
      <3>3. QED
        BY <1>1, <1>2, <3>1, <3>2 DEF Runs
    <2>3. QED
      BY <2>1, <2>2 DEF Runs
  <1>3. ASSUME Runs(u, i, v, n) PROVE Runs(w, i, v, n)
    <2>1. i + n <= Len(w)
      <3>1. ~(Len(t) > 0 /\ Len(w) + 1 \in i + 1 .. i + n)
        BY <1>1, <1>3 DEF Runs
      <3>2. i + n <= Len(w) + Len(t)
        BY <1>1, <1>3 DEF Runs
      <3>3. QED
        BY <1>1, <3>1, <3>2
    <2>2. \A j \in i + 1 .. i + n : w[j] = BlockOf(v)
      BY <1>1, <1>3, <2>1 DEF Runs
    <2>3. i + n < Len(w) => w[i + n + 1] # BlockOf(v)
      BY <1>1, <1>3 DEF Runs
    <2>4. QED
      BY <2>1, <2>2, <2>3 DEF Runs
  <1>4. QED
    BY <1>2, <1>3 DEF u

LEMMA RunsAfter ==
  ASSUME NEW w \in Seq(Msg), NEW t \in Seq(Msg), NEW i \in 0 .. Len(t), NEW v, NEW n \in Nat
  PROVE  Runs(w \o t, Len(w) + i, v, n) <=> Runs(t, i, v, n)
  <1> DEFINE u == w \o t
             k == Len(w)
  <1>1. /\ k \in Nat /\ Len(t) \in Nat /\ Len(u) = k + Len(t)
        /\ \A j \in 1 .. Len(t) : u[k + j] = t[j]
    <2>1. /\ k \in Nat /\ Len(t) \in Nat /\ Len(u) = k + Len(t)
          /\ \A j \in 1 .. k + Len(t) : u[j] = IF j <= k THEN w[j] ELSE t[j - k]
      BY ConcatProperties, LenProperties
    <2>2. \A j \in 1 .. Len(t) : k + j \in 1 .. k + Len(t) /\ ~(k + j <= k) /\ k + j - k = j
      BY <2>1
    <2>3. QED
      BY <2>1, <2>2
  <1> HIDE DEF u, k
  <1>2. ASSUME i + n <= Len(t)
        PROVE  (\A j \in k + i + 1 .. k + i + n : u[j] = BlockOf(v))
               <=> (\A j \in i + 1 .. i + n : t[j] = BlockOf(v))
    <2>1. ASSUME \A j \in k + i + 1 .. k + i + n : u[j] = BlockOf(v), NEW j \in i + 1 .. i + n
          PROVE  t[j] = BlockOf(v)
      <3>1. k + j \in k + i + 1 .. k + i + n /\ j \in 1 .. Len(t)
        BY <1>1, <1>2
      <3>2. QED
        BY <1>1, <2>1, <3>1
    <2>2. ASSUME \A j \in i + 1 .. i + n : t[j] = BlockOf(v), NEW j \in k + i + 1 .. k + i + n
          PROVE  u[j] = BlockOf(v)
      <3>1. j - k \in i + 1 .. i + n /\ j - k \in 1 .. Len(t) /\ k + (j - k) = j
        BY <1>1, <1>2
      <3>2. QED
        BY <1>1, <2>2, <3>1
    <2>3. QED
      BY <2>1, <2>2
  <1>3. (k + i + n < Len(u) => u[k + i + n + 1] # BlockOf(v))
        <=> (i + n < Len(t) => t[i + n + 1] # BlockOf(v))
    <2>1. k + i + n < Len(u) <=> i + n < Len(t)
      BY <1>1
    <2>2. i + n < Len(t) => u[k + i + n + 1] = t[i + n + 1]
      <3> DEFINE j == i + n + 1
      <3>1. i + n < Len(t) => j \in 1 .. Len(t)
        BY <1>1
      <3>2. k + j = k + i + n + 1
        BY <1>1
      <3> HIDE DEF j
      <3>3. i + n < Len(t) => u[k + j] = t[j]
        BY <1>1, <3>1
      <3>4. QED
        BY <3>2, <3>3 DEF j
    <2>3. QED
      BY <2>1, <2>2
  <1>4. k + i + n <= Len(u) <=> i + n <= Len(t)
    BY <1>1
  <1>5. QED
    BY <1>2, <1>3, <1>4 DEF Runs, u, k

(* A connection is lost: the first k messages stay.                        *)
LEMMA RunsKept ==
  ASSUME NEW w \in Seq(Msg), NEW k \in 0 .. Len(w), NEW i \in 0 .. k, NEW v, NEW n \in Nat,
         Runs(w, i, v, n)
  PROVE  LET s == SubSeq(w, 1, k) IN
         /\ \E m \in 0 .. n : Runs(s, i, v, m)
         /\ (\A j \in k + 1 .. Len(w) : w[j] # BlockOf(v)) => Runs(s, i, v, n)
  <1> DEFINE s == SubSeq(w, 1, k)
  <1>1. Len(w) \in Nat /\ Len(s) = k /\ \A j \in 1 .. k : s[j] = w[j]
    BY LenProperties, SubSeqProperties
  <1> HIDE DEF s
  <1>2. i + n <= Len(w) /\ \A j \in i + 1 .. i + n : w[j] = BlockOf(v)
    BY DEF Runs
  <1>3. ASSUME i + n <= k PROVE Runs(s, i, v, n)
    <2>1. \A j \in i + 1 .. i + n : s[j] = BlockOf(v)
      BY <1>1, <1>2, <1>3
    <2>2. i + n < k => s[i + n + 1] # BlockOf(v)
      BY <1>1, <1>3 DEF Runs
    <2>3. QED
      BY <1>1, <1>3, <2>1, <2>2 DEF Runs
  <1>4. ASSUME ~(i + n <= k) PROVE Runs(s, i, v, k - i) /\ k - i \in 0 .. n /\ w[k + 1] = BlockOf(v)
    <2>1. k - i \in 0 .. n /\ i + (k - i) = k /\ k + 1 \in i + 1 .. i + n
      BY <1>1, <1>4
    <2>2. \A j \in i + 1 .. i + (k - i) : s[j] = BlockOf(v)
      BY <1>1, <1>2, <1>4
    <2>3. QED
      BY <1>1, <1>2, <2>1, <2>2 DEF Runs
  <1>5. (\A j \in k + 1 .. Len(w) : w[j] # BlockOf(v)) => Runs(s, i, v, n)
    <2>1. ~(i + n <= k) => k + 1 \in k + 1 .. Len(w)
      BY <1>1, <1>2
    <2>2. QED
      BY <1>3, <1>4, <2>1
  <1>6. \E m \in 0 .. n : Runs(s, i, v, m)
    BY <1>3, <1>4
  <1>7. QED
    BY <1>5, <1>6 DEF s

-----------------------------------------------------------------------------
(* The wire and the transfers: messages are received, sent and lost.       *)

LEMMA TailFlow ==
  ASSUME NEW w \in Seq(Msg), w # << >>, InRuns(w), Announced(w)
  PROVE  InRuns(Tail(w)) /\ Announced(Tail(w))
  <1> DEFINE t == Tail(w)
  <1>1. /\ Len(w) \in Nat \ {0} /\ DOMAIN w = 1 .. Len(w) /\ DOMAIN t = 1 .. Len(w) - 1
        /\ \A i \in 1 .. Len(w) - 1 : t[i] = w[i + 1]
    BY Taken
  <1>2. \A v : \A i \in Nat, n \in Nat : Runs(t, i, v, n) <=> Runs(w, i + 1, v, n)
    BY RunsShift
  <1> HIDE DEF t
  <1>3. ASSUME NEW i \in DOMAIN t, NEW v \in Videos, i > 1, t[i] = BlockOf(v)
        PROVE  t[i - 1] = BlockOf(v) \/ HeaderOf(t[i - 1], v)
    <2>1. i + 1 \in DOMAIN w /\ i + 1 > 1 /\ w[i + 1] = BlockOf(v) /\ i + 1 - 1 = i
      BY <1>1, <1>3
    <2>2. t[i - 1] = w[i]
      <3>1. i - 1 \in 1 .. Len(w) - 1 /\ i - 1 + 1 = i
        BY <1>1, <1>3
      <3>2. QED
        BY <1>1, <3>1
    <2>3. \A k \in DOMAIN w : k > 1 /\ w[k] = BlockOf(v) => w[k - 1] = BlockOf(v) \/ HeaderOf(w[k - 1], v)
      BY DEF InRuns
    <2>4. w[i] = BlockOf(v) \/ HeaderOf(w[i], v)
      BY <2>1, <2>3
    <2>5. QED
      BY <2>2, <2>4
  <1>4. ASSUME NEW i \in DOMAIN t, NEW v \in Videos, HeaderOf(t[i], v)
        PROVE  \E n \in 0 .. t[i].item.size : Runs(t, i, v, n)
    <2>1. i \in Nat /\ i + 1 \in DOMAIN w /\ t[i] = w[i + 1]
      BY <1>1
    <2>2. PICK n \in 0 .. w[i + 1].item.size : Runs(w, i + 1, v, n)
      BY <1>4, <2>1 DEF Announced
    <2>3. n \in Nat
      BY <1>4, <2>1, ElementOfSeq, Messages, <1>1
    <2>4. Runs(t, i, v, n) /\ n \in 0 .. t[i].item.size
      <3>1. Runs(t, i, v, n)
        BY <1>2, <2>1, <2>2, <2>3
      <3>2. n \in 0 .. t[i].item.size
        BY <2>1, <2>2
      <3>3. QED
        BY <3>1, <3>2
    <2>5. QED
      BY <2>4
  <1>5. QED
    BY <1>3, <1>4 DEF InRuns, Announced, t

(* An entry whose video is not at the head of the wire does not end.       *)
LEMMA Waiting ==
  ASSUME NEW w \in Seq(Msg), w # << >>, InRuns(w), NEW e \in Entry,
         Head(w) # BlockOf(e.item.video), ~HeaderOf(Head(w), e.item.video)
  PROVE  /\ Runs(Tail(w), 0, e.item.video, 0)
         /\ ~Runs(w, 0, e.item.video, e.left) /\ ~Runs(Tail(w), 0, e.item.video, e.left)
  <1>1. e.item.video \in Videos /\ e.left \in Nat /\ e.left # 0 /\ Tail(w) \in Seq(Msg)
    BY Entries, Taken
  <1>2. Runs(w, 0, e.item.video, 0) /\ Runs(Tail(w), 0, e.item.video, 0)
    BY <1>1, Idle
  <1>3. QED
    BY <1>1, <1>2, RunsOnce

LEMMA ComingTail ==
  ASSUME NEW w \in Seq(Msg), w # << >>, NEW v \in Videos, Coming(w, v)
  PROVE  \/ Coming(Tail(w), v)
         \/ /\ HeaderOf(Head(w), v) /\ Runs(Tail(w), 0, v, Head(w).item.size)
            /\ \A i \in DOMAIN Tail(w) : ~HeaderOf(Tail(w)[i], v)
  <1> DEFINE t == Tail(w)
  <1>1. /\ Len(w) \in Nat \ {0} /\ DOMAIN w = 1 .. Len(w) /\ DOMAIN t = 1 .. Len(w) - 1
        /\ Head(w) = w[1] /\ Len(t) = Len(w) - 1
        /\ \A i \in 1 .. Len(w) - 1 : t[i] = w[i + 1]
    BY Taken
  <1>2. \A i \in Nat, n \in Nat : Runs(t, i, v, n) <=> Runs(w, i + 1, v, n)
    BY RunsShift
  <1>3. PICK i \in DOMAIN w : /\ HeaderOf(w[i], v) /\ Runs(w, i, v, w[i].item.size)
                             /\ \A j \in i + 1 .. Len(w) : ~HeaderOf(w[j], v)
    BY DEF Coming
  <1>4. w[i].item.size \in Nat
    BY <1>1, <1>3, ElementOfSeq, Messages
  <1> HIDE DEF t
  <1>5. CASE i = 1
    <2>1. Runs(t, 0, v, w[1].item.size)
      BY <1>2, <1>3, <1>4, <1>5
    <2>2. \A j \in DOMAIN t : ~HeaderOf(t[j], v)
      <3>1. \A j \in DOMAIN t : j + 1 \in 1 + 1 .. Len(w) /\ t[j] = w[j + 1]
        BY <1>1
      <3>2. QED
        BY <1>3, <1>5, <3>1
    <2>3. QED
      BY <1>1, <1>3, <1>5, <2>1, <2>2 DEF t
  <1>6. CASE i # 1
    <2>1. i - 1 \in DOMAIN t /\ i - 1 \in Nat /\ i - 1 + 1 = i
      BY <1>1, <1>6
    <2>2. t[i - 1] = w[i] /\ Runs(t, i - 1, v, w[i].item.size)
      BY <1>1, <1>2, <1>3, <1>4, <2>1
    <2>3. \A j \in i - 1 + 1 .. Len(t) : ~HeaderOf(t[j], v)
      <3>1. \A j \in i - 1 + 1 .. Len(t) : j \in 1 .. Len(w) - 1 /\ j + 1 \in i + 1 .. Len(w)
        BY <1>1
      <3>2. QED
        BY <1>1, <1>3, <3>1
    <2>4. Coming(t, v)
      BY <1>3, <2>1, <2>2, <2>3 DEF Coming
    <2>5. QED
      BY <2>4 DEF t
  <1>7. QED
    BY <1>5, <1>6

(* What nobody waits for is received: a reply to a login, a header without *)
(* a size, a block of a transfer that was given up.                        *)
LEMMA SkippedFlow ==
  ASSUME NEW w, NEW E, Flow(w, E), w # << >>, NEW C, Uncut(w, E, C),
         \A v \in Videos : ~HeaderOf(Head(w), v),
         \A e \in E : Head(w) # BlockOf(e.item.video)
  PROVE  Flow(Tail(w), E) /\ Uncut(Tail(w), E, C)
  <1>1. w \in Seq(Msg) /\ E \subseteq Entry /\ InRuns(w) /\ Announced(w) /\ OneEach(E)
    BY DEF Flow
  <1>2. /\ Tail(w) \in Seq(Msg) /\ InRuns(Tail(w)) /\ Announced(Tail(w))
        /\ DOMAIN w = 1 .. Len(w) /\ DOMAIN Tail(w) = 1 .. Len(w) - 1 /\ Len(w) \in Nat
        /\ \A i \in 1 .. Len(w) - 1 : Tail(w)[i] = w[i + 1]
    BY <1>1, TailFlow, Taken
  <1>3. ASSUME NEW e \in E
        PROVE  Runs(Tail(w), 0, e.item.video, 0) /\ ~Runs(w, 0, e.item.video, e.left) /\ e.left \in Nat
    BY <1>1, Waiting, Entries
  <1>4. Awaited(Tail(w), E)
    <2>1. \A e \in E : 0 \in 0 .. e.left
      BY <1>3
    <2>2. QED
      BY <1>3, <2>1 DEF Awaited
  <1>5. ASSUME NEW v \in Videos \ C PROVE Coming(Tail(w), v) \/ Arriving(Tail(w), E, v)
    <2>1. CASE Coming(w, v)
      BY <1>1, <2>1, ComingTail
    <2>2. CASE Arriving(w, E, v)
      <3>1. \A i \in DOMAIN Tail(w) : ~HeaderOf(Tail(w)[i], v)
        <4>1. \A i \in 1 .. Len(w) - 1 : i + 1 \in 1 .. Len(w)
          BY <1>2
        <4>2. QED
          BY <1>2, <2>2, <4>1 DEF Arriving
      <3>2. \A e \in E : e.item.video # v
        BY <1>3, <2>2 DEF Arriving
      <3>3. QED
        BY <3>1, <3>2 DEF Arriving
    <2>3. QED
      BY <2>1, <2>2 DEF Uncut
  <1>6. QED
    BY <1>1, <1>2, <1>4, <1>5 DEF Flow, Uncut

(* A header, or a block that a transfer waits for: what becomes of the     *)
(* transfers of its video is N.                                            *)
Others(E, v) == {e \in E : e.item.video # v}

LEMMA HeadIsOf ==
  ASSUME NEW w \in Seq(Msg), w # << >>, NEW v, HeaderOf(Head(w), v) \/ Head(w) = BlockOf(v),
         NEW u, u # v
  PROVE  Head(w) # BlockOf(u) /\ ~HeaderOf(Head(w), u)
  <1>1. Head(w) \in Msg
    BY Taken
  <1>2. BlockOf(v) # BlockOf(u)
    BY DEF BlockOf
  <1>3. HeaderOf(Head(w), v) => Head(w) # BlockOf(u) /\ ~HeaderOf(Head(w), u)
    BY <1>1, Messages DEF HeaderOf, Page
  <1>4. Head(w) = BlockOf(v) => ~HeaderOf(Head(w), u)
    BY DEF BlockOf, HeaderOf, Page
  <1>5. QED
    BY <1>2, <1>3, <1>4

LEMMA TakenFlow ==
  ASSUME NEW w, NEW E, Flow(w, E), w # << >>, NEW v \in Videos, NEW N, N \subseteq Entry,
         HeaderOf(Head(w), v) \/ Head(w) = BlockOf(v),
         \A e \in N : e.item.video = v /\ \E n \in 0 .. e.left : Runs(Tail(w), 0, v, n),
         \A e, f \in N : e = f
  PROVE  Flow(Tail(w), Others(E, v) \cup N)
  <1>1. w \in Seq(Msg) /\ E \subseteq Entry /\ InRuns(w) /\ Announced(w) /\ OneEach(E)
    BY DEF Flow
  <1>2. Tail(w) \in Seq(Msg) /\ InRuns(Tail(w)) /\ Announced(Tail(w))
    BY <1>1, TailFlow, Taken
  <1>3. ASSUME NEW e \in Others(E, v) PROVE \E n \in 0 .. e.left : Runs(Tail(w), 0, e.item.video, n)
    <2>1. e \in Entry /\ e.item.video # v /\ e.left \in Nat
      BY <1>1, Entries DEF Others
    <2>2. Head(w) # BlockOf(e.item.video) /\ ~HeaderOf(Head(w), e.item.video)
      BY <1>1, <2>1, HeadIsOf
    <2>3. Runs(Tail(w), 0, e.item.video, 0)
      BY <1>1, <2>1, <2>2, Waiting
    <2>4. QED
      BY <2>1, <2>3
  <1>4. Awaited(Tail(w), Others(E, v) \cup N)
    BY <1>3 DEF Awaited
  <1>5. OneEach(Others(E, v) \cup N)
    BY <1>1 DEF OneEach, Others
  <1>6. QED
    BY <1>1, <1>2, <1>4, <1>5 DEF Flow, Others

LEMMA TakenUncut ==
  ASSUME NEW w, NEW E, Flow(w, E), w # << >>, NEW v \in Videos, NEW N, NEW C, Uncut(w, E, C),
         HeaderOf(Head(w), v) \/ Head(w) = BlockOf(v),
         \A e \in N : e.item.video = v,
         v \notin C => Coming(Tail(w), v) \/ Arriving(Tail(w), Others(E, v) \cup N, v)
  PROVE  Uncut(Tail(w), Others(E, v) \cup N, C)
  <1> SUFFICES ASSUME NEW u \in Videos \ C, u # v
               PROVE  Coming(Tail(w), u) \/ Arriving(Tail(w), Others(E, v) \cup N, u)
    BY DEF Uncut
  <1>1. w \in Seq(Msg) /\ E \subseteq Entry /\ InRuns(w)
    BY DEF Flow
  <1>2. Head(w) # BlockOf(u) /\ ~HeaderOf(Head(w), u)
    BY <1>1, HeadIsOf
  <1>3. CASE Coming(w, u)
    BY <1>1, <1>2, <1>3, ComingTail
  <1>4. CASE Arriving(w, E, u)
    <2>1. \A i \in DOMAIN Tail(w) : ~HeaderOf(Tail(w)[i], u)
      <3>1. /\ DOMAIN w = 1 .. Len(w) /\ DOMAIN Tail(w) = 1 .. Len(w) - 1 /\ Len(w) \in Nat
            /\ \A i \in 1 .. Len(w) - 1 : Tail(w)[i] = w[i + 1]
        BY <1>1, Taken
      <3>2. \A i \in 1 .. Len(w) - 1 : i + 1 \in 1 .. Len(w)
        BY <3>1
      <3>3. QED
        BY <1>4, <3>1, <3>2 DEF Arriving
    <2>2. ASSUME NEW e \in Others(E, v) \cup N, e.item.video = u PROVE FALSE
      <3>1. e \in E /\ e \in Entry
        BY <1>1, <2>2 DEF Others
      <3>2. Runs(w, 0, u, e.left)
        BY <1>4, <2>2, <3>1 DEF Arriving
      <3>3. ~Runs(w, 0, e.item.video, e.left)
        BY <1>1, <1>2, <2>2, <3>1, Waiting
      <3>4. QED
        BY <2>2, <3>2, <3>3
    <2>3. QED
      BY <2>1, <2>2 DEF Arriving
  <1>5. QED
    BY <1>3, <1>4 DEF Uncut

(* A header with a size opens a transfer.                                  *)
Opened(x) == [page |-> x.type, item |-> x.item, left |-> x.item.size]

LEMMA HeaderFlow ==
  ASSUME NEW w, NEW E, Flow(w, E), w # << >>, NEW v \in Videos, NEW C, Uncut(w, E, C),
         HeaderOf(Head(w), v)
  PROVE  LET F == Others(E, v) \cup {Opened(Head(w))} IN Flow(Tail(w), F) /\ Uncut(Tail(w), F, C)
  <1> DEFINE x == Head(w)
             N == {Opened(x)}
  <1>1. w \in Seq(Msg) /\ Announced(w) /\ DOMAIN w = 1 .. Len(w) /\ Len(w) \in Nat \ {0} /\ x = w[1]
        /\ x \in Msg
    BY Taken DEF Flow
  <1>2. x.item \in Item /\ x.item.size \in 1 .. MaxSize /\ x.type \in Page /\ x.item.video = v
    BY <1>1, Sizes DEF HeaderOf, Msg, Header, Block, LoginReply, Page, Legal, Item
  <1>3. Opened(x) \in Entry /\ Opened(x).item.video = v /\ Opened(x).left = x.item.size
    BY <1>2 DEF Opened, Entry
  <1>4. PICK n \in 0 .. x.item.size : Runs(w, 1, v, n)
    BY <1>1 DEF Announced
  <1>5. Runs(Tail(w), 0, v, n)
    BY <1>1, <1>2, <1>4, RunsShift
  <1>6. Flow(Tail(w), Others(E, v) \cup N)
    BY <1>3, <1>4, <1>5, TakenFlow
  <1>7. ASSUME v \notin C PROVE Coming(Tail(w), v) \/ Arriving(Tail(w), Others(E, v) \cup N, v)
    <2>1. Coming(w, v)
      <3>1. 1 \in DOMAIN w /\ HeaderOf(w[1], v)
        BY <1>1
      <3>2. QED
        BY <1>7, <3>1 DEF Uncut, Arriving
    <2>2. CASE Coming(Tail(w), v)
      BY <2>2
    <2>3. CASE /\ Runs(Tail(w), 0, v, x.item.size)
               /\ \A i \in DOMAIN Tail(w) : ~HeaderOf(Tail(w)[i], v)
      BY <1>3, <2>3 DEF Arriving, Others
    <2>4. QED
      BY <1>1, <2>1, <2>2, <2>3, ComingTail
  <1>8. QED
    BY <1>3, <1>6, <1>7, TakenUncut

(* A block: one less is left, or the transfer ends.                        *)
LEMMA BlockRuns ==
  ASSUME NEW w, NEW E, Flow(w, E), w # << >>, NEW e \in E, Head(w) = BlockOf(e.item.video)
  PROVE  /\ \E n \in 0 .. e.left - 1 : Runs(Tail(w), 0, e.item.video, n)
         /\ Runs(w, 0, e.item.video, e.left) <=> Runs(Tail(w), 0, e.item.video, e.left - 1)
  <1> DEFINE v == e.item.video
  <1>1. w \in Seq(Msg) /\ e \in Entry /\ e.left \in Nat \ {0} /\ Len(w) \in Nat \ {0} /\ Head(w) = w[1]
    BY Taken, Entries DEF Flow
  <1>2. \A n \in Nat \ {0} : Runs(w, 0, v, n) <=> Runs(Tail(w), 0, v, n - 1)
    <2>1. \A n \in Nat \ {0} : Runs(w, 0, v, n) <=> Runs(w, 1, v, n - 1)
      BY <1>1, RunsFront
    <2>2. \A n \in Nat \ {0} : Runs(Tail(w), 0, v, n - 1) <=> Runs(w, 0 + 1, v, n - 1)
      BY <1>1, RunsShift
    <2>3. QED
      BY <2>1, <2>2
  <1>3. PICK n \in 0 .. e.left : Runs(w, 0, v, n)
    BY DEF Flow, Awaited
  <1>4. n # 0
    BY <1>1, <1>3 DEF Runs
  <1>5. n \in Nat \ {0} /\ n - 1 \in 0 .. e.left - 1
    BY <1>1, <1>4
  <1>6. QED
    BY <1>1, <1>2, <1>3, <1>5

LEMMA BlockFlow ==
  ASSUME NEW w, NEW E, Flow(w, E), w # << >>, NEW C, Uncut(w, E, C),
         NEW e \in E, Head(w) = BlockOf(e.item.video),
         NEW N, N = {} \/ (e.left > 1 /\ N = {[e EXCEPT !.left = @ - 1]})
  PROVE  LET F == Others(E, e.item.video) \cup N IN Flow(Tail(w), F) /\ Uncut(Tail(w), F, C)
  <1> DEFINE v == e.item.video
  <1>1. w \in Seq(Msg) /\ e \in Entry /\ e.left \in Nat \ {0} /\ e.left <= MaxSize /\ v \in Videos
    BY Entries DEF Flow
  <1>2. N # {} => LET f == [e EXCEPT !.left = @ - 1]
                  IN f \in Entry /\ f.item.video = v /\ f.left = e.left - 1 /\ N = {f}
    BY <1>1, Sizes DEF Entry
  <1>3. Flow(Tail(w), Others(E, v) \cup N)
    <2>1. N \subseteq Entry /\ (\A f, g \in N : f = g) /\ \A f \in N : f.item.video = v /\ f.left = e.left - 1
      BY <1>2
    <2>2. \E n \in 0 .. e.left - 1 : Runs(Tail(w), 0, v, n)
      BY BlockRuns
    <2>3. QED
      BY <1>1, <2>1, <2>2, TakenFlow
  <1>4. ASSUME v \notin C PROVE Coming(Tail(w), v) \/ Arriving(Tail(w), Others(E, v) \cup N, v)
    <2>1. ~HeaderOf(Head(w), v)
      BY DEF HeaderOf, BlockOf, Page
    <2>2. CASE Coming(w, v)
      BY <1>1, <2>1, <2>2, ComingTail
    <2>3. CASE Arriving(w, E, v)
      <3>1. Runs(Tail(w), 0, v, e.left - 1)
        BY <2>3, BlockRuns DEF Arriving
      <3>2. \A f \in Others(E, v) \cup N : f.item.video = v => f.left = e.left - 1
        BY <1>2 DEF Others
      <3>3. \A i \in DOMAIN Tail(w) : ~HeaderOf(Tail(w)[i], v)
        <4>1. /\ DOMAIN w = 1 .. Len(w) /\ DOMAIN Tail(w) = 1 .. Len(w) - 1 /\ Len(w) \in Nat
              /\ \A i \in 1 .. Len(w) - 1 : Tail(w)[i] = w[i + 1]
          BY <1>1, Taken
        <4>2. \A i \in 1 .. Len(w) - 1 : i + 1 \in 1 .. Len(w)
          BY <4>1
        <4>3. QED
          BY <2>3, <4>1, <4>2 DEF Arriving
      <3>4. QED
        BY <3>1, <3>2, <3>3 DEF Arriving
    <2>4. QED
      BY <1>1, <1>4, <2>2, <2>3 DEF Uncut
  <1>5. QED
    BY <1>1, <1>2, <1>3, <1>4, TakenUncut

(* Messages are sent: all that one handler sends of a video.               *)
LEMMA Joint ==
  ASSUME NEW w \in Seq(Msg), NEW t \in Seq(Msg)
  PROVE  /\ w \o t \in Seq(Msg) /\ Len(w) \in Nat /\ Len(t) \in Nat
         /\ DOMAIN w = 1 .. Len(w) /\ DOMAIN t = 1 .. Len(t)
         /\ Len(w \o t) = Len(w) + Len(t) /\ DOMAIN (w \o t) = 1 .. Len(w) + Len(t)
         /\ \A i \in 1 .. Len(w) : (w \o t)[i] = w[i]
         /\ \A i \in 1 .. Len(t) : (w \o t)[Len(w) + i] = t[i]
  <1>1. /\ w \o t \in Seq(Msg) /\ Len(w) \in Nat /\ Len(t) \in Nat
        /\ DOMAIN w = 1 .. Len(w) /\ DOMAIN t = 1 .. Len(t)
        /\ Len(w \o t) = Len(w) + Len(t)
        /\ \A i \in 1 .. Len(w) + Len(t) : (w \o t)[i] = IF i <= Len(w) THEN w[i] ELSE t[i - Len(w)]
    BY ConcatProperties, LenProperties
  <1>2. DOMAIN (w \o t) = 1 .. Len(w) + Len(t)
    BY <1>1, LenProperties
  <1>3. \A i \in 1 .. Len(t) : Len(w) + i \in 1 .. Len(w) + Len(t) /\ ~(Len(w) + i <= Len(w))
                               /\ Len(w) + i - Len(w) = i
    BY <1>1
  <1>4. \A i \in 1 .. Len(w) : i \in 1 .. Len(w) + Len(t)
    BY <1>1
  <1>5. QED
    BY <1>1, <1>2, <1>3, <1>4

(* An index into what was there, or into what is new.                      *)
LEMMA Position ==
  ASSUME NEW w \in Seq(Msg), NEW t \in Seq(Msg), NEW i \in DOMAIN (w \o t)
  PROVE  \/ i \in DOMAIN w /\ (w \o t)[i] = w[i]
         \/ \E k \in DOMAIN t : i = Len(w) + k /\ (w \o t)[i] = t[k]
  <1>1. i \in 1 .. Len(w) + Len(t) /\ Len(w) \in Nat /\ Len(t) \in Nat
        /\ DOMAIN w = 1 .. Len(w) /\ DOMAIN t = 1 .. Len(t)
    BY Joint
  <1>2. CASE i <= Len(w)
    BY <1>1, <1>2, Joint
  <1>3. CASE ~(i <= Len(w))
    <2>1. i - Len(w) \in 1 .. Len(t) /\ i = Len(w) + (i - Len(w))
      BY <1>1, <1>3
    <2>2. (w \o t)[Len(w) + (i - Len(w))] = t[i - Len(w)]
      BY <2>1, Joint
    <2>3. QED
      BY <1>1, <2>1, <2>2
  <1>4. QED
    BY <1>2, <1>3

LEMMA MoreFlow ==
  ASSUME NEW w, NEW E, Flow(w, E), NEW t \in Seq(Msg), InRuns(t), Announced(t),
         \A v : t # << >> => t[1] # BlockOf(v)
  PROVE  Flow(w \o t, E)
  <1> DEFINE u == w \o t
  <1>1. w \in Seq(Msg) /\ E \subseteq Entry /\ InRuns(w) /\ Announced(w) /\ Awaited(w, E) /\ OneEach(E)
    BY DEF Flow
  <1>2. /\ u \in Seq(Msg) /\ Len(w) \in Nat /\ Len(t) \in Nat
        /\ DOMAIN w = 1 .. Len(w) /\ DOMAIN t = 1 .. Len(t)
        /\ \A i \in 1 .. Len(w) : u[i] = w[i]
        /\ \A i \in 1 .. Len(t) : u[Len(w) + i] = t[i]
    BY <1>1, Joint
  <1>3. ASSUME NEW i \in DOMAIN u, NEW v \in Videos, i > 1, u[i] = BlockOf(v)
        PROVE  u[i - 1] = BlockOf(v) \/ HeaderOf(u[i - 1], v)
    <2>1. CASE i \in DOMAIN w /\ u[i] = w[i]
      <3>1. i - 1 \in 1 .. Len(w) /\ u[i - 1] = w[i - 1]
        BY <1>2, <1>3, <2>1
      <3>2. QED
        BY <1>1, <1>3, <2>1, <3>1 DEF InRuns
    <2>2. ASSUME NEW k \in DOMAIN t, i = Len(w) + k, u[i] = t[k]
          PROVE  u[i - 1] = BlockOf(v) \/ HeaderOf(u[i - 1], v)
      <3>1. k # 1
        <4>1. t # << >>
          BY <1>2, <2>2, EmptySeq
        <4>2. QED
          BY <1>3, <2>2, <4>1
      <3>2. k > 1 /\ k - 1 \in 1 .. Len(t) /\ i - 1 = Len(w) + (k - 1)
        <4>1. k \in 1 .. Len(t) /\ Len(t) \in Nat /\ Len(w) \in Nat
          BY <1>2
        <4>2. k > 1 /\ k - 1 \in 1 .. Len(t) /\ Len(w) + k - 1 = Len(w) + (k - 1)
          BY <3>1, <4>1
        <4>3. QED
          BY <2>2, <4>2
      <3>3. u[i - 1] = t[k - 1]
        BY <1>2, <3>2
      <3>4. QED
        BY <1>3, <2>2, <3>2, <3>3 DEF InRuns
    <2>3. QED
      BY <1>1, <2>1, <2>2, Position
  <1>4. ASSUME NEW i \in DOMAIN u, NEW v \in Videos, HeaderOf(u[i], v)
        PROVE  \E n \in 0 .. u[i].item.size : Runs(u, i, v, n)
    <2>1. u[i].item.size \in Nat
      BY <1>2, <1>4, LenProperties, ElementOfSeq, Messages
    <2>2. CASE i \in DOMAIN w /\ u[i] = w[i]
      <3>1. PICK n \in 0 .. u[i].item.size : Runs(w, i, v, n)
        BY <1>1, <1>4, <2>2 DEF Announced
      <3>2. n \in Nat /\ i \in 0 .. Len(w)
        BY <1>2, <2>1, <2>2
      <3>3. QED
        BY <1>1, <3>1, <3>2, RunsMore
    <2>3. ASSUME NEW k \in DOMAIN t, i = Len(w) + k, u[i] = t[k]
          PROVE  \E n \in 0 .. u[i].item.size : Runs(u, i, v, n)
      <3>1. PICK n \in 0 .. u[i].item.size : Runs(t, k, v, n)
        BY <1>4, <2>3 DEF Announced
      <3>2. n \in Nat /\ k \in 0 .. Len(t)
        BY <1>2, <2>1, <2>3
      <3>3. QED
        BY <1>1, <2>3, <3>1, <3>2, RunsAfter
    <2>4. QED
      BY <1>1, <2>2, <2>3, Position
  <1>5. ASSUME NEW e \in E PROVE \E n \in 0 .. e.left : Runs(u, 0, e.item.video, n)
    <2>1. PICK n \in 0 .. e.left : Runs(w, 0, e.item.video, n)
      BY <1>1 DEF Awaited
    <2>2. e.left \in Nat /\ n \in Nat /\ 0 \in 0 .. Len(w)
      BY <1>1, <1>2, Entries
    <2>3. QED
      BY <1>1, <2>1, <2>2, RunsMore
  <1>6. QED
    BY <1>1, <1>2, <1>3, <1>4, <1>5 DEF Flow, InRuns, Announced, Awaited

LEMMA MoreUncut ==
  ASSUME NEW w, NEW E, Flow(w, E), NEW C, Uncut(w, E, C), NEW t \in Seq(Msg), NEW D,
         \A v : t # << >> => t[1] # BlockOf(v),
         \A v \in Videos \ D :
           Coming(t, v) \/ (v \notin C /\ \A i \in DOMAIN t : ~HeaderOf(t[i], v))
  PROVE  Uncut(w \o t, E, D)
  <1> DEFINE u == w \o t
  <1> SUFFICES ASSUME NEW v \in Videos \ D PROVE Coming(u, v) \/ Arriving(u, E, v)
    BY DEF Uncut
  <1>1. w \in Seq(Msg) /\ E \subseteq Entry
    BY DEF Flow
  <1>2. /\ u \in Seq(Msg) /\ Len(w) \in Nat /\ Len(t) \in Nat /\ Len(u) = Len(w) + Len(t)
        /\ DOMAIN w = 1 .. Len(w) /\ DOMAIN t = 1 .. Len(t) /\ DOMAIN u = 1 .. Len(w) + Len(t)
        /\ \A i \in 1 .. Len(w) : u[i] = w[i]
        /\ \A i \in 1 .. Len(t) : u[Len(w) + i] = t[i]
    BY <1>1, Joint
  <1>3. CASE Coming(t, v)
    <2>1. PICK i \in DOMAIN t : /\ HeaderOf(t[i], v) /\ Runs(t, i, v, t[i].item.size)
                               /\ \A j \in i + 1 .. Len(t) : ~HeaderOf(t[j], v)
      BY <1>3 DEF Coming
    <2>2. t[i].item.size \in Nat /\ i \in 0 .. Len(t)
      BY <1>2, <2>1, ElementOfSeq, Messages
    <2>3. Len(w) + i \in DOMAIN u /\ u[Len(w) + i] = t[i]
      BY <1>2
    <2>4. Runs(u, Len(w) + i, v, t[i].item.size)
      BY <1>1, <2>1, <2>2, RunsAfter
    <2>5. ASSUME NEW j \in Len(w) + i + 1 .. Len(u) PROVE ~HeaderOf(u[j], v)
      <3>1. j - Len(w) \in i + 1 .. Len(t) /\ j - Len(w) \in 1 .. Len(t) /\ Len(w) + (j - Len(w)) = j
        BY <1>2, <2>5
      <3>2. QED
        BY <1>2, <2>1, <3>1
    <2>6. QED
      BY <2>1, <2>3, <2>4, <2>5 DEF Coming
  <1>4. CASE v \notin C /\ \A i \in DOMAIN t : ~HeaderOf(t[i], v)
    <2>1. \A i \in DOMAIN u : HeaderOf(u[i], v) => i \in DOMAIN w /\ u[i] = w[i]
      BY <1>1, <1>4, Position
    <2>2. CASE Coming(w, v)
      <3>1. PICK i \in DOMAIN w : /\ HeaderOf(w[i], v) /\ Runs(w, i, v, w[i].item.size)
                                 /\ \A j \in i + 1 .. Len(w) : ~HeaderOf(w[j], v)
        BY <2>2 DEF Coming
      <3>2. w[i].item.size \in Nat /\ i \in 0 .. Len(w) /\ i \in DOMAIN u /\ u[i] = w[i]
        BY <1>1, <1>2, <3>1, ElementOfSeq, Messages
      <3>3. Runs(u, i, v, w[i].item.size)
        BY <1>1, <3>1, <3>2, RunsMore
      <3>4. ASSUME NEW j \in i + 1 .. Len(u) PROVE ~HeaderOf(u[j], v)
        <4>1. j \in DOMAIN u /\ (j \in DOMAIN w => j \in i + 1 .. Len(w))
          BY <1>2
        <4>2. QED
          BY <2>1, <3>1, <4>1
      <3>5. QED
        BY <3>1, <3>2, <3>3, <3>4 DEF Coming
    <2>3. CASE Arriving(w, E, v)
      <3>1. \A i \in DOMAIN u : ~HeaderOf(u[i], v)
        BY <2>1, <2>3 DEF Arriving
      <3>2. ASSUME NEW e \in E, e.item.video = v PROVE Runs(u, 0, v, e.left)
        <4>1. Runs(w, 0, v, e.left) /\ e.left \in Nat /\ 0 \in 0 .. Len(w)
          BY <1>1, <1>2, <2>3, <3>2, Entries DEF Arriving
        <4>2. QED
          BY <1>1, <4>1, RunsMore
      <3>3. QED
        BY <3>1, <3>2 DEF Arriving
    <2>4. QED
      BY <1>4, <2>2, <2>3 DEF Uncut
  <1>5. QED
    BY <1>3, <1>4

(* What the server sends of a video: its header and n blocks.              *)
Group(page, it, n) ==
  <<[type |-> page, item |-> it]>> \o [i \in 1 .. n |-> [type |-> "block", video |-> it.video]]

IsGroup(g, page, it, n) ==
  /\ g \in Seq(Msg) /\ Len(g) = n + 1 /\ DOMAIN g = 1 .. n + 1 /\ g # << >>
  /\ g[1] = [type |-> page, item |-> it]
  /\ \A i \in 2 .. n + 1 : g[i] = BlockOf(it.video)

LEMMA GroupShape ==
  ASSUME NEW page \in Page, NEW it \in Item, NEW n \in Nat
  PROVE  IsGroup(Group(page, it, n), page, it, n)
  <1> DEFINE h == [type |-> page, item |-> it]
             s == [i \in 1 .. n |-> BlockOf(it.video)]
             g == <<h>> \o s
  <1>1. h \in Msg /\ BlockOf(it.video) \in Msg
    BY DEF Msg, Header, Block, BlockOf, Item
  <1>2. <<h>> \in Seq(Msg) /\ Len(<<h>>) = 1 /\ <<h>>[1] = h
    BY <1>1
  <1>3. s \in Seq(Msg) /\ Len(s) = n /\ \A i \in 1 .. n : s[i] = BlockOf(it.video)
    BY <1>1
  <1> HIDE DEF h, s
  <1>4. /\ g \in Seq(Msg) /\ Len(g) = 1 + n /\ DOMAIN g = 1 .. 1 + n
        /\ g[1] = h /\ \A i \in 1 .. n : g[1 + i] = s[i]
    BY <1>2, <1>3, Joint
  <1>5. \A i \in 2 .. n + 1 : g[i] = BlockOf(it.video)
    <2>1. \A i \in 2 .. n + 1 : i - 1 \in 1 .. n /\ 1 + (i - 1) = i
      OBVIOUS
    <2>2. QED
      BY <1>3, <1>4, <2>1
  <1>6. g # << >>
    BY <1>4, EmptySeq
  <1>7. g = Group(page, it, n)
    BY DEF Group, h, s, BlockOf
  <1>8. IsGroup(g, page, it, n)
    BY <1>4, <1>5, <1>6 DEF h, IsGroup
  <1>9. QED
    BY <1>7, <1>8

LEMMA GroupRuns ==
  ASSUME NEW g, NEW page \in Page, NEW it \in Item, NEW n \in Nat, IsGroup(g, page, it, n)
  PROVE  Runs(g, 1, it.video, n)
  BY DEF IsGroup, Runs

LEMMA GroupHeaders ==
  ASSUME NEW g, NEW page \in Page, NEW it \in Item, NEW n \in Nat, IsGroup(g, page, it, n),
         NEW i \in DOMAIN g, NEW v, HeaderOf(g[i], v)
  PROVE  i = 1 /\ v = it.video /\ Legal(it)
  <1>1. i \in 2 .. n + 1 => ~HeaderOf(g[i], v)
    BY DEF IsGroup, HeaderOf, BlockOf, Page
  <1>2. i = 1
    BY <1>1 DEF IsGroup
  <1>3. QED
    BY <1>2 DEF IsGroup, HeaderOf

LEMMA GroupFlow ==
  ASSUME NEW g, NEW page \in Page, NEW it \in Item, NEW n \in 0 .. it.size, IsGroup(g, page, it, n)
  PROVE  /\ InRuns(g) /\ Announced(g)
         /\ \A v : g[1] # BlockOf(v)
         /\ (n > 0 \/ Legal(it)) /\ n = it.size => Coming(g, it.video)
  <1>1. it.size \in Nat /\ n \in Nat /\ it.video \in Videos
    BY Sizes DEF Item
  <1>2. /\ Len(g) = n + 1 /\ DOMAIN g = 1 .. n + 1 /\ g[1] = [type |-> page, item |-> it]
        /\ \A i \in 2 .. n + 1 : g[i] = BlockOf(it.video)
    BY DEF IsGroup
  <1>3. Runs(g, 1, it.video, n)
    BY <1>1, GroupRuns
  <1>4. \A v : \A i \in DOMAIN g : HeaderOf(g[i], v) => i = 1 /\ v = it.video /\ Legal(it)
    BY <1>1, GroupHeaders
  <1>5. \A v : g[1] # BlockOf(v)
    BY <1>2 DEF BlockOf, Page
  <1>6. ASSUME NEW i \in DOMAIN g, NEW v \in Videos, i > 1, g[i] = BlockOf(v)
        PROVE  g[i - 1] = BlockOf(v) \/ HeaderOf(g[i - 1], v)
    <2>1. i \in 2 .. n + 1 /\ BlockOf(v) = BlockOf(it.video)
      BY <1>1, <1>2, <1>6
    <2>2. v = it.video
      BY <2>1 DEF BlockOf
    <2>3. CASE i = 2
      <3>1. it.size > 0
        BY <1>1, <2>1
      <3>2. QED
        BY <1>2, <2>2, <2>3, <3>1 DEF HeaderOf, Legal
    <2>4. CASE i # 2
      <3>1. i - 1 \in 2 .. n + 1
        BY <1>1, <2>1, <2>4
      <3>2. QED
        BY <1>2, <2>2, <3>1
    <2>5. QED
      BY <2>3, <2>4
  <1>7. Announced(g)
    <2>1. g[1].item.size = it.size
      BY <1>2
    <2>2. QED
      BY <1>3, <1>4, <2>1 DEF Announced
  <1>8. ASSUME n > 0 \/ Legal(it), n = it.size PROVE Coming(g, it.video)
    <2>1. HeaderOf(g[1], it.video) /\ g[1].item.size = n /\ 1 \in DOMAIN g
      BY <1>1, <1>2, <1>8 DEF HeaderOf, Legal
    <2>2. \A j \in 1 + 1 .. Len(g) : ~HeaderOf(g[j], it.video)
      <3>1. \A j \in 1 + 1 .. Len(g) : j \in DOMAIN g /\ j # 1
        BY <1>1, <1>2
      <3>2. QED
        BY <1>4, <3>1
    <2>3. QED
      BY <1>3, <2>1, <2>2 DEF Coming
  <1>9. QED
    BY <1>5, <1>6, <1>7, <1>8 DEF InRuns

(* The connection is lost, and with it what has not arrived.               *)
LEMMA LostFlow ==
  ASSUME NEW w, NEW E, Flow(w, E), NEW k \in 0 .. Len(w)
  PROVE  Flow(SubSeq(w, 1, k), E)
  <1> DEFINE s == SubSeq(w, 1, k)
  <1>1. w \in Seq(Msg) /\ E \subseteq Entry /\ InRuns(w) /\ Announced(w) /\ Awaited(w, E) /\ OneEach(E)
    BY DEF Flow
  <1>2. /\ Len(w) \in Nat /\ DOMAIN w = 1 .. Len(w) /\ s \in Seq(Msg) /\ Len(s) = k
        /\ DOMAIN s = 1 .. k /\ \A i \in 1 .. k : s[i] = w[i] /\ i \in DOMAIN w
    <2>1. Len(w) \in Nat /\ DOMAIN w = 1 .. Len(w)
      BY <1>1, LenProperties
    <2>2. \A i \in 1 .. k : w[i] \in Msg /\ i \in DOMAIN w
      BY <1>1, <2>1, ElementOfSeq
    <2>3. s \in Seq(Msg) /\ Len(s) = k /\ \A i \in 1 .. k : s[i] = w[i]
      BY <2>1, <2>2, SubSeqProperties
    <2>4. QED
      BY <2>1, <2>2, <2>3, LenProperties
  <1>3. \A i \in 0 .. k, n \in Nat, v \in Videos : Runs(w, i, v, n) => \E m \in 0 .. n : Runs(s, i, v, m)
    BY <1>1, RunsKept
  <1> HIDE DEF s
  <1>4. InRuns(s)
    <2>1. ASSUME NEW i \in DOMAIN s, NEW v \in Videos, i > 1, s[i] = BlockOf(v)
          PROVE  s[i - 1] = BlockOf(v) \/ HeaderOf(s[i - 1], v)
      <3>1. i \in DOMAIN w /\ w[i] = BlockOf(v) /\ i - 1 \in 1 .. k
        BY <1>2, <2>1
      <3>2. QED
        BY <1>1, <1>2, <2>1, <3>1 DEF InRuns
    <2>2. QED
      BY <2>1 DEF InRuns
  <1>5. ASSUME NEW i \in DOMAIN s, NEW v \in Videos, HeaderOf(s[i], v)
        PROVE  \E n \in 0 .. s[i].item.size : Runs(s, i, v, n)
    <2>1. i \in DOMAIN w /\ s[i] = w[i] /\ i \in 0 .. k /\ s[i].item.size \in Nat
      BY <1>2, <1>5, ElementOfSeq, Messages
    <2>2. PICK n \in 0 .. s[i].item.size : Runs(w, i, v, n)
      BY <1>1, <1>5, <2>1 DEF Announced
    <2>3. PICK m \in 0 .. n : Runs(s, i, v, m)
      BY <1>3, <2>1, <2>2
    <2>4. m \in 0 .. s[i].item.size
      BY <2>1, <2>2, <2>3
    <2>5. QED
      BY <2>3, <2>4
  <1>6. ASSUME NEW e \in E PROVE \E n \in 0 .. e.left : Runs(s, 0, e.item.video, n)
    <2>1. e.left \in Nat /\ e.item.video \in Videos /\ 0 \in 0 .. k
      BY <1>1, Entries
    <2>2. PICK n \in 0 .. e.left : Runs(w, 0, e.item.video, n)
      BY <1>1 DEF Awaited
    <2>3. PICK m \in 0 .. n : Runs(s, 0, e.item.video, m)
      BY <1>3, <2>1, <2>2
    <2>4. m \in 0 .. e.left
      BY <2>1, <2>2, <2>3
    <2>5. QED
      BY <2>3, <2>4
  <1>7. Announced(s) /\ Awaited(s, E)
    BY <1>5, <1>6 DEF Announced, Awaited
  <1>8. QED
    BY <1>1, <1>2, <1>4, <1>7 DEF Flow, s

LEMMA LostUncut ==
  ASSUME NEW w, NEW E, Flow(w, E), NEW C, Uncut(w, E, C), NEW k \in 0 .. Len(w), NEW D, C \subseteq D,
         \A v \in Videos \ D : \A i \in k + 1 .. Len(w) : w[i] # BlockOf(v)
  PROVE  Uncut(SubSeq(w, 1, k), E, D)
  <1> DEFINE s == SubSeq(w, 1, k)
  <1> SUFFICES ASSUME NEW v \in Videos \ D PROVE Coming(s, v) \/ Arriving(s, E, v)
    BY DEF Uncut
  <1>1. w \in Seq(Msg) /\ E \subseteq Entry
    BY DEF Flow
  <1>2. /\ Len(w) \in Nat /\ DOMAIN w = 1 .. Len(w) /\ Len(s) = k
        /\ DOMAIN s = 1 .. k /\ \A i \in 1 .. k : s[i] = w[i] /\ i \in DOMAIN w
    <2>1. Len(w) \in Nat /\ DOMAIN w = 1 .. Len(w)
      BY <1>1, LenProperties
    <2>2. \A i \in 1 .. k : w[i] \in Msg /\ i \in DOMAIN w
      BY <1>1, <2>1, ElementOfSeq
    <2>3. s \in Seq(Msg) /\ Len(s) = k /\ \A i \in 1 .. k : s[i] = w[i]
      BY <2>1, <2>2, SubSeqProperties
    <2>4. QED
      BY <2>1, <2>2, <2>3, LenProperties
  <1>3. \A i \in 0 .. k, n \in Nat : Runs(w, i, v, n) => Runs(s, i, v, n)
    BY <1>1, RunsKept
  <1> HIDE DEF s
  <1>4. CASE Coming(w, v)
    <2>1. PICK i \in DOMAIN w : /\ HeaderOf(w[i], v) /\ Runs(w, i, v, w[i].item.size)
                               /\ \A j \in i + 1 .. Len(w) : ~HeaderOf(w[j], v)
      BY <1>4 DEF Coming
    <2>2. w[i].item.size \in Nat \ {0}
      BY <1>1, <1>2, <2>1, ElementOfSeq, Messages
    <2>3. i <= k
      <3>1. i + 1 \in i + 1 .. i + w[i].item.size /\ i + w[i].item.size <= Len(w)
        BY <1>2, <2>1, <2>2 DEF Runs
      <3>2. w[i + 1] = BlockOf(v) /\ i + 1 <= Len(w)
        BY <1>2, <2>1, <2>2, <3>1 DEF Runs
      <3>3. ~(i + 1 \in k + 1 .. Len(w))
        BY <3>2
      <3>4. QED
        BY <1>2, <3>2, <3>3
    <2>4. i \in DOMAIN s /\ s[i] = w[i] /\ i \in 0 .. k
      BY <1>2, <2>3
    <2>5. Runs(s, i, v, s[i].item.size)
      BY <1>3, <2>1, <2>2, <2>4
    <2>6. \A j \in i + 1 .. Len(s) : ~HeaderOf(s[j], v)
      <3>1. \A j \in i + 1 .. Len(s) : j \in 1 .. k /\ j \in i + 1 .. Len(w)
        BY <1>2, <2>4
      <3>2. QED
        BY <1>2, <2>1, <3>1
    <2>7. QED
      BY <2>1, <2>4, <2>5, <2>6 DEF Coming
  <1>5. CASE Arriving(w, E, v)
    <2>1. \A e \in E : e.item.video = v => Runs(s, 0, v, e.left)
      BY <1>1, <1>3, <1>5, Entries DEF Arriving
    <2>2. \A i \in DOMAIN s : ~HeaderOf(s[i], v)
      BY <1>2, <1>5 DEF Arriving
    <2>3. QED
      BY <2>1, <2>2 DEF Arriving
  <1>6. QED
    BY <1>4, <1>5 DEF Uncut

-----------------------------------------------------------------------------
(* What a page shows.  S are the videos of its batch that were sent, whole; *)
(* c are its cards.  Each of S is on the wire, at the client or on its     *)
(* card, and nothing else gets to a card.                                  *)

WholeAt(p, w, i) ==
  w[i].type = p /\ Legal(w[i].item) /\ Runs(w, i, w[i].item.video, w[i].item.size)
WholeOf(p, w, e) == e.page = p /\ Runs(w, 0, e.item.video, e.left)
OnWire(p, w, it) == \E i \in DOMAIN w : WholeAt(p, w, i) /\ w[i].item = it
AtClient(p, w, E, it) == \E e \in E : WholeOf(p, w, e) /\ e.item = it
OnCard(c, it) == it.slot \in 1 .. Slots => c[it.slot] = it.video

Shown(p, w, E, S, c) ==
  /\ c \in [1 .. Slots -> Videos \cup {NoVideo}] /\ S \subseteq Item
  /\ \A a, b \in S : a.slot = b.slot => a = b
  /\ \A i \in DOMAIN w : WholeAt(p, w, i) => w[i].item \in S
  /\ \A e \in E : WholeOf(p, w, e) => e.item \in S
  /\ \A s \in 1 .. Slots : c[s] # NoVideo => \E it \in S : it.slot = s /\ it.video = c[s]
  /\ \A it \in S : OnWire(p, w, it) \/ AtClient(p, w, E, it) \/ OnCard(c, it)

LEMMA WholeTail ==
  ASSUME NEW w \in Seq(Msg), w # << >>, NEW p \in Page, NEW i \in 1 .. Len(w) - 1
  PROVE  /\ WholeAt(p, Tail(w), i) <=> WholeAt(p, w, i + 1)
         /\ Tail(w)[i] = w[i + 1] /\ i \in DOMAIN Tail(w) /\ i + 1 \in DOMAIN w
  <1>1. /\ Tail(w)[i] = w[i + 1] /\ i \in DOMAIN Tail(w) /\ i + 1 \in DOMAIN w /\ i \in Nat
        /\ w[i + 1] \in Msg
    <2>1. Len(w) \in Nat /\ i + 1 \in 1 .. Len(w)
      BY Taken
    <2>2. QED
      BY <2>1, Taken, ElementOfSeq
  <1>2. CASE w[i + 1].type = p
    <2>1. w[i + 1].item.size \in Nat
      BY <1>1, <1>2, Messages
    <2>2. Runs(Tail(w), i, w[i + 1].item.video, w[i + 1].item.size)
          <=> Runs(w, i + 1, w[i + 1].item.video, w[i + 1].item.size)
      BY <1>1, <2>1, RunsShift
    <2>3. QED
      BY <1>1, <2>2 DEF WholeAt
  <1>3. CASE w[i + 1].type # p
    BY <1>1, <1>3 DEF WholeAt
  <1>4. QED
    BY <1>1, <1>2, <1>3

(* A message is received: what is left of the wire says the same.          *)
LEMMA WireTail ==
  ASSUME NEW w \in Seq(Msg), w # << >>, NEW p \in Page
  PROVE  /\ \A i \in DOMAIN Tail(w) :
              WholeAt(p, Tail(w), i) => \E k \in DOMAIN w : WholeAt(p, w, k) /\ w[k].item = Tail(w)[i].item
         /\ \A it : OnWire(p, w, it) => OnWire(p, Tail(w), it) \/ (WholeAt(p, w, 1) /\ w[1].item = it)
  <1>1. /\ Len(w) \in Nat /\ DOMAIN w = 1 .. Len(w) /\ DOMAIN Tail(w) = 1 .. Len(w) - 1
    BY Taken
  <1>2. ASSUME NEW i \in DOMAIN Tail(w), WholeAt(p, Tail(w), i)
        PROVE  \E k \in DOMAIN w : WholeAt(p, w, k) /\ w[k].item = Tail(w)[i].item
    BY <1>1, <1>2, WholeTail
  <1>3. ASSUME NEW it, OnWire(p, w, it)
        PROVE  OnWire(p, Tail(w), it) \/ (WholeAt(p, w, 1) /\ w[1].item = it)
    <2>1. PICK i \in DOMAIN w : WholeAt(p, w, i) /\ w[i].item = it
      BY <1>3 DEF OnWire
    <2>2. CASE i = 1
      BY <2>1, <2>2
    <2>3. CASE i # 1
      <3>1. i - 1 \in 1 .. Len(w) - 1 /\ i - 1 + 1 = i
        BY <1>1, <2>3
      <3>2. WholeAt(p, Tail(w), i - 1) /\ Tail(w)[i - 1] = w[i] /\ i - 1 \in DOMAIN Tail(w)
        BY <2>1, <3>1, WholeTail
      <3>3. QED
        BY <2>1, <3>2 DEF OnWire
    <2>4. QED
      BY <2>2, <2>3
  <1>4. QED
    BY <1>2, <1>3

LEMMA SkippedShown ==
  ASSUME NEW w, NEW E, Flow(w, E), w # << >>, NEW p \in Page, NEW S, NEW c, Shown(p, w, E, S, c),
         \A v \in Videos : ~HeaderOf(Head(w), v),
         \A e \in E : Head(w) # BlockOf(e.item.video)
  PROVE  Shown(p, Tail(w), E, S, c)
  <1>1. w \in Seq(Msg) /\ E \subseteq Entry /\ InRuns(w)
    BY DEF Flow
  <1>2. \A e \in E : ~Runs(w, 0, e.item.video, e.left) /\ ~Runs(Tail(w), 0, e.item.video, e.left)
    BY <1>1, Waiting, Entries
  <1>3. ~WholeAt(p, w, 1)
    <2>1. w[1] = Head(w) /\ w[1] \in Msg
      BY <1>1, Taken
    <2>2. WholeAt(p, w, 1) => HeaderOf(w[1], w[1].item.video) /\ w[1].item.video \in Videos
      BY <2>1, Messages DEF WholeAt, HeaderOf
    <2>3. QED
      BY <2>1, <2>2
  <1>4. \A i \in DOMAIN Tail(w) : WholeAt(p, Tail(w), i) => Tail(w)[i].item \in S
    BY <1>1, WireTail DEF Shown
  <1>5. \A it \in S : OnWire(p, Tail(w), it) \/ AtClient(p, Tail(w), E, it) \/ OnCard(c, it)
    BY <1>1, <1>2, <1>3, WireTail DEF Shown, AtClient, WholeOf
  <1>6. \A e \in E : WholeOf(p, Tail(w), e) => e.item \in S
    BY <1>2 DEF WholeOf
  <1>7. QED
    BY <1>4, <1>5, <1>6 DEF Shown

LEMMA HeaderShown ==
  ASSUME NEW w, NEW E, Flow(w, E), w # << >>, NEW p \in Page, NEW S, NEW c, Shown(p, w, E, S, c),
         NEW v \in Videos, HeaderOf(Head(w), v)
  PROVE  Shown(p, Tail(w), Others(E, v) \cup {Opened(Head(w))}, S, c)
  <1> DEFINE x == Head(w)
             N == {Opened(x)}
  <1>1. w \in Seq(Msg) /\ E \subseteq Entry /\ InRuns(w) /\ x = w[1] /\ x \in Msg
    BY Taken DEF Flow
  <1>2. /\ x.type \in Page /\ Legal(x.item) /\ x.item.video = v /\ x.item.size \in Nat
        /\ Opened(x).item = x.item /\ Opened(x).left = x.item.size /\ Opened(x).page = x.type
    BY <1>1, Messages DEF HeaderOf, Opened
  <1>3. Runs(Tail(w), 0, v, x.item.size) <=> Runs(w, 1, v, x.item.size)
    <2>1. Runs(Tail(w), 0, v, x.item.size) <=> Runs(w, 0 + 1, v, x.item.size)
      BY <1>1, <1>2, RunsShift
    <2>2. QED
      BY <2>1
  <1>4. WholeOf(p, Tail(w), Opened(x)) <=> WholeAt(p, w, 1)
    BY <1>1, <1>2, <1>3 DEF WholeOf, WholeAt
  <1>5. ASSUME NEW e \in Others(E, v) PROVE ~WholeOf(p, Tail(w), e)
    <2>1. e \in Entry /\ e.item.video # v
      BY <1>1 DEF Others
    <2>2. Head(w) # BlockOf(e.item.video) /\ ~HeaderOf(Head(w), e.item.video)
      BY <1>1, <2>1, HeadIsOf
    <2>3. QED
      BY <1>1, <2>1, <2>2, Waiting DEF WholeOf
  <1>6. ASSUME NEW e \in E PROVE ~WholeOf(p, w, e)
    <2>1. e.left \in Nat \ {0}
      BY <1>1, Entries
    <2>2. ~Runs(w, 0, e.item.video, e.left)
      <3>1. x # BlockOf(e.item.video)
        BY <1>2 DEF BlockOf, Page
      <3>2. QED
        BY <1>1, <2>1, <3>1, RunsFront
    <2>3. QED
      BY <2>2 DEF WholeOf
  <1>7. \A e \in Others(E, v) \cup N : WholeOf(p, Tail(w), e) => e.item \in S
    <2>1. 1 \in DOMAIN w
      BY <1>1, Taken
    <2>2. QED
      BY <1>1, <1>2, <1>4, <1>5, <2>1 DEF Shown
  <1>8. \A i \in DOMAIN Tail(w) : WholeAt(p, Tail(w), i) => Tail(w)[i].item \in S
    BY <1>1, WireTail DEF Shown
  <1>9. ASSUME NEW it \in S
        PROVE  OnWire(p, Tail(w), it) \/ AtClient(p, Tail(w), Others(E, v) \cup N, it) \/ OnCard(c, it)
    <2>1. CASE OnWire(p, w, it)
      <3>1. WholeAt(p, w, 1) /\ w[1].item = it => AtClient(p, Tail(w), Others(E, v) \cup N, it)
        BY <1>1, <1>2, <1>4 DEF AtClient
      <3>2. QED
        BY <1>1, <2>1, <3>1, WireTail
    <2>2. ~AtClient(p, w, E, it)
      BY <1>6 DEF AtClient
    <2>3. QED
      BY <2>1, <2>2 DEF Shown
  <1>10. QED
    BY <1>7, <1>8, <1>9 DEF Shown

(* A block, and perhaps the last one: the video gets to its card.          *)
Put(c, s, v) == IF s \in 1 .. Slots THEN [c EXCEPT ![s] = v] ELSE c

LEMMA BlockShown ==
  ASSUME NEW w, NEW E, Flow(w, E), w # << >>, NEW p \in Page, NEW S, NEW c, Shown(p, w, E, S, c),
         NEW e \in E, Head(w) = BlockOf(e.item.video), e.left > 1
  PROVE  Shown(p, Tail(w), Others(E, e.item.video) \cup {[e EXCEPT !.left = @ - 1]}, S, c)
  <1> DEFINE v == e.item.video
             g == [e EXCEPT !.left = @ - 1]
  <1>1. w \in Seq(Msg) /\ E \subseteq Entry /\ InRuns(w) /\ OneEach(E) /\ Head(w) = w[1]
    BY Taken DEF Flow
  <1>2. e \in Entry /\ g.page = e.page /\ g.item = e.item /\ g.left = e.left - 1
    BY <1>1 DEF Entry
  <1>3. WholeOf(p, Tail(w), g) <=> WholeOf(p, w, e)
    BY <1>2, BlockRuns DEF WholeOf
  <1>4. ASSUME NEW f \in Others(E, v) PROVE ~WholeOf(p, Tail(w), f) /\ ~WholeOf(p, w, f)
    <2>1. f \in Entry /\ f.item.video # v
      BY <1>1 DEF Others
    <2>2. Head(w) # BlockOf(f.item.video) /\ ~HeaderOf(Head(w), f.item.video)
      BY <1>1, <2>1, HeadIsOf
    <2>3. QED
      BY <1>1, <2>1, <2>2, Waiting DEF WholeOf
  <1>5. \A f \in E : f = e \/ f \in Others(E, v)
    BY <1>1 DEF OneEach, Others
  <1>6. ~WholeAt(p, w, 1)
    BY <1>1 DEF WholeAt, BlockOf, Page
  <1>7. \A f \in Others(E, v) \cup {g} : WholeOf(p, Tail(w), f) => f.item \in S
    BY <1>2, <1>3, <1>4 DEF Shown
  <1>8. \A i \in DOMAIN Tail(w) : WholeAt(p, Tail(w), i) => Tail(w)[i].item \in S
    BY <1>1, WireTail DEF Shown
  <1>9. ASSUME NEW it \in S
        PROVE  OnWire(p, Tail(w), it) \/ AtClient(p, Tail(w), Others(E, v) \cup {g}, it) \/ OnCard(c, it)
    <2>1. OnWire(p, w, it) => OnWire(p, Tail(w), it)
      BY <1>1, <1>6, WireTail
    <2>2. AtClient(p, w, E, it) => AtClient(p, Tail(w), Others(E, v) \cup {g}, it)
      BY <1>2, <1>3, <1>4, <1>5 DEF AtClient
    <2>3. QED
      BY <2>1, <2>2 DEF Shown
  <1>10. QED
    BY <1>7, <1>8, <1>9 DEF Shown

LEMMA LastBlockShown ==
  ASSUME NEW w, NEW E, Flow(w, E), w # << >>, NEW p \in Page, NEW S, NEW c, Shown(p, w, E, S, c),
         NEW e \in E, Head(w) = BlockOf(e.item.video), e.left = 1
  PROVE  Shown(p, Tail(w), Others(E, e.item.video), S,
               IF e.page = p THEN Put(c, e.item.slot, e.item.video) ELSE c)
  <1> DEFINE v == e.item.video
             s == e.item.slot
             d == IF e.page = p THEN Put(c, s, v) ELSE c
  <1>1. w \in Seq(Msg) /\ E \subseteq Entry /\ InRuns(w) /\ OneEach(E) /\ Head(w) = w[1] /\ v \in Videos
    BY Taken, Entries DEF Flow
  <1>2. ASSUME NEW f \in Others(E, v) PROVE ~WholeOf(p, Tail(w), f) /\ ~WholeOf(p, w, f)
    <2>1. f \in Entry /\ f.item.video # v
      BY <1>1 DEF Others
    <2>2. Head(w) # BlockOf(f.item.video) /\ ~HeaderOf(Head(w), f.item.video)
      BY <1>1, <2>1, HeadIsOf
    <2>3. QED
      BY <1>1, <2>1, <2>2, Waiting DEF WholeOf
  <1>3. \A f \in E : f = e \/ f \in Others(E, v)
    BY <1>1 DEF OneEach, Others
  <1>4. ~WholeAt(p, w, 1)
    BY <1>1 DEF WholeAt, BlockOf, Page
  <1>5. \A i \in DOMAIN Tail(w) : WholeAt(p, Tail(w), i) => Tail(w)[i].item \in S
    BY <1>1, WireTail DEF Shown
  <1>6. e.page = p => e.item \in S
    <2>1. Runs(Tail(w), 0, v, 0)
      <3>1. \E n \in 0 .. e.left - 1 : Runs(Tail(w), 0, v, n)
        BY BlockRuns
      <3>2. QED
        BY <3>1
    <2>2. Runs(w, 0, v, e.left)
      BY <2>1, BlockRuns
    <2>3. QED
      BY <2>2 DEF WholeOf, Shown
  <1>7. d \in [1 .. Slots -> Videos \cup {NoVideo}]
    BY <1>1 DEF Put, Shown
  <1>8. \A k \in 1 .. Slots : d[k] = IF e.page = p /\ k = s THEN v ELSE c[k]
    BY DEF Put, Shown
  <1> HIDE DEF d
  <1>9. \A k \in 1 .. Slots : d[k] # NoVideo => \E it \in S : it.slot = k /\ it.video = d[k]
    BY <1>6, <1>8 DEF Shown
  <1>10. ASSUME NEW it \in S
         PROVE  OnWire(p, Tail(w), it) \/ AtClient(p, Tail(w), Others(E, v), it) \/ OnCard(d, it)
    <2>1. OnWire(p, w, it) => OnWire(p, Tail(w), it)
      BY <1>1, <1>4, WireTail
    <2>2. AtClient(p, w, E, it) => it = e.item /\ e.page = p
      BY <1>2, <1>3 DEF AtClient, WholeOf
    <2>3. it = e.item /\ e.page = p => OnCard(d, it)
      BY <1>8 DEF OnCard
    <2>4. OnCard(c, it) => OnCard(d, it)
      <3>1. e.page = p /\ it.slot = s => it = e.item
        BY <1>6 DEF Shown
      <3>2. QED
        BY <1>8, <3>1 DEF OnCard
    <2>5. QED
      BY <2>1, <2>2, <2>3, <2>4 DEF Shown
  <1>11. \A f \in Others(E, v) : WholeOf(p, Tail(w), f) => f.item \in S
    BY <1>2
  <1>12. QED
    BY <1>5, <1>7, <1>9, <1>10, <1>11 DEF Shown, d

LEMMA MoreShown ==
  ASSUME NEW w, NEW E, Flow(w, E), NEW t \in Seq(Msg), \A v : t # << >> => t[1] # BlockOf(v),
         NEW p \in Page, NEW S, NEW c, Shown(p, w, E, S, c), NEW T, S \subseteq T, T \subseteq Item,
         \A a, b \in T : a.slot = b.slot => a = b,
         \A i \in DOMAIN t : WholeAt(p, t, i) => t[i].item \in T,
         \A it \in T \ S : OnWire(p, t, it)
  PROVE  Shown(p, w \o t, E, T, c)
  <1> DEFINE u == w \o t
  <1>1. w \in Seq(Msg) /\ E \subseteq Entry
    BY DEF Flow
  <1>2. /\ u \in Seq(Msg) /\ Len(w) \in Nat /\ Len(t) \in Nat
        /\ DOMAIN w = 1 .. Len(w) /\ DOMAIN t = 1 .. Len(t) /\ DOMAIN u = 1 .. Len(w) + Len(t)
        /\ \A i \in 1 .. Len(w) : u[i] = w[i]
        /\ \A i \in 1 .. Len(t) : u[Len(w) + i] = t[i]
    BY <1>1, Joint
  <1>3. ASSUME NEW i \in DOMAIN w PROVE WholeAt(p, u, i) <=> WholeAt(p, w, i)
    <2>1. u[i] = w[i] /\ i \in 0 .. Len(w) /\ w[i] \in Msg
      BY <1>1, <1>2, ElementOfSeq
    <2>2. w[i].type = p => w[i].item.size \in Nat
      BY <2>1, Messages
    <2>3. w[i].type = p => (Runs(u, i, w[i].item.video, w[i].item.size)
                            <=> Runs(w, i, w[i].item.video, w[i].item.size))
      BY <1>1, <2>1, <2>2, RunsMore
    <2>4. QED
      BY <2>1, <2>3 DEF WholeAt
  <1>4. ASSUME NEW i \in DOMAIN t
        PROVE  (WholeAt(p, u, Len(w) + i) <=> WholeAt(p, t, i)) /\ Len(w) + i \in DOMAIN u
    <2>1. u[Len(w) + i] = t[i] /\ i \in 0 .. Len(t) /\ t[i] \in Msg /\ Len(w) + i \in DOMAIN u
      BY <1>1, <1>2, ElementOfSeq
    <2>2. t[i].type = p => t[i].item.size \in Nat
      BY <2>1, Messages
    <2>3. t[i].type = p => (Runs(u, Len(w) + i, t[i].item.video, t[i].item.size)
                            <=> Runs(t, i, t[i].item.video, t[i].item.size))
      BY <1>1, <2>1, <2>2, RunsAfter
    <2>4. QED
      BY <2>1, <2>3 DEF WholeAt
  <1>5. ASSUME NEW e \in E PROVE WholeOf(p, u, e) <=> WholeOf(p, w, e)
    <2>1. e.left \in Nat /\ 0 \in 0 .. Len(w)
      BY <1>1, <1>2, Entries
    <2>2. QED
      BY <1>1, <2>1, RunsMore DEF WholeOf
  <1>6. ASSUME NEW i \in DOMAIN u, WholeAt(p, u, i) PROVE u[i].item \in T
    <2>1. CASE i \in DOMAIN w /\ u[i] = w[i]
      BY <1>3, <1>6, <2>1 DEF Shown
    <2>2. ASSUME NEW k \in DOMAIN t, i = Len(w) + k, u[i] = t[k] PROVE u[i].item \in T
      BY <1>4, <1>6, <2>2
    <2>3. QED
      BY <1>1, <2>1, <2>2, Position
  <1>7. ASSUME NEW it \in T PROVE OnWire(p, u, it) \/ AtClient(p, u, E, it) \/ OnCard(c, it)
    <2>1. OnWire(p, w, it) => OnWire(p, u, it)
      <3>1. \A i \in DOMAIN w : i \in DOMAIN u /\ u[i] = w[i]
        BY <1>2
      <3>2. QED
        BY <1>3, <3>1 DEF OnWire
    <2>2. OnWire(p, t, it) => OnWire(p, u, it)
      BY <1>2, <1>4 DEF OnWire
    <2>3. AtClient(p, w, E, it) => AtClient(p, u, E, it)
      BY <1>5 DEF AtClient
    <2>4. QED
      BY <2>1, <2>2, <2>3 DEF Shown
  <1>8. \A e \in E : WholeOf(p, u, e) => e.item \in T
    BY <1>5 DEF Shown
  <1> HIDE DEF u
  <1>9. QED
    <2>1. Shown(p, u, E, T, c)
      BY <1>6, <1>7, <1>8 DEF Shown
    <2>2. QED
      BY <2>1 DEF u

-----------------------------------------------------------------------------
(* The invariant.  What a page was promised: while its request is on its   *)
(* way nothing, then of its batch what the server has sent.                *)

AskedIn(r, p) == \E i \in DOMAIN r : r[i].type = p
OnceIn(r, p) == \A i, k \in DOMAIN r : r[i].type = p /\ r[k].type = p => i = k
LeftOf(j, p) == IF j.page = p THEN ToSet(j.rest) ELSE {}
SentOf(r, j, b, p) == IF AskedIn(r, p) THEN {} ELSE b[p] \ LeftOf(j, p)
Order(r, j, b, p) ==
  /\ OnceIn(r, p) /\ (j.page = p => ~AskedIn(r, p))
  /\ \A x \in SentOf(r, j, b, p), y \in LeftOf(j, p) : x.slot # y.slot

Types ==
  /\ id \in Users \cup {NoUser}
  /\ card \in [Page -> [1 .. Slots -> Videos \cup {NoVideo}]]
  /\ requests \in Seq(Request)
  /\ job \in [page : Page \cup {"none"}, rest : Seq(Item)]
  /\ size \in [Videos -> 0 .. MaxSize]
  /\ asked \in 0 .. MaxRequests /\ changes \in 0 .. MaxChanges /\ losses \in 0 .. MaxLosses
  /\ batch \in [Page -> SUBSET Item] /\ cut \subseteq Videos
CleanType == clean \in [Page -> BOOLEAN]
Numbered ==
  /\ job.page = "none" => job.rest = << >>
  /\ \A i, k \in DOMAIN job.rest : job.rest[i].slot = job.rest[k].slot => i = k
Wired == Flow(wire, entry) /\ Uncut(wire, entry, cut)
Served(p) == /\ Order(requests, job, batch, p)
             /\ Shown(p, wire, entry, SentOf(requests, job, batch, p), card[p])
Pages == \A p \in Page : clean[p] => Served(p)

LEMMA Asking ==
  ASSUME NEW r \in Seq(Request), NEW x \in Request, NEW p, x.type # p
  PROVE  /\ AskedIn(Append(r, x), p) <=> AskedIn(r, p)
         /\ OnceIn(Append(r, x), p) <=> OnceIn(r, p)
  <1> DEFINE s == Append(r, x)
  <1>1. /\ Len(r) \in Nat /\ DOMAIN r = 1 .. Len(r) /\ DOMAIN s = 1 .. Len(r) + 1
        /\ \A i \in 1 .. Len(r) : s[i] = r[i]
        /\ s[Len(r) + 1] = x
    OBVIOUS
  <1> HIDE DEF s
  <1>2. \A i \in DOMAIN s : s[i].type = p => i \in DOMAIN r
    BY <1>1
  <1>3. \A i \in DOMAIN r : i \in DOMAIN s /\ s[i] = r[i]
    BY <1>1
  <1>4. QED
    BY <1>2, <1>3 DEF AskedIn, OnceIn, s

LEMMA Answering ==
  ASSUME NEW r \in Seq(Request), r # << >>, NEW p
  PROVE  /\ Head(r).type # p => (AskedIn(Tail(r), p) <=> AskedIn(r, p))
         /\ Head(r).type = p /\ OnceIn(r, p) => ~AskedIn(Tail(r), p)
         /\ Head(r).type = p => AskedIn(r, p)
         /\ OnceIn(r, p) => OnceIn(Tail(r), p)
  <1> DEFINE s == Tail(r)
  <1>1. /\ Len(r) \in Nat \ {0} /\ DOMAIN r = 1 .. Len(r) /\ DOMAIN s = 1 .. Len(r) - 1
        /\ \A i \in 1 .. Len(r) - 1 : s[i] = r[i + 1]
        /\ Head(r) = r[1]
    <2>1. Len(r) \in Nat \ {0} /\ DOMAIN r = 1 .. Len(r) /\ Head(r) = r[1]
      BY EmptySeq, LenProperties
    <2>2. QED
      BY <2>1, HeadTailProperties, LenProperties
  <1> HIDE DEF s
  <1>2. \A i \in DOMAIN s : i + 1 \in DOMAIN r /\ s[i] = r[i + 1] /\ i + 1 # 1
    BY <1>1
  <1>3. \A i \in DOMAIN r : i # 1 => i - 1 \in DOMAIN s /\ s[i - 1] = r[i]
    <2>1. \A i \in DOMAIN r : i # 1 => i - 1 \in 1 .. Len(r) - 1 /\ i - 1 + 1 = i
      BY <1>1
    <2>2. QED
      BY <1>1, <2>1
  <1>4. Head(r).type # p => (AskedIn(s, p) <=> AskedIn(r, p))
    BY <1>1, <1>2, <1>3 DEF AskedIn
  <1>5. 1 \in DOMAIN r
    BY <1>1
  <1>6. Head(r).type = p /\ OnceIn(r, p) => ~AskedIn(s, p)
    BY <1>1, <1>2, <1>5 DEF AskedIn, OnceIn
  <1>7. OnceIn(r, p) => OnceIn(s, p)
    <2>1. ASSUME OnceIn(r, p), NEW i \in DOMAIN s, NEW k \in DOMAIN s, s[i].type = p, s[k].type = p
          PROVE  i = k
      <3>1. i + 1 = k + 1 /\ i \in Nat /\ k \in Nat
        BY <1>1, <1>2, <2>1 DEF OnceIn
      <3>2. QED
        BY <3>1
    <2>2. QED
      BY <2>1 DEF OnceIn
  <1>8. QED
    BY <1>1, <1>4, <1>5, <1>6, <1>7 DEF AskedIn, s

(* Types of the batches.                                                   *)
LEMMA Batch ==
  ASSUME Types, NEW q \in Sequences
  PROVE  /\ Items(q) \in Seq(Item) /\ ToSet(Items(q)) \subseteq Item
         /\ \A i, k \in DOMAIN Items(q) : Items(q)[i].slot = Items(q)[k].slot => i = k
  <1>1. PICK n \in 0 .. Cardinality(Videos) : q \in [1 .. n -> Videos]
    BY DEF Sequences
  <1>2. Cardinality(Videos) \in Nat
    BY VideosAssumption, FS_CardinalityType
  <1>3. DOMAIN q = 1 .. n /\ DOMAIN Items(q) = 1 .. n
    BY <1>1 DEF Items
  <1>4. ASSUME NEW i \in 1 .. n
        PROVE  Items(q)[i] \in Item /\ Items(q)[i].slot = i
    <2>1. Items(q)[i] = [video |-> q[i], slot |-> i, size |-> size[q[i]]]
      BY <1>3 DEF Items
    <2>2. q[i] \in Videos /\ size[q[i]] \in 0 .. MaxSize /\ i \in 1 .. Cardinality(Videos)
      BY <1>1, <1>2 DEF Types
    <2>3. QED
      BY <2>1, <2>2 DEF Item
  <1>5. Items(q) \in [1 .. n -> Item]
    BY <1>3, <1>4 DEF Items
  <1>6. Items(q) \in Seq(Item)
    BY <1>1, <1>2, <1>5
  <1>7. QED
    BY <1>3, <1>4, <1>6 DEF ToSet

LEMMA TypesInit == Init => Types /\ CleanType /\ Numbered /\ Wired /\ Pages
  <1> SUFFICES ASSUME Init PROVE Types /\ CleanType /\ Numbered /\ Wired /\ Pages
    OBVIOUS
  <1>1. Types
    <2>1. card \in [Page -> [1 .. Slots -> Videos \cup {NoVideo}]]
      BY DEF Init, Empty
    <2>2. job \in [page : Page \cup {"none"}, rest : Seq(Item)]
      BY DEF Init, NoJob
    <2>3. size \in [Videos -> 0 .. MaxSize]
      BY Sizes DEF Init
    <2>4. QED
      BY <2>1, <2>2, <2>3, Sizes DEF Init, Types
  <1>2. CleanType /\ Pages
    BY DEF Init, CleanType, Pages
  <1>3. Numbered
    BY DEF Init, Numbered, NoJob
  <1>4. Wired
    <2>1. wire = << >> /\ wire \in Seq(Msg) /\ DOMAIN wire = {} /\ entry = {}
      BY DEF Init
    <2>2. Flow(wire, entry)
      BY <2>1 DEF Flow, InRuns, Announced, Awaited, OneEach
    <2>3. Uncut(wire, entry, cut)
      BY <2>1 DEF Uncut, Arriving
    <2>4. QED
      BY <2>2, <2>3 DEF Wired
  <1>5. QED
    BY <1>1, <1>2, <1>3, <1>4

(* The user.                                                               *)
LEMMA LoginCommitKeeps ==
  ASSUME Types, Numbered, Wired, Pages, NEW u \in Users, LoginCommit(u)
  PROVE  Types' /\ Numbered' /\ Wired' /\ Pages'
  <1> DEFINE x == [type |-> "login", user |-> u]
  <1>1. /\ requests' = Append(requests, x) /\ x \in Request /\ asked' \in 0 .. MaxRequests
        /\ UNCHANGED <<id, card, entry, wire, job, size, changes, losses, batch, clean, cut>>
    BY Sizes DEF LoginCommit, Ask, client, server, history, Request, Types
  <1>2. Types'
    <2>1. requests' \in Seq(Request)
      BY <1>1 DEF Types
    <2>2. QED
      BY <1>1, <2>1 DEF Types
  <1>3. \A p \in Page : /\ AskedIn(requests', p) <=> AskedIn(requests, p)
                        /\ OnceIn(requests', p) <=> OnceIn(requests, p)
    BY <1>1, Asking DEF Types, Page
  <1>4. \A p \in Page : Served(p) => Served(p)'
    BY <1>1, <1>3 DEF Served, Order, SentOf
  <1>5. QED
    BY <1>1, <1>2, <1>4 DEF Numbered, Wired, Pages

(* Nothing but the request of a page with empty cards is on its way.       *)
LEMMA Cleared ==
  ASSUME NEW p \in Page, NEW x, x.type = p, requests' = <<x>>, wire' = << >>, job' = NoJob,
         card'[p] = Empty, Wired, entry' = entry
  PROVE  Served(p)'
  <1>1. AskedIn(requests', p) /\ OnceIn(requests', p) /\ job'.page # p
    BY DEF AskedIn, OnceIn, NoJob, Page
  <1>2. SentOf(requests', job', batch', p) = {} /\ LeftOf(job', p) = {}
    BY <1>1 DEF SentOf, LeftOf
  <1>3. \A e \in entry' : ~WholeOf(p, wire', e)
    <2>1. \A e \in entry : e.left \in Nat \ {0}
      BY Entries DEF Wired, Flow
    <2>2. QED
      BY <2>1 DEF WholeOf, Runs
  <1>4. Shown(p, wire', entry', {}, card'[p])
    BY <1>3 DEF Shown, Empty
  <1>5. QED
    BY <1>1, <1>2, <1>4 DEF Served, Order

LEMMA FreshKeeps ==
  ASSUME Types, CleanType, Numbered, Wired, Pages, NEW p \in Page, Fresh(p)
  PROVE  Types' /\ Numbered' /\ Wired' /\ Pages'
  <1> DEFINE x == [type |-> p, user |-> id]
  <1>1. /\ requests' = Append(requests, x) /\ x \in Request /\ asked' \in 0 .. MaxRequests
        /\ card' = [card EXCEPT ![p] = Empty]
        /\ UNCHANGED <<id, entry, wire, job, size, changes, losses, batch, cut>>
    BY Sizes DEF Fresh, Ask, Clear, server, Request, Types
  <1>2. /\ \A q \in Page : q # p => (clean'[q] <=> clean[q])
        /\ clean'[p] <=> Quiet
    <2>1. clean' = [clean EXCEPT ![p] = Quiet] /\ clean \in [Page -> BOOLEAN]
      BY DEF Fresh, CleanType
    <2>2. QED
      BY <2>1, Zenon
  <1>3. Empty \in [1 .. Slots -> Videos \cup {NoVideo}]
    BY DEF Empty
  <1>4. Types'
    <2>1. requests' \in Seq(Request)
      BY <1>1 DEF Types
    <2>2. card' \in [Page -> [1 .. Slots -> Videos \cup {NoVideo}]]
      BY <1>1, <1>3 DEF Types
    <2>3. QED
      BY <1>1, <2>1, <2>2 DEF Types
  <1>5. ASSUME NEW q \in Page, q # p, Served(q) PROVE Served(q)'
    <2>1. /\ AskedIn(requests', q) <=> AskedIn(requests, q)
          /\ OnceIn(requests', q) <=> OnceIn(requests, q)
      BY <1>1, <1>5, Asking DEF Types
    <2>2. card'[q] = card[q]
      BY <1>1, <1>5 DEF Types
    <2>3. QED
      BY <1>1, <1>5, <2>1, <2>2 DEF Served, Order, SentOf
  <1>6. ASSUME Quiet PROVE Served(p)'
    <2>1. requests' = <<x>> /\ wire' = << >> /\ job' = NoJob /\ card'[p] = Empty
      BY <1>1, <1>6 DEF Quiet, Types
    <2>2. QED
      BY <1>1, <2>1, Cleared
  <1>7. Pages'
    BY <1>2, <1>5, <1>6 DEF Pages
  <1>8. QED
    BY <1>1, <1>4, <1>7 DEF Numbered, Wired

(* The server.                                                             *)
LEMMA Reply ==
  ASSUME NEW u \in Users \cup {NoUser}
  PROVE  LET t == <<[type |-> "login", user |-> u]>> IN
         /\ t \in Seq(Msg) /\ InRuns(t) /\ Announced(t)
         /\ \A v : t # << >> => t[1] # BlockOf(v)
         /\ \A v : \A i \in DOMAIN t : ~HeaderOf(t[i], v)
         /\ \A p \in Page, i \in DOMAIN t : ~WholeAt(p, t, i)
  <1> DEFINE x == [type |-> "login", user |-> u]
             t == <<x>>
  <1>1. x \in Msg /\ x.type \notin Page /\ \A v : x # BlockOf(v)
    BY DEF Msg, LoginReply, Page, BlockOf
  <1>2. t \in Seq(Msg) /\ DOMAIN t = {1} /\ t[1] = x /\ t # << >>
    BY <1>1
  <1> HIDE DEF t, x
  <1>3. InRuns(t) /\ Announced(t)
    BY <1>1, <1>2 DEF InRuns, Announced, HeaderOf
  <1>4. \A p \in Page, i \in DOMAIN t : ~WholeAt(p, t, i)
    BY <1>1, <1>2 DEF WholeAt
  <1>5. \A v : \A i \in DOMAIN t : ~HeaderOf(t[i], v)
    BY <1>1, <1>2 DEF HeaderOf
  <1>6. QED
    BY <1>1, <1>2, <1>3, <1>4, <1>5 DEF t, x

LEMMA LoginRqKeeps ==
  ASSUME Types, Numbered, Wired, Pages, LoginRq
  PROVE  Types' /\ Numbered' /\ Wired' /\ Pages'
  <1>1. PICK u \in Users \cup {NoUser} : wire' = Append(wire, [type |-> "login", user |-> u])
    <2>1. Head(requests) \in Request
      BY HeadTailProperties DEF LoginRq, Serving, Types
    <2>2. Head(requests).user \in Users
      BY <2>1 DEF Request
    <2>3. QED
      BY <2>2 DEF LoginRq
  <1> DEFINE t == <<[type |-> "login", user |-> u]>>
  <1>2. /\ requests # << >> /\ Head(requests).type = "login" /\ requests' = Tail(requests)
        /\ UNCHANGED <<id, card, entry, job, size, asked, changes, losses, batch, clean, cut>>
    BY DEF LoginRq, Serving, client, server, history
  <1>3. /\ t \in Seq(Msg) /\ InRuns(t) /\ Announced(t) /\ (\A v : t # << >> => t[1] # BlockOf(v))
        /\ (\A v : \A i \in DOMAIN t : ~HeaderOf(t[i], v))
        /\ \A p \in Page, i \in DOMAIN t : ~WholeAt(p, t, i)
    BY Reply
  <1>4. wire' = wire \o t
    BY <1>1, <1>3 DEF Wired, Flow
  <1> HIDE DEF t
  <1>5. Types'
    <2>1. requests' \in Seq(Request)
      BY <1>2 DEF Types
    <2>2. QED
      BY <1>2, <2>1 DEF Types
  <1>6. Flow(wire, entry) /\ Uncut(wire, entry, cut)
    BY DEF Wired
  <1>7. Wired'
    <2>1. Flow(wire \o t, entry)
      BY <1>3, <1>6, MoreFlow
    <2>2. Uncut(wire \o t, entry, cut)
      <3>1. \A v \in Videos \ cut :
              Coming(t, v) \/ (v \notin cut /\ \A i \in DOMAIN t : ~HeaderOf(t[i], v))
        BY <1>3
      <3>2. QED
        BY <1>3, <1>6, <3>1, MoreUncut
    <2>3. QED
      BY <1>2, <1>4, <2>1, <2>2 DEF Wired
  <1>8. ASSUME NEW p \in Page, Served(p) PROVE Served(p)'
    <2>1. /\ AskedIn(requests', p) <=> AskedIn(requests, p)
          /\ OnceIn(requests, p) => OnceIn(requests', p)
      BY <1>2, Answering DEF Types, Page
    <2>2. SentOf(requests', job', batch', p) = SentOf(requests, job, batch, p) /\ LeftOf(job', p) = LeftOf(job, p)
      BY <1>2, <2>1 DEF SentOf
    <2>3. Order(requests', job', batch', p)
      BY <1>2, <1>8, <2>1, <2>2 DEF Served, Order
    <2>4. Shown(p, wire \o t, entry, SentOf(requests, job, batch, p), card[p])
      <3> DEFINE S == SentOf(requests, job, batch, p)
      <3>1. Shown(p, wire, entry, S, card[p])
        BY <1>8 DEF Served
      <3>2. S \subseteq Item /\ (\A a, b \in S : a.slot = b.slot => a = b)
        BY <3>1 DEF Shown
      <3> HIDE DEF S
      <3>3. Shown(p, wire \o t, entry, S, card[p])
        BY <1>3, <1>6, <3>1, <3>2, MoreShown
      <3>4. QED
        BY <3>3 DEF S
    <2>5. QED
      BY <1>2, <1>4, <2>2, <2>3, <2>4 DEF Served
  <1>9. QED
    BY <1>2, <1>5, <1>7, <1>8 DEF Numbered, Pages

LEMMA DownloadRqKeeps ==
  ASSUME Types, Numbered, Wired, Pages, NEW p \in Page,
         requests # << >>, Head(requests).type = p, requests' = Tail(requests), job = NoJob,
         NEW q \in Sequences, job' = [page |-> p, rest |-> Items(q)],
         NEW B, B \subseteq ToSet(Items(q)), batch' = [batch EXCEPT ![p] = B],
         UNCHANGED <<id, card, entry, wire, size, asked, changes, losses, clean, cut>>
  PROVE  Types' /\ Numbered' /\ Wired' /\ Pages'
  <1>1. /\ Items(q) \in Seq(Item) /\ B \subseteq Item
        /\ \A i, k \in DOMAIN Items(q) : Items(q)[i].slot = Items(q)[k].slot => i = k
    BY Batch
  <1>2. Types'
    <2>1. requests' \in Seq(Request)
      BY DEF Types
    <2>2. job' \in [page : Page \cup {"none"}, rest : Seq(Item)]
      BY <1>1
    <2>3. batch' \in [Page -> SUBSET Item]
      BY <1>1 DEF Types
    <2>4. QED
      BY <2>1, <2>2, <2>3 DEF Types
  <1>3. Numbered'
    BY <1>1 DEF Numbered, Page
  <1>4. ASSUME NEW o \in Page, o # p, Served(o) PROVE Served(o)'
    <2>1. /\ AskedIn(requests', o) <=> AskedIn(requests, o)
          /\ OnceIn(requests, o) => OnceIn(requests', o)
      BY <1>4, Answering DEF Types
    <2>2. batch'[o] = batch[o] /\ LeftOf(job', o) = {} /\ LeftOf(job, o) = {} /\ job'.page # o
      BY <1>4 DEF Types, LeftOf, NoJob, Page
    <2>3. SentOf(requests', job', batch', o) = SentOf(requests, job, batch, o)
      BY <2>1, <2>2 DEF SentOf
    <2>4. QED
      BY <1>4, <2>1, <2>2, <2>3 DEF Served, Order
  <1>5. ASSUME Served(p) PROVE Served(p)'
    <2>1. AskedIn(requests, p) /\ ~AskedIn(requests', p) /\ OnceIn(requests', p)
      BY <1>5, Answering DEF Types, Served, Order
    <2>2. SentOf(requests, job, batch, p) = {}
      BY <2>1 DEF SentOf
    <2>3. batch'[p] = B /\ LeftOf(job', p) = ToSet(Items(q))
      BY DEF Types, LeftOf
    <2>4. SentOf(requests', job', batch', p) = {}
      BY <2>3 DEF SentOf
    <2>5. QED
      BY <1>5, <2>1, <2>2, <2>4 DEF Served, Order
  <1>6. QED
    BY <1>2, <1>3, <1>4, <1>5 DEF Wired, Pages

LEMMA ServerBatchKeeps ==
  ASSUME Types, Numbered, Wired, Pages, DownloadRq \/ UploadHistoryRq
  PROVE  Types' /\ Numbered' /\ Wired' /\ Pages'
  <1>1. CASE DownloadRq
    <2>1. PICK q \in Sequences :
            /\ job' = [page |-> "rec", rest |-> Items(q)]
            /\ batch' = [batch EXCEPT !["rec"] = ToSet(Items(q))]
      BY <1>1 DEF DownloadRq
    <2>2. "rec" \in Page /\ ToSet(Items(q)) \subseteq ToSet(Items(q))
      BY DEF Page
    <2>3. /\ requests # << >> /\ Head(requests).type = "rec" /\ requests' = Tail(requests) /\ job = NoJob
          /\ UNCHANGED <<id, card, entry, wire, size, asked, changes, losses, clean, cut>>
      BY <1>1 DEF DownloadRq, Serving, client
    <2>4. QED
      BY <2>1, <2>2, <2>3, DownloadRqKeeps
  <1>2. CASE UploadHistoryRq
    <2>1. PICK q \in Sequences :
            /\ job' = [page |-> "his", rest |-> Items(q)]
            /\ batch' = [batch EXCEPT !["his"] = {it \in ToSet(Items(q)) : it.size > 0}]
      BY <1>2 DEF UploadHistoryRq
    <2>2. "his" \in Page /\ {it \in ToSet(Items(q)) : it.size > 0} \subseteq ToSet(Items(q))
      BY DEF Page
    <2>3. /\ requests # << >> /\ Head(requests).type = "his" /\ requests' = Tail(requests) /\ job = NoJob
          /\ UNCHANGED <<id, card, entry, wire, size, asked, changes, losses, clean, cut>>
      BY <1>2 DEF UploadHistoryRq, Serving, client
    <2>4. QED
      BY <2>1, <2>2, <2>3, DownloadRqKeeps
  <1>3. QED
    BY <1>1, <1>2

LEMMA GroupWhole ==
  ASSUME NEW g, NEW page \in Page, NEW it \in Item, NEW n \in 0 .. it.size, IsGroup(g, page, it, n)
  PROVE  /\ \A o \in Page : \A i \in DOMAIN g :
              WholeAt(o, g, i) => o = page /\ g[i].item = it /\ Legal(it) /\ n = it.size
         /\ Legal(it) /\ n = it.size => OnWire(page, g, it)
  <1>1. it.size \in Nat /\ n \in Nat /\ g \in Seq(Msg) /\ 1 \in DOMAIN g
        /\ g[1].type = page /\ g[1].item = it
    BY Sizes DEF Item, IsGroup
  <1>2. Runs(g, 1, it.video, n)
    BY <1>1, GroupRuns
  <1>3. ASSUME NEW o \in Page, NEW i \in DOMAIN g, WholeAt(o, g, i)
        PROVE  o = page /\ g[i].item = it /\ Legal(it) /\ n = it.size
    <2>1. HeaderOf(g[i], g[i].item.video)
      BY <1>3 DEF WholeAt, HeaderOf
    <2>2. i = 1 /\ Legal(it)
      BY <1>1, <2>1, GroupHeaders
    <2>3. Runs(g, 1, it.video, it.size) /\ o = page
      BY <1>1, <1>3, <2>2 DEF WholeAt
    <2>4. n = it.size
      BY <1>1, <1>2, <2>3, RunsOnce
    <2>5. QED
      BY <1>1, <2>2, <2>3, <2>4
  <1>4. ASSUME Legal(it), n = it.size PROVE OnWire(page, g, it)
    BY <1>1, <1>2, <1>4 DEF OnWire, WholeAt
  <1>5. QED
    BY <1>3, <1>4

(* What the server sends next.                                             *)
Sends(page, it, item, n) ==
  /\ page = job.page /\ page \in Page /\ it = Head(job.rest) /\ it \in Item /\ item \in Item
  /\ item.video = it.video /\ item.slot = it.slot /\ n \in 0 .. item.size
  /\ job' = [page |-> page, rest |-> Tail(job.rest)]
  /\ wire' = wire \o Group(page, item, n) \/ (item.size = 0 /\ wire' = wire)
  /\ cut' = IF item.size = 0 THEN cut
            ELSE IF n < item.size THEN cut \cup {it.video} ELSE cut \ {it.video}
  /\ batch' = [batch EXCEPT ![page] =
                 IF item.size = 0 \/ n < item.size THEN batch[page] \ {it}
                 ELSE (batch[page] \ {it}) \cup {item}]
  /\ UNCHANGED <<id, card, entry, requests, size, asked, changes, losses, clean>>

LEMMA Sending ==
  ASSUME Types, Numbered, SendVideo, job.rest # << >>
  PROVE  \E page, it, item, n : Sends(page, it, item, n)
  <1> DEFINE it == Head(job.rest)
             now == size[it.video]
             item == IF job.page = "rec" THEN it ELSE [it EXCEPT !.size = now]
             n == IF now < item.size THEN now ELSE item.size
  <1>1. job.page \in Page /\ job.rest \in Seq(Item) /\ it \in Item /\ now \in 0 .. MaxSize
    <2>1. job.page \in Page /\ job.rest \in Seq(Item)
      BY DEF Types, Numbered
    <2>2. it \in Item
      BY <2>1, HeadTailProperties
    <2>3. QED
      BY <2>1, <2>2 DEF Types, Item
  <1>2. item \in Item /\ item.video = it.video /\ item.slot = it.slot
    BY <1>1 DEF Item
  <1>3. n \in 0 .. item.size
    <2>1. item.size \in 0 .. MaxSize
      BY <1>2 DEF Item
    <2>2. QED
      BY <1>1, <2>1, Sizes
  <1>4. /\ job' = [job EXCEPT !.rest = Tail(@)]
        /\ wire' \in {wire \o Group(job.page, item, n)} \cup {w \in {wire} : item.size = 0}
        /\ cut' = IF item.size = 0 THEN cut
                  ELSE IF n < item.size THEN cut \cup {it.video} ELSE cut \ {it.video}
        /\ batch' = [batch EXCEPT ![job.page] =
                       IF item.size = 0 \/ n < item.size THEN @ \ {it} ELSE (@ \ {it}) \cup {item}]
        /\ UNCHANGED <<id, card, entry, requests, size, asked, changes, losses, clean>>
    <2>1. Group(job.page, item, n) = <<[type |-> job.page, item |-> item]>>
                                     \o [i \in 1 .. n |-> [type |-> "block", video |-> it.video]]
      BY <1>2 DEF Group
    <2>2. QED
      BY <2>1 DEF SendVideo, client
  <1>5. job' = [page |-> job.page, rest |-> Tail(job.rest)]
    BY <1>4 DEF Types
  <1> HIDE DEF it, item, n
  <1>6. Sends(job.page, it, item, n)
    BY <1>1, <1>2, <1>3, <1>4, <1>5 DEF Sends, it
  <1>7. QED
    BY <1>6

LEMMA RestIs ==
  ASSUME Types, Numbered, job.rest # << >>
  PROVE  /\ Tail(job.rest) \in Seq(Item) /\ Head(job.rest) \in Item
         /\ ToSet(job.rest) = {Head(job.rest)} \cup ToSet(Tail(job.rest))
         /\ \A y \in ToSet(Tail(job.rest)) : y.slot # Head(job.rest).slot
         /\ \A i, k \in DOMAIN Tail(job.rest) : Tail(job.rest)[i].slot = Tail(job.rest)[k].slot => i = k
  <1> DEFINE r == job.rest
             s == Tail(r)
  <1>1. /\ r \in Seq(Item) /\ s \in Seq(Item) /\ Head(r) \in Item
        /\ Len(r) \in Nat \ {0} /\ DOMAIN r = 1 .. Len(r) /\ DOMAIN s = 1 .. Len(r) - 1
        /\ \A i \in 1 .. Len(r) - 1 : s[i] = r[i + 1]
        /\ Head(r) = r[1]
    <2>1. r \in Seq(Item)
      BY DEF Types
    <2>2. Len(r) \in Nat \ {0} /\ DOMAIN r = 1 .. Len(r) /\ Head(r) = r[1]
      BY <2>1, EmptySeq, LenProperties
    <2>3. QED
      BY <2>1, <2>2, HeadTailProperties, LenProperties
  <1>2. \A i, k \in DOMAIN r : r[i].slot = r[k].slot => i = k
    BY DEF Numbered
  <1> HIDE DEF r, s
  <1>3. 1 \in DOMAIN r /\ \A i \in DOMAIN s : i + 1 \in DOMAIN r /\ s[i] = r[i + 1] /\ i + 1 # 1 /\ i \in Nat
    BY <1>1
  <1>4. \A i \in DOMAIN r : i # 1 => i - 1 \in DOMAIN s /\ s[i - 1] = r[i]
    <2>1. \A i \in DOMAIN r : i # 1 => i - 1 \in 1 .. Len(r) - 1 /\ i - 1 + 1 = i
      BY <1>1
    <2>2. QED
      BY <1>1, <2>1
  <1>5. ASSUME NEW y \in ToSet(s) PROVE y.slot # Head(r).slot
    <2>1. PICK i \in DOMAIN s : y = s[i]
      BY <1>5 DEF ToSet
    <2>2. i + 1 \in DOMAIN r /\ i + 1 # 1 /\ y = r[i + 1]
      BY <1>3, <2>1
    <2>3. r[i + 1].slot # r[1].slot
      BY <1>2, <1>3, <2>2
    <2>4. QED
      BY <1>1, <2>2, <2>3
  <1>6. ToSet(r) = {Head(r)} \cup ToSet(s)
    <2>1. ASSUME NEW y \in ToSet(r) PROVE y = Head(r) \/ y \in ToSet(s)
      <3>1. PICK i \in DOMAIN r : y = r[i]
        BY <2>1 DEF ToSet
      <3>2. QED
        BY <1>1, <1>4, <3>1 DEF ToSet
    <2>2. Head(r) \in ToSet(r)
      BY <1>1, <1>3 DEF ToSet
    <2>3. \A y \in ToSet(s) : y \in ToSet(r)
      BY <1>3 DEF ToSet
    <2>4. QED
      BY <2>1, <2>2, <2>3
  <1>7. \A i, k \in DOMAIN s : s[i].slot = s[k].slot => i = k
    <2>1. ASSUME NEW i \in DOMAIN s, NEW k \in DOMAIN s, s[i].slot = s[k].slot PROVE i = k
      <3>1. i + 1 = k + 1 /\ i \in Nat /\ k \in Nat
        BY <1>2, <1>3, <2>1
      <3>2. QED
        BY <3>1
    <2>2. QED
      BY <2>1
  <1>8. QED
    BY <1>1, <1>5, <1>6, <1>7 DEF r, s

LEMMA SendKeeps ==
  ASSUME Types, Numbered, Wired, Pages, job.rest # << >>,
         NEW page, NEW it, NEW item, NEW n, Sends(page, it, item, n)
  PROVE  Types' /\ Numbered' /\ Wired' /\ Pages'
  <1> DEFINE t == IF wire' = wire THEN << >> ELSE Group(page, item, n)
             Whole == item.size # 0 /\ n = item.size
             S(p) == SentOf(requests, job, batch, p)
  <1>1. /\ page = job.page /\ page \in Page /\ it = Head(job.rest) /\ it \in Item /\ item \in Item
        /\ item.video = it.video /\ item.slot = it.slot /\ n \in 0 .. item.size
        /\ item.size \in Nat /\ n \in Nat /\ item.video \in Videos
        /\ Whole => Legal(item)
    BY Sizes DEF Sends, Item, Legal
  <1>2. /\ job' = [page |-> page, rest |-> Tail(job.rest)]
        /\ cut' = IF item.size = 0 THEN cut
                  ELSE IF n < item.size THEN cut \cup {it.video} ELSE cut \ {it.video}
        /\ UNCHANGED <<id, card, entry, requests, size, asked, changes, losses, clean>>
    BY DEF Sends
  <1>3. /\ batch' \in [Page -> SUBSET Item]
        /\ \A p \in Page : p # page => batch'[p] = batch[p]
        /\ batch'[page] = IF Whole THEN (batch[page] \ {it}) \cup {item} ELSE batch[page] \ {it}
    <2>1. batch \in [Page -> SUBSET Item]
      BY DEF Types
    <2>2. batch' = [batch EXCEPT ![page] =
                      IF Whole THEN (batch[page] \ {it}) \cup {item} ELSE batch[page] \ {it}]
      <3>1. Whole <=> ~(item.size = 0 \/ n < item.size)
        BY <1>1
      <3>2. QED
        BY <3>1 DEF Sends
    <2>3. QED
      BY <1>1, <2>1, <2>2
  <1>4. /\ Tail(job.rest) \in Seq(Item) /\ ToSet(job.rest) = {it} \cup ToSet(Tail(job.rest))
        /\ \A y \in ToSet(Tail(job.rest)) : y.slot # it.slot
        /\ \A i, k \in DOMAIN Tail(job.rest) : Tail(job.rest)[i].slot = Tail(job.rest)[k].slot => i = k
    BY <1>1, RestIs
  <1>5. IsGroup(Group(page, item, n), page, item, n)
    BY <1>1, GroupShape
  <1>6. /\ t \in Seq(Msg) /\ InRuns(t) /\ Announced(t) /\ wire' = wire \o t
        /\ (\A v : t # << >> => t[1] # BlockOf(v))
        /\ (\A v : \A i \in DOMAIN t : HeaderOf(t[i], v) => v = item.video /\ item.size # 0)
        /\ (Whole => Coming(t, item.video) /\ OnWire(page, t, item))
        /\ (\A o \in Page : \A i \in DOMAIN t : WholeAt(o, t, i) => o = page /\ t[i].item = item /\ Whole)
    <2>0. wire \in Seq(Msg)
      BY DEF Wired, Flow
    <2>1. CASE wire' = wire
      <3>1. t = << >> /\ t \in Seq(Msg) /\ DOMAIN t = {} /\ wire \o t = wire
        BY <2>0, <2>1
      <3>2. ~Whole
        <4>1. CASE item.size = 0
          BY <4>1
        <4>2. CASE item.size # 0
          <5>1. wire = wire \o Group(page, item, n)
            BY <2>1, <4>2 DEF Sends
          <5>2. Len(wire \o Group(page, item, n)) = Len(wire) + (n + 1) /\ Len(wire) \in Nat
            BY <1>5, <2>0, Joint DEF IsGroup
          <5>3. QED
            BY <1>1, <5>1, <5>2
        <4>3. QED
          BY <4>1, <4>2
      <3> HIDE DEF t, Whole
      <3>3. QED
        BY <2>1, <3>1, <3>2 DEF InRuns, Announced
    <2>2. CASE wire' # wire
      <3>1. t = Group(page, item, n) /\ IsGroup(t, page, item, n)
        BY <1>5, <2>2
      <3>2. wire' = wire \o t /\ t \in Seq(Msg)
        BY <2>2, <3>1 DEF Sends, IsGroup
      <3> HIDE DEF t
      <3>3. InRuns(t) /\ Announced(t) /\ (\A v : t[1] # BlockOf(v))
            /\ (Whole => Coming(t, item.video))
        BY <1>1, <3>1, GroupFlow
      <3>4. /\ Whole => OnWire(page, t, item)
            /\ \A o \in Page : \A i \in DOMAIN t : WholeAt(o, t, i) => o = page /\ t[i].item = item /\ Whole
        <4>1. Legal(item) => item.size # 0
          BY <1>1 DEF Legal
        <4>2. Legal(item) /\ n = item.size => OnWire(page, t, item)
          BY <1>1, <3>1, GroupWhole
        <4>3. \A o \in Page : \A i \in DOMAIN t :
                WholeAt(o, t, i) => o = page /\ t[i].item = item /\ Legal(item) /\ n = item.size
          BY <1>1, <3>1, GroupWhole
        <4>4. QED
          BY <1>1, <4>1, <4>2, <4>3
      <3>5. \A v : \A i \in DOMAIN t : HeaderOf(t[i], v) => v = item.video /\ item.size # 0
        <4>1. Legal(item) => item.size # 0
          BY <1>1 DEF Legal
        <4>2. QED
          BY <1>1, <3>1, <4>1, GroupHeaders
      <3>6. QED
        BY <3>2, <3>3, <3>4, <3>5
    <2>3. QED
      BY <2>1, <2>2
  <1> HIDE DEF t
  <1>7. Types'
    <2>1. job' \in [page : Page \cup {"none"}, rest : Seq(Item)]
      BY <1>1, <1>2, <1>4
    <2>2. cut' \subseteq Videos
      BY <1>1, <1>2 DEF Types
    <2>3. QED
      BY <1>2, <1>3, <2>1, <2>2 DEF Types
  <1>8. Numbered'
    BY <1>1, <1>2, <1>4 DEF Numbered, Page
  <1>9. Flow(wire, entry) /\ Uncut(wire, entry, cut)
    BY DEF Wired
  <1>10. Wired'
    <2>1. Flow(wire \o t, entry)
      BY <1>6, <1>9, MoreFlow
    <2>2. \A v \in Videos \ cut' :
            Coming(t, v) \/ (v \notin cut /\ \A i \in DOMAIN t : ~HeaderOf(t[i], v))
      BY <1>1, <1>2, <1>6
    <2>3. Uncut(wire \o t, entry, cut')
      BY <1>6, <1>9, <2>2, MoreUncut
    <2>4. QED
      BY <1>2, <1>6, <2>1, <2>3 DEF Wired
  <1>11. ASSUME NEW p \in Page, Served(p) PROVE Served(p)'
    <2>1. /\ Order(requests, job, batch, p) /\ Shown(p, wire, entry, S(p), card[p])
          /\ S(p) \subseteq Item /\ \A a, b \in S(p) : a.slot = b.slot => a = b
      BY <1>11 DEF Served, Shown
    <2>2. CASE p # page
      <3>1. SentOf(requests', job', batch', p) = S(p) /\ LeftOf(job', p) = {} /\ job'.page # p
        BY <1>1, <1>2, <1>3, <2>2 DEF SentOf, LeftOf
      <3>2. Order(requests', job', batch', p)
        BY <1>2, <2>1, <3>1 DEF Order
      <3>3. \A i \in DOMAIN t : ~WholeAt(p, t, i)
        BY <1>6, <2>2
      <3> HIDE DEF S
      <3>4. Shown(p, wire \o t, entry, S(p), card[p])
        BY <1>6, <1>9, <2>1, <3>3, MoreShown
      <3>5. QED
        BY <1>2, <1>6, <3>1, <3>2, <3>4 DEF Served
    <2>3. CASE p = page
      <3> DEFINE T == SentOf(requests', job', batch', p)
      <3>1. ~AskedIn(requests, p) /\ ~AskedIn(requests', p) /\ OnceIn(requests', p)
        BY <1>1, <1>2, <2>1, <2>3 DEF Order
      <3>2. LeftOf(job, p) = {it} \cup LeftOf(job', p) /\ LeftOf(job', p) = ToSet(Tail(job.rest))
        BY <1>1, <1>2, <1>4, <2>3 DEF LeftOf
      <3>3. S(p) = batch[p] \ LeftOf(job, p) /\ T = batch'[p] \ LeftOf(job', p)
        BY <3>1 DEF SentOf
      <3>4. item \notin LeftOf(job', p)
        BY <1>1, <1>4, <3>2
      <3>5. T = IF Whole THEN S(p) \cup {item} ELSE S(p)
        <4>1. CASE Whole
          BY <1>3, <2>3, <3>2, <3>3, <3>4, <4>1
        <4>2. CASE ~Whole
          BY <1>3, <2>3, <3>2, <3>3, <4>2
        <4>3. QED
          BY <4>1, <4>2
      <3>6. \A a \in S(p) : a.slot # item.slot
        BY <1>1, <2>1, <3>2 DEF Order
      <3> HIDE DEF S, T, Whole
      <3>7. T \subseteq Item /\ S(p) \subseteq T /\ \A a, b \in T : a.slot = b.slot => a = b
        BY <1>1, <2>1, <3>5, <3>6
      <3>8. \A i \in DOMAIN t : WholeAt(p, t, i) => t[i].item \in T
        BY <1>6, <3>5
      <3>9. \A x \in T \ S(p) : OnWire(p, t, x)
        BY <1>6, <2>3, <3>5
      <3>10. Shown(p, wire \o t, entry, T, card[p])
        BY <1>6, <1>9, <2>1, <3>7, <3>8, <3>9, MoreShown
      <3>11. Order(requests', job', batch', p)
        <4>1. \A x \in T, y \in LeftOf(job', p) : x.slot # y.slot
          <5>1. \A x \in S(p), y \in LeftOf(job', p) : x.slot # y.slot
            BY <2>1, <3>2 DEF Order, S
          <5>2. \A y \in LeftOf(job', p) : y.slot # item.slot
            BY <1>1, <1>4, <3>2
          <5>3. QED
            BY <3>5, <5>1, <5>2
        <4>2. QED
          BY <3>1, <4>1 DEF Order, T
      <3>12. QED
        BY <1>2, <1>6, <3>10, <3>11 DEF Served, T
    <2>4. QED
      BY <2>2, <2>3
  <1>12. QED
    BY <1>2, <1>7, <1>8, <1>10, <1>11 DEF Pages

LEMMA SendVideoKeeps ==
  ASSUME Types, Numbered, Wired, Pages, SendVideo
  PROVE  Types' /\ Numbered' /\ Wired' /\ Pages'
  <1>1. CASE job.rest # << >>
    <2>1. PICK page, it, item, n : Sends(page, it, item, n)
      BY <1>1, Sending
    <2>2. QED
      BY <1>1, <2>1, SendKeeps
  <1>2. CASE job.rest = << >>
    <2>1. job' = NoJob
          /\ UNCHANGED <<id, card, entry, requests, wire, size, asked, changes, losses, batch, clean, cut>>
      BY <1>2 DEF SendVideo, client
    <2>2. \A p \in Page : LeftOf(job, p) = {} /\ LeftOf(job', p) = {} /\ job'.page # p
      BY <1>2, <2>1 DEF LeftOf, NoJob, Page, ToSet
    <2>3. \A p \in Page : Served(p) => Served(p)'
      BY <2>1, <2>2 DEF Served, SentOf, Order
    <2>4. job' \in [page : Page \cup {"none"}, rest : Seq(Item)] /\ Numbered'
      BY <2>1 DEF NoJob, Numbered
    <2>5. QED
      BY <2>1, <2>3, <2>4 DEF Types, Wired, Pages
  <1>3. QED
    BY <1>1, <1>2

LEMMA ChangeKeeps ==
  ASSUME Types, Numbered, Wired, Pages, NEW v \in Videos, Change(v)
  PROVE  Types' /\ Numbered' /\ Wired' /\ Pages'
  <1>1. /\ size' \in [Videos -> 0 .. MaxSize] /\ changes' \in 0 .. MaxChanges
        /\ UNCHANGED <<id, card, entry, requests, wire, job, asked, losses, batch, clean, cut>>
    BY Sizes DEF Change, Types, client, history
  <1>2. QED
    BY <1>1 DEF Types, Numbered, Wired, Pages, Served

(* The client.                                                             *)
LEMMA SkippedKeeps ==
  ASSUME Wired, wire # << >>, \A v \in Videos : ~HeaderOf(Head(wire), v),
         \A e \in entry : Head(wire) # BlockOf(e.item.video), wire' = Tail(wire),
         UNCHANGED <<card, entry, cut>>
  PROVE  /\ Wired'
         /\ \A p \in Page : \A S, c : Shown(p, wire, entry, S, c) => Shown(p, wire', entry', S, c)
  <1>1. Flow(wire, entry) /\ Uncut(wire, entry, cut)
    BY DEF Wired
  <1>2. Flow(Tail(wire), entry) /\ Uncut(Tail(wire), entry, cut)
    BY <1>1, SkippedFlow
  <1>3. \A p \in Page : \A S, c : Shown(p, wire, entry, S, c) => Shown(p, Tail(wire), entry, S, c)
    BY <1>1, SkippedShown
  <1>4. QED
    BY <1>2, <1>3 DEF Wired

LEMMA LoginRsKeeps ==
  ASSUME Types, CleanType, Numbered, Wired, Pages, LoginRs
  PROVE  Types' /\ Numbered' /\ Wired' /\ Pages'
  <1> DEFINE y == Head(wire)
             x == [type |-> "rec", user |-> y.user]
  <1>1. /\ wire # << >> /\ wire' = Tail(wire) /\ y.type = "login"
        /\ UNCHANGED <<card, entry, job, size, changes, asked, losses, batch, cut>>
    BY DEF LoginRs, Received, server
  <1>2. y \in Msg /\ y.user \in Users \cup {NoUser} /\ Tail(wire) \in Seq(Msg) /\ Len(wire) \in Nat
        /\ Len(Tail(wire)) = Len(wire) - 1
    <2>1. y \in Msg /\ Tail(wire) \in Seq(Msg) /\ Len(wire) \in Nat /\ Len(Tail(wire)) = Len(wire) - 1
      BY <1>1, Taken DEF Wired, Flow
    <2>2. y \in LoginReply
      BY <1>1, <2>1 DEF Msg, Header, Block, Page
    <2>3. QED
      BY <2>1, <2>2 DEF LoginReply
  <1>3. /\ Wired'
        /\ \A p \in Page : \A S, c : Shown(p, wire, entry, S, c) => Shown(p, wire', entry', S, c)
    <2>1. (\A v \in Videos : ~HeaderOf(y, v)) /\ \A e \in entry : y # BlockOf(e.item.video)
      BY <1>1 DEF HeaderOf, BlockOf, Page
    <2>2. QED
      BY <1>1, <2>1, SkippedKeeps
  <1>4. Numbered'
    BY <1>1 DEF Numbered
  <1>5. CASE y.user = NoUser
    <2>1. UNCHANGED <<id, requests, clean>>
      BY <1>5 DEF LoginRs
    <2>2. \A p \in Page : Served(p) => Served(p)'
      BY <1>1, <1>3, <2>1 DEF Served
    <2>3. QED
      BY <1>1, <1>3, <1>4, <2>1, <2>2 DEF Types, Pages
  <1>6. CASE y.user # NoUser
    <2>1. /\ id' = y.user /\ id' \in Users /\ requests' = Append(requests, x) /\ x \in Request
      <3>1. id' = y.user /\ requests' = Append(requests, [type |-> "rec", user |-> id'])
        BY <1>6 DEF LoginRs
      <3>2. y.user \in Users /\ "rec" \in Page
        BY <1>2, <1>6 DEF Page
      <3>3. x \in Request
        BY <3>2 DEF Request
      <3>4. QED
        BY <3>1, <3>2, <3>3
    <2>2. /\ clean'["his"] <=> clean["his"]
          /\ clean'["rec"] => Len(wire) = 1 /\ requests = << >> /\ job = NoJob /\ card["rec"] = Empty
      <3>1. clean' = [clean EXCEPT !["rec"] =
                        Len(wire) = 1 /\ requests = << >> /\ job = NoJob /\ card["rec"] = Empty]
            /\ clean \in [Page -> BOOLEAN] /\ "his" \in Page /\ "rec" \in Page /\ "his" # "rec"
        BY <1>6 DEF LoginRs, CleanType, Page
      <3>2. QED
        BY <3>1, Zenon
    <2>3. Types'
      <3>1. requests' \in Seq(Request)
        BY <2>1 DEF Types
      <3>2. QED
        BY <1>1, <2>1, <3>1 DEF Types
    <2>4. ASSUME Served("his") PROVE Served("his")'
      <3>1. /\ AskedIn(requests', "his") <=> AskedIn(requests, "his")
            /\ OnceIn(requests', "his") <=> OnceIn(requests, "his")
        BY <2>1, Asking DEF Types
      <3>2. "his" \in Page
        BY DEF Page
      <3>3. QED
        BY <1>1, <1>3, <2>4, <3>1, <3>2 DEF Served, Order, SentOf
    <2>5. ASSUME Len(wire) = 1, requests = << >>, job = NoJob, card["rec"] = Empty
          PROVE  Served("rec")'
      <3>1. wire' = << >> /\ requests' = <<x>> /\ x.type = "rec" /\ job' = NoJob /\ card'["rec"] = Empty
        <4>1. Len(Tail(wire)) = 0
          BY <1>2, <2>5
        <4>2. QED
          BY <1>1, <1>2, <2>1, <2>5, <4>1, EmptySeq
      <3>2. QED
        BY <1>1, <3>1, Cleared DEF Page
    <2>6. QED
      BY <1>3, <1>4, <2>2, <2>3, <2>4, <2>5 DEF Pages, Page
  <1>7. QED
    BY <1>5, <1>6

LEMMA DownloadRsKeeps ==
  ASSUME Types, CleanType, Numbered, Wired, Pages, DownloadRs
  PROVE  Types' /\ Numbered' /\ Wired' /\ Pages'
  <1> DEFINE y == Head(wire)
             v == y.item.video
  <1>1. /\ wire # << >> /\ wire' = Tail(wire) /\ y.type \in Page
        /\ entry' = IF Legal(y.item) THEN Others(entry, v) \cup {Opened(y)} ELSE entry
        /\ UNCHANGED <<id, card, requests, job, size, changes, asked, losses, batch, clean, cut>>
    BY DEF DownloadRs, Received, server, history, Other, Others, Opened
  <1>2. y \in Msg /\ v \in Videos
    BY <1>1, Taken, Messages DEF Wired, Flow
  <1>3. Flow(wire, entry) /\ Uncut(wire, entry, cut)
    BY DEF Wired
  <1>4. /\ Wired'
        /\ \A p \in Page : \A S, c : Shown(p, wire, entry, S, c) => Shown(p, wire', entry', S, c)
    <2>1. CASE Legal(y.item)
      <3>1. HeaderOf(y, v)
        BY <1>1, <2>1 DEF HeaderOf
      <3>2. LET F == Others(entry, v) \cup {Opened(y)} IN Flow(Tail(wire), F) /\ Uncut(Tail(wire), F, cut)
        BY <1>1, <1>2, <1>3, <3>1, HeaderFlow
      <3>3. \A p \in Page : \A S, c :
              Shown(p, wire, entry, S, c) => Shown(p, Tail(wire), Others(entry, v) \cup {Opened(y)}, S, c)
        BY <1>1, <1>2, <1>3, <3>1, HeaderShown
      <3>4. QED
        BY <1>1, <2>1, <3>2, <3>3 DEF Wired
    <2>2. CASE ~Legal(y.item)
      <3>1. (\A u \in Videos : ~HeaderOf(y, u)) /\ \A e \in entry : y # BlockOf(e.item.video)
        BY <1>1, <2>2 DEF HeaderOf, BlockOf, Page
      <3>2. QED
        BY <1>1, <2>2, <3>1, SkippedKeeps
    <2>3. QED
      BY <2>1, <2>2
  <1>5. \A p \in Page : Served(p) => Served(p)'
    BY <1>1, <1>4 DEF Served
  <1>6. QED
    BY <1>1, <1>4, <1>5 DEF Types, Numbered, Pages

LEMMA FileBlockKeeps ==
  ASSUME Types, CleanType, Numbered, Wired, Pages, FileBlock
  PROVE  Types' /\ Numbered' /\ Wired' /\ Pages'
  <1> DEFINE y == Head(wire)
             v == y.video
  <1>1. /\ wire # << >> /\ wire' = Tail(wire) /\ y.type = "block"
        /\ UNCHANGED <<id, requests, job, size, changes, asked, losses, batch, clean, cut>>
    BY DEF FileBlock, Received, server, history
  <1>2. y = BlockOf(v) /\ v \in Videos
    BY <1>1, Taken, Messages DEF Wired, Flow
  <1>3. Flow(wire, entry) /\ Uncut(wire, entry, cut) /\ entry \subseteq Entry
    BY DEF Wired, Flow
  <1>4. \/ Others(entry, v) = entry /\ UNCHANGED <<card, entry>>
        \/ \E e \in entry :
             /\ e.item.video = v
             /\ IF Complete(e.left)
                THEN entry' = Others(entry, v) /\ card' = Fill(e.page, e.item.slot, v)
                ELSE /\ entry' = Others(entry, v) \cup {[e EXCEPT !.left = @ - 1]}
                     /\ UNCHANGED card
    BY DEF FileBlock, Other, Others
  <1>5. CASE Others(entry, v) = entry /\ UNCHANGED <<card, entry>>
    <2>1. (\A u \in Videos : ~HeaderOf(y, u)) /\ \A e \in entry : y # BlockOf(e.item.video)
      <3>1. \A u \in Videos : ~HeaderOf(y, u)
        BY <1>1 DEF HeaderOf, Page
      <3>2. \A e \in entry : e.item.video # v
        BY <1>5 DEF Others
      <3>3. QED
        BY <1>2, <3>1, <3>2 DEF BlockOf
    <2>2. /\ Wired'
          /\ \A p \in Page : \A S, c : Shown(p, wire, entry, S, c) => Shown(p, wire', entry', S, c)
      BY <1>1, <1>5, <2>1, SkippedKeeps
    <2>3. \A p \in Page : Served(p) => Served(p)'
      BY <1>1, <1>5, <2>2 DEF Served
    <2>4. QED
      BY <1>1, <1>5, <2>2, <2>3 DEF Types, Numbered, Pages
  <1>6. ASSUME NEW e \in entry, e.item.video = v, ~Complete(e.left),
               entry' = Others(entry, v) \cup {[e EXCEPT !.left = @ - 1]}, UNCHANGED card
        PROVE  Types' /\ Numbered' /\ Wired' /\ Pages'
    <2>1. e.left \in Nat /\ e.left > 1
      BY <1>3, <1>6, Entries DEF Complete
    <2>2. Flow(Tail(wire), entry') /\ Uncut(Tail(wire), entry', cut)
      BY <1>1, <1>2, <1>3, <1>6, <2>1, BlockFlow
    <2>3. \A p \in Page : \A S, c : Shown(p, wire, entry, S, c) => Shown(p, Tail(wire), entry', S, c)
      BY <1>1, <1>2, <1>3, <1>6, <2>1, BlockShown
    <2>4. \A p \in Page : Served(p) => Served(p)'
      BY <1>1, <1>6, <2>3 DEF Served
    <2>5. QED
      BY <1>1, <1>6, <2>2, <2>4 DEF Types, Numbered, Wired, Pages
  <1>7. ASSUME NEW e \in entry, e.item.video = v, Complete(e.left),
               entry' = Others(entry, v), card' = Fill(e.page, e.item.slot, v)
        PROVE  Types' /\ Numbered' /\ Wired' /\ Pages'
    <2>1. e.left \in Nat /\ e.left = 1 /\ e.page \in Page
      BY <1>3, <1>7, Entries DEF Complete
    <2>2. Flow(Tail(wire), entry') /\ Uncut(Tail(wire), entry', cut)
      <3>1. entry' = Others(entry, e.item.video) \cup {} /\ Head(wire) = BlockOf(e.item.video)
        BY <1>2, <1>7
      <3>2. \A N : N = {} => LET F == Others(entry, e.item.video) \cup N
                             IN Flow(Tail(wire), F) /\ Uncut(Tail(wire), F, cut)
        BY <1>1, <1>3, <3>1, BlockFlow
      <3>3. QED
        BY <3>1, <3>2
    <2>3. /\ card' \in [Page -> [1 .. Slots -> Videos \cup {NoVideo}]]
          /\ \A p \in Page : card'[p] = IF e.page = p THEN Put(card[p], e.item.slot, v) ELSE card[p]
      <3>1. card \in [Page -> [1 .. Slots -> Videos \cup {NoVideo}]]
        BY DEF Types
      <3>2. CASE e.item.slot \in 1 .. Slots
        <4>1. card' = [card EXCEPT ![e.page] = [card[e.page] EXCEPT ![e.item.slot] = v]]
          BY <1>7, <3>2 DEF Fill
        <4>2. [card[e.page] EXCEPT ![e.item.slot] = v] \in [1 .. Slots -> Videos \cup {NoVideo}]
          BY <1>2, <2>1, <3>1, <3>2
        <4>3. QED
          BY <2>1, <3>1, <3>2, <4>1, <4>2 DEF Put
      <3>3. CASE e.item.slot \notin 1 .. Slots
        BY <1>7, <3>1, <3>3 DEF Fill, Put
      <3>4. QED
        BY <3>2, <3>3
    <2>4. \A p \in Page : \A S : Shown(p, wire, entry, S, card[p]) => Shown(p, Tail(wire), entry', S, card'[p])
      BY <1>1, <1>2, <1>3, <1>7, <2>1, <2>3, LastBlockShown
    <2>5. \A p \in Page : Served(p) => Served(p)'
      BY <1>1, <2>4 DEF Served
    <2>6. QED
      BY <1>1, <2>2, <2>3, <2>5 DEF Types, Numbered, Wired, Pages
  <1>8. QED
    BY <1>4, <1>5, <1>6, <1>7

(* The connection.                                                         *)
LEMMA LoseKeeps ==
  ASSUME Types, Numbered, Wired, Pages, Lose
  PROVE  Types' /\ Numbered' /\ Wired' /\ Pages'
  <1>1. /\ requests' = << >> /\ job' = NoJob /\ losses' \in 0 .. MaxLosses
        /\ clean' = [p \in Page |-> FALSE]
        /\ UNCHANGED <<id, card, entry, size, asked, changes, batch>>
    BY Sizes DEF Lose, Types, client
  <1>2. PICK k \in 0 .. Len(wire) : wire' = SubSeq(wire, 1, k)
    BY DEF Lose
  <1>3. Flow(wire, entry) /\ Uncut(wire, entry, cut) /\ wire \in Seq(Msg)
    BY DEF Wired, Flow
  <1>4. DOMAIN wire = 1 .. Len(wire) /\ Len(wire) \in Nat /\ DOMAIN wire' = 1 .. k
    <2>1. DOMAIN wire = 1 .. Len(wire) /\ Len(wire) \in Nat
      BY <1>3, LenProperties
    <2>2. QED
      BY <1>2, <2>1
  <1>5. cut' = cut \cup {v \in Videos : \E i \in DOMAIN wire \ DOMAIN wire' :
                                        wire[i].type = "block" /\ wire[i].video = v}
    BY DEF Lose
  <1>6. \A v \in Videos \ cut' : \A i \in k + 1 .. Len(wire) : wire[i] # BlockOf(v)
    <2>1. \A i \in k + 1 .. Len(wire) : i \in DOMAIN wire \ DOMAIN wire'
      BY <1>4
    <2>2. QED
      BY <1>5, <2>1 DEF BlockOf
  <1>7. Wired'
    <2>1. Flow(wire', entry)
      BY <1>2, <1>3, LostFlow
    <2>2. Uncut(wire', entry, cut')
      BY <1>2, <1>3, <1>5, <1>6, LostUncut
    <2>3. QED
      BY <1>1, <2>1, <2>2 DEF Wired
  <1>8. Pages'
    BY <1>1 DEF Pages
  <1>9. Types'
    <2>1. requests' \in Seq(Request) /\ job' \in [page : Page \cup {"none"}, rest : Seq(Item)]
      BY <1>1 DEF NoJob
    <2>2. cut' \subseteq Videos
      BY <1>5 DEF Types
    <2>3. QED
      BY <1>1, <2>1, <2>2 DEF Types
  <1>10. Numbered'
    BY <1>1 DEF Numbered, NoJob
  <1>11. QED
    BY <1>7, <1>8, <1>9, <1>10

LEMMA CleanStays ==
  ASSUME CleanType, [Next]_vars
  PROVE  CleanType'
  <1>1. CASE \E p \in Page : Fresh(p)
    <2>1. PICK p \in Page : clean' = [clean EXCEPT ![p] = Quiet]
      BY <1>1 DEF Fresh
    <2>2. Quiet \in BOOLEAN
      BY DEF Quiet
    <2>3. QED
      BY <2>1, <2>2, Zenon DEF CleanType
  <1>2. CASE LoginRs
    <2>1. \/ UNCHANGED clean
          \/ clean' = [clean EXCEPT !["rec"] =
                         Len(wire) = 1 /\ requests = << >> /\ job = NoJob /\ card["rec"] = Empty]
      BY <1>2 DEF LoginRs
    <2>2. (Len(wire) = 1 /\ requests = << >> /\ job = NoJob /\ card["rec"] = Empty) \in BOOLEAN
      OBVIOUS
    <2>3. QED
      BY <2>1, <2>2, Zenon DEF CleanType
  <1>3. CASE Lose
    BY <1>3 DEF Lose, CleanType
  <1>4. CASE UNCHANGED clean
    BY <1>4 DEF CleanType
  <1>5. QED
    <2>1. (\E u \in Users : LoginCommit(u)) \/ LoginRq \/ DownloadRq \/ UploadHistoryRq \/ SendVideo
          \/ DownloadRs \/ FileBlock \/ (\E v \in Videos : Change(v)) \/ UNCHANGED vars => UNCHANGED clean
      BY DEF LoginCommit, LoginRq, DownloadRq, UploadHistoryRq, SendVideo, DownloadRs, FileBlock,
             Change, history, vars
    <2>2. QED
      BY <1>1, <1>2, <1>3, <1>4, <2>1 DEF Next, User, Server, Receive

-----------------------------------------------------------------------------
IInv == Types /\ CleanType /\ Numbered /\ Wired /\ Pages

LEMMA StepKeeps == IInv /\ [Next]_vars => IInv'
  <1> SUFFICES ASSUME Types, CleanType, Numbered, Wired, Pages, [Next]_vars
               PROVE  Types' /\ Numbered' /\ Wired' /\ Pages'
    BY CleanStays DEF IInv
  <1>1. CASE \E u \in Users : LoginCommit(u)
    BY <1>1, LoginCommitKeeps
  <1>2. CASE \E p \in Page : Fresh(p)
    BY <1>2, FreshKeeps
  <1>3. CASE LoginRq
    BY <1>3, LoginRqKeeps
  <1>4. CASE DownloadRq \/ UploadHistoryRq
    BY <1>4, ServerBatchKeeps
  <1>5. CASE SendVideo
    BY <1>5, SendVideoKeeps
  <1>6. CASE LoginRs
    BY <1>6, LoginRsKeeps
  <1>7. CASE DownloadRs
    BY <1>7, DownloadRsKeeps
  <1>8. CASE FileBlock
    BY <1>8, FileBlockKeeps
  <1>9. CASE Lose
    BY <1>9, LoseKeeps
  <1>10. CASE \E v \in Videos : Change(v)
    BY <1>10, ChangeKeeps
  <1>11. CASE UNCHANGED vars
    BY <1>11 DEF vars, Types, Numbered, Wired, Pages, Served
  <1>12. QED
    BY <1>1, <1>2, <1>3, <1>4, <1>5, <1>6, <1>7, <1>8, <1>9, <1>10, <1>11 DEF Next, User, Server, Receive

LEMMA Inductive == Spec => []IInv
  <1>1. Init => IInv
    BY TypesInit DEF IInv
  <1>2. QED
    BY <1>1, StepKeeps, PTL DEF Spec

(* Every variable keeps to its type: the table of transfers holds entries  *)
(* with something left, the wire what the handlers of OnlineDialog know.   *)
THEOREM GalleryTypes == Spec => []TypeOK
  <1>1. IInv => TypeOK
    <2> SUFFICES ASSUME Types, CleanType, Wired PROVE TypeOK
      BY DEF IInv
    <2>1. wire \in Seq(Header \cup Block \cup LoginReply) /\ entry \subseteq Entry
      BY DEF Wired, Flow, Msg
    <2>2. clean \in [Page -> BOOLEAN]
      BY DEF CleanType
    <2>3. \A e \in entry : e \in [page : Page, item : Item, left : 1 .. MaxSize]
      BY <2>1 DEF Entry
    <2>4. job.page \in Page \cup {"none"} /\ job.rest \in Seq(Item)
      BY DEF Types
    <2>5. /\ id \in Users \cup {NoUser}
          /\ card \in [Page -> [1 .. Slots -> Videos \cup {NoVideo}]]
          /\ requests \in Seq(Request)
          /\ size \in [Videos -> 0 .. MaxSize]
          /\ asked \in 0 .. MaxRequests /\ changes \in 0 .. MaxChanges /\ losses \in 0 .. MaxLosses
          /\ batch \in [Page -> SUBSET Item] /\ cut \subseteq Videos
      BY DEF Types
    <2>6. QED
      BY <2>1, <2>2, <2>3, <2>4, <2>5 DEF TypeOK
  <1>2. QED
    BY <1>1, Inductive, PTL

(* Whatever the size of the pages and of the gifs: a page that was cleared *)
(* before it asked shows, when everything has arrived, the last batch it   *)
(* asked for and nothing else (on_pb_fresh_clicked, slot_fileblockrq).     *)
THEOREM CardsShown == Spec => []CardsOfLastBatch
  <1>1. IInv => CardsOfLastBatch
    <2> SUFFICES ASSUME Wired, Pages, NEW p \in Page, Quiet, clean[p], NEW s \in 1 .. Slots
                 PROVE  card[p][s] = IF \E it \in batch[p] : it.slot = s
                                     THEN (CHOOSE it \in batch[p] : it.slot = s).video
                                     ELSE NoVideo
      BY DEF IInv, CardsOfLastBatch
    <2>1. requests = << >> /\ wire = << >> /\ job = NoJob /\ entry \subseteq Entry
      BY DEF Quiet, Wired, Flow
    <2>2. SentOf(requests, job, batch, p) = batch[p]
      BY <2>1 DEF SentOf, AskedIn, LeftOf, NoJob, Page
    <2>3. Shown(p, wire, entry, batch[p], card[p])
      BY <2>2 DEF Pages, Served
    <2>4. \A e \in entry : ~WholeOf(p, wire, e)
      BY <2>1, Entries DEF WholeOf, Runs
    <2>5. \A it \in batch[p] : OnCard(card[p], it)
      BY <2>1, <2>3, <2>4 DEF Shown, OnWire, AtClient
    <2>6. card[p][s] # NoVideo => \E it \in batch[p] : it.slot = s
      BY <2>3 DEF Shown
    <2>7. QED
      BY <2>5, <2>6 DEF OnCard
  <1>2. QED
    BY <1>1, Inductive, PTL

(* Whatever was requested, changed on the server or lost: only a transfer  *)
(* that was cut short leaves an entry and an open file (slot_fileblockrq). *)
THEOREM NothingLeaks == Spec => []NoLeak
  <1>1. IInv => NoLeak
    <2> SUFFICES ASSUME Wired, Quiet, NEW e \in entry, e.item.video \notin cut PROVE FALSE
      BY DEF IInv, NoLeak
    <2>1. wire = << >> /\ e \in Entry /\ e.left \in Nat \ {0} /\ e.item.video \in Videos
      BY Entries DEF Quiet, Wired, Flow
    <2>2. ~Coming(wire, e.item.video)
      BY <2>1 DEF Coming
    <2>3. Runs(wire, 0, e.item.video, e.left)
      BY <2>1, <2>2 DEF Wired, Uncut, Arriving
    <2>4. QED
      BY <2>1, <2>3 DEF Runs
  <1>2. QED
    BY <1>1, Inductive, PTL
=============================================================================
