----------------------- MODULE FriendGraphBalance_proofs -----------------------
(***************************************************************************)
(* Why the friends lists of two users agree in FriendGraph, for every set of *)
(* users and every bound, as long as nothing is recorded in causes: no save   *)
(* has overwritten what it had not read, no guard has returned half-way and   *)
(* no write was refused.                                                     *)
(*                                                                         *)
(* An accept or an unfriend writes the other user's document first and the    *)
(* own one after it.  Between the two commits the documents differ by what    *)
(* the second write, the oldest of the device's queue then, is going to       *)
(* change.  The invariant balances the documents with that.                   *)
(***************************************************************************)
EXTENDS FriendGraph_proofs, QueueLemmas, Integers

Signs == {1, -1}

\* The write adds s to the entries of v, and changes no other entry.
Changes(e, v, s) ==
    /\ e.val.friends[v] = e.prev.friends[v] + s
    /\ \A w \in Uuid : w # v => e.val.friends[w] = e.prev.friends[w]

\* A write of device d that leaves the friends lists alone.
Plain(e, d) ==
    e.kind = "profile" => e.of = d /\ \A w \in Uuid : e.val.friends[w] = e.prev.friends[w]

\* The two halves of an accept (s = 1) or an unfriend (s = -1): saveUser with the
\* document of v, and saveData with the own one.
Theirs(e, d, v, s) == e.kind = "profile" /\ e.of = v /\ Changes(e, d, s)

Mine(e, d, v, s) ==
    /\ e.kind = "profile" /\ e.of = d /\ Changes(e, v, s)
    /\ s = 1 => e.prev.friends[v] = 0
    /\ s = -1 => e.prev.friends[v] > 0

\* The i-th write of device d stands alone or beside its other half.
PairedAt(q, d, i) ==
    \/ Plain(q[i], d)
    \/ \E v \in Uuid, s \in Signs :
           Theirs(q[i], d, v, s) /\ i + 1 \in DOMAIN q /\ Mine(q[i + 1], d, v, s)
    \/ \E v \in Uuid, s \in Signs :
           Mine(q[i], d, v, s) /\ i - 1 \in DOMAIN q /\ Theirs(q[i - 1], d, v, s)

\* The writes that a handler adds, and the queue, whose oldest write may have
\* lost its first half to a commit.
Paired(ws, d) == \A i \in DOMAIN ws : PairedAt(ws, d, i)

WellPaired(q, d) ==
    \A i \in DOMAIN q :
        PairedAt(q, d, i) \/ (i = 1 /\ \E v \in Uuid, s \in Signs : Mine(q[i], d, v, s))

\* What a write changes in the own entries of v.
Delta(e, d, v) ==
    IF e.kind = "profile" /\ e.of = d THEN e.val.friends[v] - e.prev.friends[v] ELSE 0

\* What the oldest write of u still has to change.
Half(u, v) == IF queue[u] = <<>> THEN 0 ELSE Delta(queue[u][1], u, v)

\* How often u lists v once v has written its half.
Agreed(u, v) == docs[u].friends[v] - Half(v, u)

\* A device's currentUser has the friends that it has read or saved last.
Synced == \A u \in Uuid : me[u].friends = base[u].friends

QueuesPaired == \A u \in Uuid : WellPaired(queue[u], u)

Balanced == \A u \in Uuid, v \in Uuid : u # v => Agreed(u, v) = Agreed(v, u)

\* Nobody is listed twice, unless one of the two entries is just being removed.
AtMostOnce ==
    \A u \in Uuid, v \in Uuid : u # v =>
        Agreed(u, v) <= 1 \/ (Agreed(u, v) = 2 /\ (Half(u, v) = -1 \/ Half(v, u) = -1))

\* Who befriends oneself writes one document twice; the second save overwrites
\* the first, which is a cause.  x is the own entry in the own document.
SelfWrite(e, d) == Delta(e, d, d) # 0

SelfOk(q, d, x) ==
    \/ /\ x <= 1
       /\ \/ q = <<>>
          \/ ~ SelfWrite(q[1], d)
          \/ \E s \in Signs : 2 \in DOMAIN q /\ Theirs(q[1], d, d, s) /\ Mine(q[2], d, d, s)
    \/ q # <<>> /\ SelfWrite(q[1], d) /\ q[1].prev.friends[d] # x

Selves == \A u \in Uuid : SelfOk(queue[u], u, docs[u].friends[u])

BInv ==
    causes = {} =>
        /\ Synced
        /\ QueuesPaired
        /\ Balanced
        /\ AtMostOnce
        /\ Selves

-----------------------------------------------------------------------------
(* Writes *)

\* The parts of a write.
LEMMA WriteParts ==
    ASSUME NEW e \in Write
    PROVE  /\ e.of \in Uuid /\ e.val \in Profile /\ e.prev \in Profile
           /\ \A w \in Uuid : e.val.friends[w] \in Nat /\ e.prev.friends[w] \in Nat
BY DEF Write, Profile

\* What each kind of write changes, and that it is of one kind only.
LEMMA KindsDiffer ==
    ASSUME NEW d \in Uuid, NEW e \in Write
    PROVE  /\ \A w \in Uuid : Delta(e, d, w) \in Int
           /\ Plain(e, d) => \A w \in Uuid : Delta(e, d, w) = 0
           /\ \A v \in Uuid, s \in Signs : Theirs(e, d, v, s) =>
                  /\ ~ Plain(e, d)
                  /\ \A w \in Uuid : w # d => Delta(e, d, w) = 0
                  /\ v # d => Delta(e, d, d) = 0
                  /\ v = d => Delta(e, d, d) = s
           /\ \A v \in Uuid, s \in Signs : Mine(e, d, v, s) =>
                  /\ ~ Plain(e, d)
                  /\ Delta(e, d, v) = s
                  /\ \A w \in Uuid : w # v => Delta(e, d, w) = 0
                  /\ v # d => \A x \in Uuid, t \in Signs : ~ Theirs(e, d, x, t)
<1>1. \A w \in Uuid : e.val.friends[w] \in Nat /\ e.prev.friends[w] \in Nat
  BY WriteParts
<1>2. ASSUME NEW w \in Uuid
      PROVE  Delta(e, d, w) \in Int /\ (Plain(e, d) => Delta(e, d, w) = 0)
  <2>1. e.val.friends[w] \in Nat /\ e.prev.friends[w] \in Nat
    BY <1>1
  <2>2. CASE e.kind = "profile" /\ e.of = d
    BY <2>1, <2>2 DEF Delta, Plain
  <2>3. CASE ~ (e.kind = "profile" /\ e.of = d)
    BY <2>3 DEF Delta, Plain
  <2>4. QED
    BY <2>2, <2>3
<1>3. Plain(e, d) => \A w \in Uuid : Delta(e, d, w) = 0
  BY <1>2
<1>4. ASSUME NEW v \in Uuid, NEW s \in Signs, Theirs(e, d, v, s)
      PROVE  /\ ~ Plain(e, d)
             /\ \A w \in Uuid : w # d => Delta(e, d, w) = 0
             /\ v # d => Delta(e, d, d) = 0
             /\ v = d => Delta(e, d, d) = s
  BY <1>1, <1>4 DEF Theirs, Plain, Changes, Delta, Signs
<1>5. ASSUME NEW v \in Uuid, NEW s \in Signs, Mine(e, d, v, s)
      PROVE  /\ ~ Plain(e, d)
             /\ Delta(e, d, v) = s
             /\ \A w \in Uuid : w # v => Delta(e, d, w) = 0
             /\ v # d => \A x \in Uuid, t \in Signs : ~ Theirs(e, d, x, t)
  BY <1>1, <1>5 DEF Theirs, Mine, Plain, Changes, Delta, Signs
<1>6. QED
  BY <1>2, <1>3, <1>4, <1>5

\* The same of one half by itself.
LEMMA TheirsDelta ==
    ASSUME NEW d \in Uuid, NEW e \in Write, NEW v \in Uuid, NEW s \in Signs, Theirs(e, d, v, s)
    PROVE  /\ \A w \in Uuid : w # d => Delta(e, d, w) = 0
           /\ v # d => Delta(e, d, d) = 0
BY KindsDiffer

\* And of the other.
LEMMA MineDelta ==
    ASSUME NEW d \in Uuid, NEW e \in Write, NEW v \in Uuid, NEW s \in Signs, Mine(e, d, v, s)
    PROVE  /\ Delta(e, d, v) = s
           /\ \A w \in Uuid : w # v => Delta(e, d, w) = 0
           /\ v # d => \A x \in Uuid, t \in Signs : ~ Theirs(e, d, x, t)
BY KindsDiffer

-----------------------------------------------------------------------------
(* Queues *)

\* Writes that are put behind a queue in pairs keep it paired.
LEMMA PairedBehind ==
    ASSUME NEW d \in Uuid, NEW q \in Seq(Write), NEW ws \in Seq(Write), Paired(ws, d)
    PROVE  /\ WellPaired(q, d) => WellPaired(q \o ws, d)
           /\ Paired(q, d) => Paired(q \o ws, d)
<1> DEFINE r == q \o ws
<1>1. /\ r \in Seq(Write) /\ Len(q) \in Nat
      /\ \A i \in DOMAIN q : i \in DOMAIN r /\ r[i] = q[i]
      /\ \A i \in DOMAIN ws : Len(q) + i \in DOMAIN r /\ r[Len(q) + i] = ws[i]
      /\ \A i \in DOMAIN r : i \in DOMAIN q \/ \E j \in DOMAIN ws : i = Len(q) + j
  BY ConcatElements, LenProperties
<1>2. DOMAIN q \subseteq Int /\ DOMAIN ws \subseteq Int
  BY LenProperties
<1> HIDE DEF r
<1>3. ASSUME NEW i \in DOMAIN q, PairedAt(q, d, i)
      PROVE  PairedAt(r, d, i)
  BY <1>1, <1>3 DEF PairedAt
<1>4. ASSUME NEW j \in DOMAIN ws
      PROVE  PairedAt(r, d, Len(q) + j)
  <2>1. j \in Int /\ (Len(q) + j) + 1 = Len(q) + (j + 1) /\ (Len(q) + j) - 1 = Len(q) + (j - 1)
    BY <1>1, <1>2
  <2>2. PairedAt(ws, d, j)
    BY DEF Paired
  <2>3. CASE Plain(ws[j], d)
    BY <1>1, <2>3 DEF PairedAt
  <2>4. CASE \E v \in Uuid, s \in Signs :
                 Theirs(ws[j], d, v, s) /\ j + 1 \in DOMAIN ws /\ Mine(ws[j + 1], d, v, s)
    <3>1. r[Len(q) + j] = ws[j]
      BY <1>1
    <3>2. (Len(q) + j) + 1 \in DOMAIN r /\ r[(Len(q) + j) + 1] = ws[j + 1]
      BY <1>1, <2>1, <2>4
    <3>3. QED
      BY <2>4, <3>1, <3>2 DEF PairedAt
  <2>5. CASE \E v \in Uuid, s \in Signs :
                 Mine(ws[j], d, v, s) /\ j - 1 \in DOMAIN ws /\ Theirs(ws[j - 1], d, v, s)
    <3>1. r[Len(q) + j] = ws[j]
      BY <1>1
    <3>2. (Len(q) + j) - 1 \in DOMAIN r /\ r[(Len(q) + j) - 1] = ws[j - 1]
      BY <1>1, <2>1, <2>5
    <3>3. QED
      BY <2>5, <3>1, <3>2 DEF PairedAt
  <2>6. QED
    BY <2>2, <2>3, <2>4, <2>5 DEF PairedAt
<1>5. WellPaired(q, d) => WellPaired(r, d)
  BY <1>1, <1>3, <1>4 DEF WellPaired
<1>6. Paired(q, d) => Paired(r, d)
  BY <1>1, <1>3, <1>4 DEF Paired
<1>7. QED
  BY <1>5, <1>6 DEF r

\* A commit leaves the queue paired, but for the write that is first now.
LEMMA PairedTail ==
    ASSUME NEW d \in Uuid, NEW q \in Seq(Write), q # <<>>, WellPaired(q, d)
    PROVE  WellPaired(Tail(q), d)
<1> DEFINE r == Tail(q)
<1>1. /\ \A i \in DOMAIN r : i \in Nat \ {0} /\ i + 1 \in DOMAIN q /\ r[i] = q[i + 1]
      /\ \A i \in DOMAIN q : i # 1 => i - 1 \in DOMAIN r /\ q[i] = r[i - 1]
  BY TailIndices
<1> HIDE DEF r
<1>2. ASSUME NEW i \in DOMAIN r
      PROVE  PairedAt(r, d, i) \/ (i = 1 /\ \E v \in Uuid, s \in Signs : Mine(r[i], d, v, s))
  <2>1. /\ i \in Nat /\ i # 0 /\ i + 1 # 1 /\ (i + 1) - 1 = i
        /\ i + 1 \in DOMAIN q /\ r[i] = q[i + 1]
    BY <1>1
  <2>2. PairedAt(q, d, i + 1)
    BY <2>1 DEF WellPaired
  <2>3. CASE Plain(q[i + 1], d)
    BY <2>1, <2>3 DEF PairedAt
  <2>4. CASE \E v \in Uuid, s \in Signs :
                 /\ Theirs(q[i + 1], d, v, s) /\ (i + 1) + 1 \in DOMAIN q
                 /\ Mine(q[(i + 1) + 1], d, v, s)
    <3>1. (i + 1) + 1 # 1 /\ ((i + 1) + 1) - 1 = i + 1
      BY <2>1
    <3>2. QED
      BY <1>1, <2>1, <2>4, <3>1 DEF PairedAt
  <2>5. CASE \E v \in Uuid, s \in Signs :
                 Mine(q[i + 1], d, v, s) /\ i \in DOMAIN q /\ Theirs(q[i], d, v, s)
    <3>1. CASE i = 1
      BY <2>1, <2>5, <3>1
    <3>2. CASE i # 1
      <4>1. i - 1 \in DOMAIN r /\ q[i] = r[i - 1]
        BY <1>1, <2>5, <3>2
      <4>2. QED
        BY <2>1, <2>5, <4>1 DEF PairedAt
    <3>3. QED
      BY <3>1, <3>2
  <2>6. QED
    BY <2>1, <2>2, <2>3, <2>4, <2>5 DEF PairedAt
<1>3. QED
  BY <1>2 DEF WellPaired, r

\* The oldest write of a queue, and the first of the writes a handler adds.
LEMMA FirstWrite ==
    ASSUME NEW d \in Uuid, NEW q \in Seq(Write), q # <<>>
    PROVE  /\ 1 \in DOMAIN q /\ q[1] \in Write /\ Head(q) = q[1]
           /\ Paired(q, d) =>
                  \/ Plain(q[1], d)
                  \/ \E v \in Uuid, s \in Signs :
                         Theirs(q[1], d, v, s) /\ 2 \in DOMAIN q /\ Mine(q[2], d, v, s)
           /\ WellPaired(q, d) =>
                  \/ Plain(q[1], d)
                  \/ \E v \in Uuid, s \in Signs :
                         Theirs(q[1], d, v, s) /\ 2 \in DOMAIN q /\ Mine(q[2], d, v, s)
                  \/ \E v \in Uuid, s \in Signs : Mine(q[1], d, v, s)
<1>1. 1 \in DOMAIN q /\ Head(q) = q[1]
  BY TailIndices
<1>2. q[1] \in Write
  BY <1>1, LenProperties
<1>3. 1 + 1 = 2 /\ 1 - 1 \notin DOMAIN q
  BY LenProperties
<1>4. PairedAt(q, d, 1) =>
          \/ Plain(q[1], d)
          \/ \E v \in Uuid, s \in Signs :
                 Theirs(q[1], d, v, s) /\ 2 \in DOMAIN q /\ Mine(q[2], d, v, s)
  BY <1>3 DEF PairedAt
<1>5. QED
  BY <1>1, <1>2, <1>4 DEF Paired, WellPaired

\* What a handler adds begins with nothing that is left to change.
LEMMA NothingHalf ==
    ASSUME NEW d \in Uuid, NEW ws \in Seq(Write), ws # <<>>, Paired(ws, d)
    PROVE  /\ \A w \in Uuid : w # d => Delta(ws[1], d, w) = 0
           /\ \/ ~ SelfWrite(ws[1], d)
              \/ \E s \in Signs : 2 \in DOMAIN ws /\ Theirs(ws[1], d, d, s) /\ Mine(ws[2], d, d, s)
<1>1. ws[1] \in Write
  BY FirstWrite
<1>2. CASE Plain(ws[1], d)
  BY <1>1, <1>2, KindsDiffer DEF SelfWrite
<1>3. CASE \E v \in Uuid, s \in Signs :
               Theirs(ws[1], d, v, s) /\ 2 \in DOMAIN ws /\ Mine(ws[2], d, v, s)
  <2>1. PICK v \in Uuid, s \in Signs :
                 Theirs(ws[1], d, v, s) /\ 2 \in DOMAIN ws /\ Mine(ws[2], d, v, s)
    BY <1>3
  <2>2. \A w \in Uuid : w # d => Delta(ws[1], d, w) = 0
    BY <1>1, <2>1, TheirsDelta
  <2>3. CASE v = d
    BY <2>1, <2>2, <2>3
  <2>4. CASE v # d
    BY <1>1, <2>1, <2>2, <2>4, TheirsDelta DEF SelfWrite
  <2>5. QED
    BY <2>3, <2>4
<1>4. QED
  BY <1>2, <1>3, FirstWrite

\* The balance depends on the documents and on what the oldest writes change.
LEMMA BalanceStays ==
    ASSUME Balanced, AtMostOnce,
           \A v \in Uuid, w \in Uuid : v # w => docs'[v].friends[w] = docs[v].friends[w],
           \A v \in Uuid, w \in Uuid : v # w => Half(v, w)' = Half(v, w)
    PROVE  Balanced' /\ AtMostOnce'
<1>1. \A v \in Uuid, w \in Uuid : v # w => Agreed(v, w)' = Agreed(v, w)
  BY DEF Agreed
<1>2. Balanced'
  BY <1>1 DEF Balanced
<1>3. AtMostOnce'
  BY <1>1 DEF AtMostOnce
<1>4. QED
  BY <1>2, <1>3

\* What the oldest write of the next state changes.
LEMMA HalfNext ==
    ASSUME NEW v, NEW w
    PROVE  Half(v, w)' = IF queue'[v] = <<>> THEN 0 ELSE Delta(queue'[v][1], v, w)
BY DEF Half, Delta

\* A step that adds writes in pairs and touches no document keeps the balance.
LEMMA PairsKeepBalance ==
    ASSUME BInv, IInv, causes = {}, docs' = docs, Synced',
           NEW u \in Uuid, NEW ws \in Seq(Write), Paired(ws, u),
           queue' = [queue EXCEPT ![u] = @ \o ws]
    PROVE  BInv'
<1>1. /\ queue[u] \in Seq(Write) /\ WellPaired(queue[u], u) /\ Balanced /\ AtMostOnce /\ Selves
      /\ \A v \in Uuid : WellPaired(queue[v], v)
  BY DEF BInv, IInv, TypeOK, QueuesPaired
<1>0. PICK q \in Seq(Write) : q = queue[u]
  BY <1>1
<1> DEFINE r == q \o ws
<1>2. \A v \in Uuid : queue'[v] = IF v = u THEN r ELSE queue[v]
  BY <1>0 DEF IInv, TypeOK
<1>3. WellPaired(r, u)
  BY <1>0, <1>1, PairedBehind
<1>4. /\ r \in Seq(Write)
      /\ \A i \in DOMAIN q : i \in DOMAIN r /\ r[i] = q[i]
      /\ q = <<>> => /\ Len(q) = 0
                     /\ \A i \in DOMAIN r : \E j \in DOMAIN ws : i = Len(q) + j
                     /\ \A j \in DOMAIN ws : Len(q) + j \in DOMAIN r /\ r[Len(q) + j] = ws[j]
  <2>1. /\ r \in Seq(Write)
        /\ \A i \in DOMAIN q : i \in DOMAIN r /\ r[i] = q[i]
        /\ \A j \in DOMAIN ws : Len(q) + j \in DOMAIN r /\ r[Len(q) + j] = ws[j]
        /\ \A i \in DOMAIN r : i \in DOMAIN q \/ \E j \in DOMAIN ws : i = Len(q) + j
    BY ConcatElements
  <2> HIDE DEF r
  <2>2. q = <<>> => Len(q) = 0 /\ DOMAIN q = {}
    OBVIOUS
  <2>3. QED
    BY <2>1, <2>2
<1>5. DOMAIN ws \subseteq Int /\ (ws # <<>> => 1 \in DOMAIN ws)
  BY LenProperties, FirstWrite
<1> HIDE DEF r
<1>6. CASE q # <<>>
  <2>1. 1 \in DOMAIN q /\ r[1] = q[1] /\ r # <<>>
    <3>1. 1 \in DOMAIN q
      BY <1>6, FirstWrite
    <3>2. r[1] = q[1] /\ 1 \in DOMAIN r
      BY <1>4, <3>1
    <3>3. QED
      BY <3>1, <3>2
  <2>2. \A v \in Uuid, w \in Uuid : Half(v, w)' = Half(v, w)
    BY <1>0, <1>2, <1>6, <2>1, HalfNext DEF Half
  <2>3. SelfOk(q, u, docs[u].friends[u]) => SelfOk(r, u, docs[u].friends[u])
    BY <1>4, <1>6, <2>1 DEF SelfOk
  <2>4. Selves'
    BY <1>0, <1>1, <1>2, <2>3 DEF Selves
  <2>5. QED
    BY <1>1, <1>2, <1>3, <2>2, <2>4, BalanceStays DEF BInv, QueuesPaired
<1>7. CASE q = <<>>
  <2>1. /\ r # <<>> => ws # <<>> /\ r[1] = ws[1]
        /\ \A i \in DOMAIN ws : i \in DOMAIN r /\ r[i] = ws[i]
    <3>1. \A j \in DOMAIN ws : 0 + j = j
      BY <1>5
    <3>2. \A i \in DOMAIN ws : i \in DOMAIN r /\ r[i] = ws[i]
      BY <1>4, <1>7, <3>1
    <3>3. r # <<>> => 1 \in DOMAIN r
      BY <1>4, FirstWrite
    <3>4. r # <<>> => 1 \in DOMAIN ws
      BY <1>4, <1>7, <3>1, <3>3
    <3>5. QED
      BY <3>2, <3>4
  <2>2. \A w \in Uuid : w # u /\ r # <<>> => Delta(r[1], u, w) = 0
    BY <2>1, NothingHalf
  <2>3. \A v \in Uuid, w \in Uuid : v # w => Half(v, w)' = Half(v, w)
    <3>1. ASSUME NEW v \in Uuid, NEW w \in Uuid, v # u
          PROVE  Half(v, w)' = Half(v, w)
      BY <1>2, <3>1, HalfNext DEF Half
    <3>2. ASSUME NEW w \in Uuid, w # u
          PROVE  Half(u, w)' = 0 /\ Half(u, w) = 0
      BY <1>0, <1>2, <1>7, <2>2, <3>2, HalfNext DEF Half
    <3>3. QED
      BY <3>1, <3>2
  <2>4. docs[u].friends[u] <= 1
    BY <1>0, <1>1, <1>7 DEF Selves, SelfOk
  <2>5. SelfOk(r, u, docs[u].friends[u])
    BY <2>1, <2>4, NothingHalf DEF SelfOk
  <2>6. Selves'
    BY <1>1, <1>2, <2>5 DEF Selves
  <2>7. QED
    BY <1>1, <1>2, <1>3, <2>3, <2>6, BalanceStays DEF BInv, QueuesPaired
<1>8. QED
  BY <1>6, <1>7

-----------------------------------------------------------------------------
(* The writes that are added *)

\* One write before others.
LEMMA PrefixedBy ==
    ASSUME NEW a \in Write, NEW ws \in Seq(Write)
    PROVE  /\ <<a>> \o ws \in Seq(Write)
           /\ 1 \in DOMAIN (<<a>> \o ws) /\ (<<a>> \o ws)[1] = a
           /\ \A j \in DOMAIN ws : 1 + j \in DOMAIN (<<a>> \o ws) /\ (<<a>> \o ws)[1 + j] = ws[j]
           /\ \A i \in DOMAIN (<<a>> \o ws) : i = 1 \/ \E j \in DOMAIN ws : i = 1 + j
<1>0. <<a>> \in Seq(Write)
  OBVIOUS
<1>1. PICK s \in Seq(Write) : s = <<a>>
  BY <1>0
<1>2. Len(s) = 1 /\ DOMAIN s = {1} /\ s[1] = a
  BY <1>1
<1> DEFINE r == s \o ws
<1>3. /\ r \in Seq(Write)
      /\ \A i \in DOMAIN s : i \in DOMAIN r /\ r[i] = s[i]
      /\ \A j \in DOMAIN ws : Len(s) + j \in DOMAIN r /\ r[Len(s) + j] = ws[j]
      /\ \A i \in DOMAIN r : i \in DOMAIN s \/ \E j \in DOMAIN ws : i = Len(s) + j
  BY ConcatElements
<1> HIDE DEF r
<1>4. /\ r \in Seq(Write) /\ 1 \in DOMAIN r /\ r[1] = a
      /\ \A j \in DOMAIN ws : 1 + j \in DOMAIN r /\ r[1 + j] = ws[j]
      /\ \A i \in DOMAIN r : i = 1 \/ \E j \in DOMAIN ws : i = 1 + j
  BY <1>2, <1>3
<1>5. r = <<a>> \o ws
  BY <1>1 DEF r
<1>6. QED
  BY <1>4, <1>5

\* The two halves of an accept or an unfriend, and what is saved with them.
LEMMA HalvesArePaired ==
    ASSUME NEW d \in Uuid, NEW v \in Uuid, NEW s \in Signs,
           NEW a \in Write, Theirs(a, d, v, s), NEW b \in Write, Mine(b, d, v, s),
           NEW ws \in Seq(Write), \A i \in DOMAIN ws : Plain(ws[i], d)
    PROVE  /\ <<a>> \o (<<b>> \o ws) \in Seq(Write)
           /\ Paired(<<a>> \o (<<b>> \o ws), d)
<1>1. PICK r \in Seq(Write) : r = <<b>> \o ws
  BY PrefixedBy
<1>2. /\ 1 \in DOMAIN r /\ r[1] = b
      /\ \A j \in DOMAIN ws : r[1 + j] = ws[j]
      /\ \A i \in DOMAIN r : i = 1 \/ \E j \in DOMAIN ws : i = 1 + j
  BY <1>1, PrefixedBy
<1>3. \A i \in DOMAIN r : i = 1 \/ Plain(r[i], d)
  BY <1>2
<1>4. PICK q \in Seq(Write) : q = <<a>> \o r
  BY PrefixedBy
<1>5. /\ 1 \in DOMAIN q /\ q[1] = a
      /\ \A j \in DOMAIN r : 1 + j \in DOMAIN q /\ q[1 + j] = r[j]
      /\ \A i \in DOMAIN q : i = 1 \/ \E j \in DOMAIN r : i = 1 + j
  BY <1>4, PrefixedBy
<1>6. 2 = 1 + 1 /\ 2 - 1 = 1 /\ 2 \in DOMAIN q /\ q[2] = b
  BY <1>2, <1>5
<1>7. PairedAt(q, d, 1)
  BY <1>5, <1>6 DEF PairedAt
<1>8. PairedAt(q, d, 2)
  BY <1>5, <1>6 DEF PairedAt
<1>9. \A i \in DOMAIN q : i = 1 \/ i = 2 \/ Plain(q[i], d)
  BY <1>3, <1>5, <1>6
<1>10. Paired(q, d)
  BY <1>7, <1>8, <1>9 DEF Paired, PairedAt
<1>11. QED
  BY <1>1, <1>4, <1>10

\* Writes that leave the friends lists alone need no other half.
LEMMA PlainIsPaired ==
    ASSUME NEW d, NEW ws, \A i \in DOMAIN ws : Plain(ws[i], d)
    PROVE  Paired(ws, d)
BY DEF Paired, PairedAt

\* The request documents that saveData writes.
Requests(u, rs) ==
    IF Listed(rs) = {} THEN <<>> ELSE <<RequestWrite("setRequests", u, Listed(rs), 0)>>

\* A write of request documents is no write of a profile.
LEMMA RequestsArePlain ==
    ASSUME NEW u \in Uuid, NEW kind \in {"setRequests", "deleteRequest"}, NEW v \in Uuid,
           NEW S \in SUBSET Uuid, NEW s \in 0..MaxCalls
    PROVE  /\ RequestWrite(kind, v, S, s) \in Write
           /\ Plain(RequestWrite(kind, v, S, s), u)
           /\ <<RequestWrite(kind, v, S, s)>> \in Seq(Write)
           /\ Paired(<<RequestWrite(kind, v, S, s)>>, u)
<1> DEFINE e == RequestWrite(kind, v, S, s)
<1>1. e \in Write /\ e.kind # "profile"
  BY BlankIsGood DEF RequestWrite, Write
<1>2. Plain(e, u)
  BY <1>1 DEF Plain
<1> HIDE DEF e
<1>3. <<e>> \in Seq(Write) /\ \A i \in DOMAIN <<e>> : Plain(<<e>>[i], u)
  BY <1>1, <1>2
<1>4. Paired(<<e>>, u)
  <2>1. PICK ws : ws = <<e>>
    OBVIOUS
  <2>2. QED
    BY <1>3, <2>1, PlainIsPaired
<1>5. QED
  BY <1>1, <1>2, <1>3, <1>4 DEF e

\* saveData of a list as it was read or saved.
LEMMA SaveDataIsPaired ==
    ASSUME NEW u \in Uuid, NEW p \in Profile, NEW q \in Profile, NEW rs,
           p.friends = q.friends
    PROVE  SaveData(u, p, q, rs) \in Seq(Write) /\ Paired(SaveData(u, p, q, rs), u)
<1>1. Listed(rs) \in SUBSET Uuid /\ 0 \in 0..MaxCalls
  BY ConstantsAssumption DEF Listed, ConstantsAssumption
<1>2. PICK e : e = ProfileWrite(u, p, q)
  OBVIOUS
<1>3. e \in Write /\ Plain(e, u)
  BY <1>1, <1>2 DEF ProfileWrite, Write, Plain
<1>4. Requests(u, rs) \in Seq(Write) /\ \A i \in DOMAIN Requests(u, rs) : Plain(Requests(u, rs)[i], u)
  BY <1>1, RequestsArePlain DEF Requests
<1>5. PICK ws \in Seq(Write) : ws = Requests(u, rs)
  BY <1>4
<1>6. PICK r \in Seq(Write) : r = <<e>> \o ws
  BY <1>3, PrefixedBy
<1>7. \A i \in DOMAIN r : Plain(r[i], u)
  <2>1. /\ r[1] = e /\ \A j \in DOMAIN ws : r[1 + j] = ws[j]
        /\ \A i \in DOMAIN r : i = 1 \/ \E j \in DOMAIN ws : i = 1 + j
    BY <1>3, <1>6, PrefixedBy
  <2>2. QED
    BY <1>3, <1>4, <1>5, <2>1
<1>8. r = SaveData(u, p, q, rs)
  BY <1>2, <1>5, <1>6 DEF SaveData, Requests
<1>9. QED
  BY <1>7, <1>8, PlainIsPaired

\* saveUser and saveData together, after a list was changed at both ends.
LEMMA BothSavesArePaired ==
    ASSUME NEW u \in Uuid, NEW v \in Uuid, NEW s \in Signs, NEW rs,
           NEW p \in Profile, NEW snap \in Profile, NEW q \in Profile, NEW old \in Profile,
           \* p is the other document, made of snap; q is the own one, made of old.
           p.friends[u] = snap.friends[u] + s,
           \A w \in Uuid : w # u => p.friends[w] = snap.friends[w],
           q.friends[v] = old.friends[v] + s,
           \A w \in Uuid : w # v => q.friends[w] = old.friends[w],
           s = 1 => old.friends[v] = 0,
           s = -1 => old.friends[v] > 0
    PROVE  /\ SaveUser(u, v, p, snap) \o SaveData(u, q, old, rs) \in Seq(Write)
           /\ Paired(SaveUser(u, v, p, snap) \o SaveData(u, q, old, rs), u)
<1>1. Listed(rs) \in SUBSET Uuid /\ 0 \in 0..MaxCalls
  BY ConstantsAssumption DEF Listed, ConstantsAssumption
<1>2. PICK a : a = ProfileWrite(v, p, snap)
  OBVIOUS
<1>3. a \in Write /\ a.kind = "profile" /\ a.of = v /\ a.val = p /\ a.prev = snap
  BY <1>1, <1>2 DEF ProfileWrite, Write
<1>4. Theirs(a, u, v, s)
  BY <1>3 DEF Theirs, Changes
<1>5. PICK b : b = ProfileWrite(u, q, old)
  OBVIOUS
<1>6. b \in Write /\ b.kind = "profile" /\ b.of = u /\ b.val = q /\ b.prev = old
  BY <1>1, <1>5 DEF ProfileWrite, Write
<1>7. Mine(b, u, v, s)
  BY <1>6 DEF Mine, Changes
<1>8. Requests(u, rs) \in Seq(Write) /\ \A i \in DOMAIN Requests(u, rs) : Plain(Requests(u, rs)[i], u)
  BY <1>1, RequestsArePlain DEF Requests
<1>9. PICK ws \in Seq(Write) : ws = Requests(u, rs)
  BY <1>8
<1>10. SaveUser(u, v, p, snap) \o SaveData(u, q, old, rs) = <<a>> \o (<<b>> \o ws)
  BY <1>2, <1>5, <1>9 DEF SaveUser, SaveData, Requests
<1>11. <<a>> \o (<<b>> \o ws) \in Seq(Write) /\ Paired(<<a>> \o (<<b>> \o ws), u)
  BY <1>3, <1>4, <1>6, <1>7, <1>8, <1>9, HalvesArePaired
<1>12. QED
  BY <1>10, <1>11

-----------------------------------------------------------------------------
(* Steps without a commit *)

\* What has gone wrong stays on record: a step that records nothing starts and
\* ends without a cause.
LEMMA CausesStay ==
    ASSUME Next
    PROVE  causes \subseteq causes'
<1>1. CASE \E u \in Uuid : LogInButtonTapped(u) \/ Taps(u) \/ ListenerFires(u)
  BY <1>1 DEF LogInButtonTapped, Taps, AddUserButtonPressed, UnfriendSwiped, BlockSwiped, IgnoreSwiped,
     RequestBlockSwiped, AddFwen, Tap, ListenerFires
<1>2. CASE \E u \in Uuid : Commit(u)
  BY <1>2 DEF Commit
<1>3. CASE \E u \in Uuid : Refuse(u) \/ Relaunch(u)
  BY <1>3 DEF Refuse, Relaunch
<1>4. CASE \E c \in calls : Answer(c) \/ LookupFails(c) \/ LoggedIn(c) \/ RequestsLoaded(c)
  BY <1>4 DEF Answer, LookupFails, LoggedIn, RequestsLoaded
<1>5. CASE \E c \in calls : SendFriendRequest(c) \/ IgnoreFriendRequest(c) \/ AcceptFriendRequest(c)
  BY <1>5 DEF SendFriendRequest, IgnoreFriendRequest, AcceptFriendRequest
<1>6. CASE \E c \in calls : Unfriended(c) \/ BlockUser(c)
  BY <1>6 DEF Unfriended, BlockUser
<1>7. CASE \E c \in calls : RequestDeleted(c)
  BY <1>7 DEF RequestDeleted
<1>8. QED
  BY <1>1, <1>2, <1>3, <1>4, <1>5, <1>6, <1>7 DEF Next, Completion

\* A step that touches neither documents nor queues keeps the balance.
LEMMA SilentBalance ==
    ASSUME BInv, causes = {}, UNCHANGED <<docs, queue>>, Synced'
    PROVE  BInv'
<1>1. Balanced /\ AtMostOnce /\ QueuesPaired /\ Selves
  BY DEF BInv
<1>2. \A v \in Uuid, w \in Uuid : Half(v, w)' = Half(v, w)
  BY HalfNext DEF Half
<1>3. Balanced' /\ AtMostOnce'
  BY <1>1, <1>2, BalanceStays
<1>4. QueuesPaired' /\ Selves'
  BY <1>1 DEF QueuesPaired, Selves
<1>5. QED
  BY <1>3, <1>4 DEF BInv

\* Taps, lookups and their answers, the login and the arrival of requests.
LEMMA LookupsBalance ==
    ASSUME BInv, IInv, causes = {},
           \/ \E u \in Uuid : LogInButtonTapped(u) \/ Taps(u) \/ ListenerFires(u)
           \/ \E c \in calls : Answer(c) \/ LookupFails(c) \/ RequestsLoaded(c) \/ LoggedIn(c)
    PROVE  BInv'
<1>1. CASE \E c \in calls : LoggedIn(c)
  <2>1. PICK c \in calls : LoggedIn(c)
    BY <1>1
  <2>2. UNCHANGED <<docs, queue>>
    BY <2>1 DEF LoggedIn, server
  <2>3. c.dev \in Uuid
    BY CallInCalls
  <2>4. \A u \in Uuid : me'[u].friends = base'[u].friends
    BY <2>1, <2>3 DEF LoggedIn, BInv, Synced, IInv, TypeOK
  <2>5. QED
    BY <2>2, <2>4, SilentBalance DEF Synced
<1>2. CASE \/ \E u \in Uuid : LogInButtonTapped(u) \/ Taps(u) \/ ListenerFires(u)
           \/ \E c \in calls : Answer(c) \/ LookupFails(c) \/ RequestsLoaded(c)
  <2>1. UNCHANGED <<docs, queue, me, base>>
    <3>1. CASE \E u \in Uuid : LogInButtonTapped(u) \/ Taps(u) \/ ListenerFires(u)
      BY <3>1 DEF LogInButtonTapped, Taps, AddUserButtonPressed, UnfriendSwiped, BlockSwiped,
            IgnoreSwiped, RequestBlockSwiped, AddFwen, Tap, ListenerFires, device, server
    <3>2. CASE \E c \in calls : Answer(c) \/ LookupFails(c) \/ RequestsLoaded(c)
      BY <3>2 DEF Answer, LookupFails, RequestsLoaded, device, server
    <3>3. QED
      BY <1>2, <3>1, <3>2
  <2>2. Synced'
    BY <2>1 DEF BInv, Synced
  <2>3. QED
    BY <2>1, <2>2, SilentBalance
<1>3. QED
  BY <1>1, <1>2

\* What a completion finds.
LEMMA CurrentUserIsSynced ==
    ASSUME BInv, IInv, causes = {}, NEW c \in calls
    PROVE  /\ c.dev \in Uuid /\ c.peer \in Uuid /\ c.slot \in 0..MaxCalls /\ 0 \in 0..MaxCalls
           /\ c.snap \in Profile
           /\ me[c.dev] \in Profile /\ base[c.dev] \in Profile
           /\ me[c.dev].friends = base[c.dev].friends
           /\ queue[c.dev] \in Seq(Write)
<1>1. c.dev \in Uuid /\ c.peer \in Uuid /\ c.slot \in 1..MaxCalls /\ c.snap \in Profile
  BY CallInCalls
<1>2. c.slot \in 0..MaxCalls /\ 0 \in 0..MaxCalls
  BY <1>1, ConstantsAssumption DEF ConstantsAssumption
<1>3. me[c.dev] \in Profile /\ base[c.dev] \in Profile
  BY CurrentUserIsGood
<1>4. me[c.dev].friends = base[c.dev].friends
  BY <1>1 DEF BInv, Synced
<1>5. queue[c.dev] \in Seq(Write)
  BY <1>1 DEF IInv, TypeOK
<1>6. QED
  BY <1>1, <1>2, <1>3, <1>4, <1>5

\* The same of two lots of writes, each paired or both together.
LEMMA TwoLotsKeepBalance ==
    ASSUME BInv, IInv, causes = {}, docs' = docs, Synced',
           NEW u \in Uuid, NEW ws \in Seq(Write), NEW xs \in Seq(Write),
           Paired(ws \o xs, u) \/ (Paired(ws, u) /\ Paired(xs, u)),
           queue' = [queue EXCEPT ![u] = @ \o ws \o xs]
    PROVE  BInv'
<1>1. ws \o xs \in Seq(Write)
  BY ConcatElements
<1>2. Paired(ws \o xs, u)
  BY PairedBehind
<1>3. queue[u] \in Seq(Write)
  BY DEF IInv, TypeOK
<1>4. PICK q \in Seq(Write) : q = queue[u]
  BY <1>3
<1>5. (q \o ws) \o xs = q \o (ws \o xs)
  BY ConcatAssociative
<1>6. queue' = [queue EXCEPT ![u] = @ \o (ws \o xs)]
  BY <1>4, <1>5
<1>7. QED
  BY <1>1, <1>2, <1>6, PairsKeepBalance

\* Requests sent, ignored or deleted change no friends list.
LEMMA RequestsBalance ==
    ASSUME BInv, IInv, causes = {}, NEW c \in calls,
           SendFriendRequest(c) \/ IgnoreFriendRequest(c) \/ AcceptFriendRequest(c)
    PROVE  BInv'
<1> DEFINE u == c.dev
<1>1. /\ u \in Uuid /\ c.peer \in Uuid /\ c.slot \in 0..MaxCalls /\ 0 \in 0..MaxCalls
      /\ me[u] \in Profile /\ base[u] \in Profile /\ me[u].friends = base[u].friends
      /\ queue[u] \in Seq(Write)
  BY CurrentUserIsSynced
<1>2. docs' = docs
  BY DEF SendFriendRequest, IgnoreFriendRequest, AcceptFriendRequest, server
<1>3. Synced'
  <2>1. me' = me /\ (base' = base \/ base' = [base EXCEPT ![u] = me[u]])
    BY DEF SendFriendRequest, IgnoreFriendRequest, AcceptFriendRequest, device
  <2> HIDE DEF u
  <2>2. QED
    BY <1>1, <2>1 DEF BInv, Synced, IInv, TypeOK
<1>4. CASE queue' = queue
  BY <1>2, <1>3, <1>4, SilentBalance
<1>5. CASE SendFriendRequest(c) /\ queue' # queue
  <2> DEFINE e == RequestDoc(u, c.peer)
  <2>1. queue' = [queue EXCEPT ![u] = Append(@, e)]
    BY <1>5 DEF SendFriendRequest
  <2>2. e \in Write /\ <<e>> \in Seq(Write) /\ Paired(<<e>>, u)
    BY <1>1, RequestsArePlain DEF RequestDoc
  <2> HIDE DEF e, u
  <2>3. Append(queue[u], e) = queue[u] \o <<e>>
    BY <1>1, <2>2
  <2>4. QED
    BY <1>1, <1>2, <1>3, <2>1, <2>2, <2>3, PairsKeepBalance
<1>6. CASE AcceptFriendRequest(c)
  <2> DEFINE e == RequestWrite("deleteRequest", u, {c.peer}, c.slot)
  <2>1. queue' = [queue EXCEPT ![u] = Append(@, e)]
    BY <1>6 DEF AcceptFriendRequest
  <2>2. e \in Write /\ <<e>> \in Seq(Write) /\ Paired(<<e>>, u)
    BY <1>1, RequestsArePlain
  <2> HIDE DEF e, u
  <2>3. Append(queue[u], e) = queue[u] \o <<e>>
    BY <1>1, <2>2
  <2>4. QED
    BY <1>1, <1>2, <1>3, <2>1, <2>2, <2>3, PairsKeepBalance
<1>7. CASE IgnoreFriendRequest(c) /\ queue' # queue
  <2> DEFINE e == RequestWrite("deleteRequest", u, {c.peer}, 0)
             saved == SaveData(u, me[u], base[u], [requests[u] EXCEPT ![c.peer] = @ - 1])
  <2>1. queue' = [queue EXCEPT ![u] = @ \o <<e>> \o saved]
    BY <1>7 DEF IgnoreFriendRequest
  <2>2. <<e>> \in Seq(Write) /\ Paired(<<e>>, u)
    BY <1>1, RequestsArePlain
  <2>3. saved \in Seq(Write) /\ Paired(saved, u)
    BY <1>1, SaveDataIsPaired
  <2> HIDE DEF e, saved, u
  <2>4. PICK s1 \in Seq(Write) : s1 = <<e>> /\ Paired(s1, u)
    BY <2>2
  <2>5. PICK s2 \in Seq(Write) : s2 = saved /\ Paired(s2, u)
    BY <2>3
  <2>6. queue' = [queue EXCEPT ![u] = @ \o s1 \o s2]
    BY <2>1, <2>4, <2>5
  <2>7. QED
    BY <1>1, <1>2, <1>3, <2>4, <2>5, <2>6, TwoLotsKeepBalance
<1>8. QED
  BY <1>4, <1>5, <1>6, <1>7

\* What saveUser and saveData add are writes.
LEMMA SavesTyped ==
    ASSUME NEW u \in Uuid, NEW v \in Uuid, NEW p \in Profile, NEW q \in Profile, NEW rs
    PROVE  SaveUser(u, v, p, q) \in Seq(Write) /\ SaveData(u, p, q, rs) \in Seq(Write)
<1>1. Listed(rs) \in SUBSET Uuid /\ 0 \in 0..MaxCalls
  BY ConstantsAssumption DEF Listed, ConstantsAssumption
<1>2. ProfileWrite(u, p, q) \in Write /\ ProfileWrite(v, p, q) \in Write
  BY <1>1 DEF ProfileWrite, Write
<1>3. SaveUser(u, v, p, q) \in Seq(Write)
  BY <1>2 DEF SaveUser
<1>4. PICK ws \in Seq(Write) : ws = Requests(u, rs)
  <2>1. Requests(u, rs) \in Seq(Write) /\ \A i \in DOMAIN Requests(u, rs) : Plain(Requests(u, rs)[i], u)
    BY <1>1, RequestsArePlain DEF Requests
  <2>2. QED
    BY <2>1
<1>5. <<ProfileWrite(u, p, q)>> \o ws \in Seq(Write)
  BY <1>2, PrefixedBy
<1>6. QED
  BY <1>3, <1>4, <1>5 DEF SaveData, Requests

\* unfriendUser, when it is gone through or has nothing to do.
LEMMA UnfriendIsPaired ==
    ASSUME BInv, IInv, causes = {}, NEW c \in calls, UnfriendUser(c).cause = {}
    PROVE  /\ UnfriendUser(c).me \in Profile /\ UnfriendUser(c).base \in Profile
           /\ UnfriendUser(c).me.friends = UnfriendUser(c).base.friends
           /\ UnfriendUser(c).writes \in Seq(Write) /\ Paired(UnfriendUser(c).writes, c.dev)
<1> DEFINE u == c.dev
           mine == RemoveFriend(me[u], c.peer)
           theirs == RemoveFriend(c.snap, u)
<1>1. /\ u \in Uuid /\ c.peer \in Uuid /\ c.snap \in Profile
      /\ me[u] \in Profile /\ base[u] \in Profile /\ me[u].friends = base[u].friends
  BY CurrentUserIsSynced
<1>2. CASE me[u].friends[c.peer] = 0
  <2>1. UnfriendUser(c) = [me |-> me[u], base |-> base[u], writes |-> <<>>, cause |-> {}]
    BY <1>2 DEF UnfriendUser
  <2>2. <<>> \in Seq(Write) /\ Paired(<<>>, u)
    BY DEF Paired
  <2>3. QED
    BY <1>1, <2>1, <2>2
<1>3. CASE me[u].friends[c.peer] # 0
  <2>1. c.snap.friends[u] # 0
    BY <1>3 DEF UnfriendUser
  <2> DEFINE ws == SaveUser(u, c.peer, theirs, c.snap) \o SaveData(u, mine, base[u], requests[u])
  <2>2. UnfriendUser(c) = [me |-> mine, base |-> mine, cause |-> {}, writes |-> ws]
    BY <1>3, <2>1 DEF UnfriendUser
  <2>3. /\ mine \in Profile /\ mine.friends[c.peer] = me[u].friends[c.peer] - 1
        /\ \A w \in Uuid : w # c.peer => mine.friends[w] = me[u].friends[w]
    BY <1>1, <1>3, FriendArithmetic
  <2>4. /\ theirs \in Profile /\ theirs.friends[u] = c.snap.friends[u] - 1
        /\ \A w \in Uuid : w # u => theirs.friends[w] = c.snap.friends[w]
    BY <1>1, <2>1, FriendArithmetic
  <2>5. /\ me[u].friends[c.peer] \in Nat /\ c.snap.friends[u] \in Nat
    BY <1>1 DEF Profile
  <2> HIDE DEF mine, theirs
  <2>6. /\ theirs.friends[u] = c.snap.friends[u] + (-1)
        /\ mine.friends[c.peer] = base[u].friends[c.peer] + (-1)
        /\ base[u].friends[c.peer] > 0
        /\ \A w \in Uuid : w # c.peer => mine.friends[w] = base[u].friends[w]
    BY <1>1, <1>3, <2>3, <2>4, <2>5
  <2>7. ws \in Seq(Write) /\ Paired(ws, u)
    <3>1. -1 \in Signs /\ -1 # 1
      BY DEF Signs
    <3>2. QED
      BY <1>1, <2>3, <2>4, <2>6, <3>1, BothSavesArePaired
  <2> HIDE DEF ws
  <2>8. QED
    BY <2>2, <2>3, <2>7
<1>4. QED
  BY <1>2, <1>3

\* The unfriend action, and the action of a request row titled "block".
LEMMA UnfriendedBalance ==
    ASSUME BInv, IInv, causes = {}, causes' = {}, NEW c \in calls, Unfriended(c)
    PROVE  BInv'
<1> DEFINE u == c.dev
           r == UnfriendUser(c)
<1>1. u \in Uuid
  BY CallInCalls
<1>2. /\ docs' = docs /\ r.cause = {}
      /\ me' = [me EXCEPT ![u] = r.me] /\ base' = [base EXCEPT ![u] = r.base]
      /\ queue' = [queue EXCEPT ![u] = @ \o r.writes]
  BY DEF Unfriended, server
<1>3. /\ r.me \in Profile /\ r.base \in Profile /\ r.me.friends = r.base.friends
      /\ r.writes \in Seq(Write) /\ Paired(r.writes, u)
  BY <1>2, UnfriendIsPaired
<1> HIDE DEF u, r
<1>4. Synced'
  BY <1>1, <1>2, <1>3 DEF BInv, Synced, IInv, TypeOK
<1>5. QED
  BY <1>1, <1>2, <1>3, <1>4, PairsKeepBalance

\* blockUser: what it saves after unfriendUser changes no friend.
LEMMA BlockUserBalance ==
    ASSUME BInv, IInv, causes = {}, causes' = {}, NEW c \in calls, BlockUser(c)
    PROVE  BInv'
<1> DEFINE u == c.dev
           r == UnfriendUser(c)
           mine == [r.me EXCEPT !.blocked = @ \cup {c.peer}]
           saved == SaveData(u, mine, r.base, requests[u])
<1>1. u \in Uuid /\ c.peer \in Uuid
  BY CallInCalls
<1>2. /\ docs' = docs /\ r.cause = {}
      /\ me' = [me EXCEPT ![u] = mine] /\ base' = [base EXCEPT ![u] = mine]
      /\ queue' = [queue EXCEPT ![u] = @ \o r.writes \o saved]
  BY DEF BlockUser, server
<1>3. /\ r.me \in Profile /\ r.base \in Profile /\ r.me.friends = r.base.friends
      /\ r.writes \in Seq(Write) /\ Paired(r.writes, u)
  BY <1>2, UnfriendIsPaired
<1> HIDE DEF r
<1>4. mine \in Profile /\ mine.friends = r.base.friends
  BY <1>1, <1>3 DEF Profile
<1> HIDE DEF mine
<1>5. saved \in Seq(Write) /\ Paired(saved, u)
  BY <1>1, <1>3, <1>4, SaveDataIsPaired
<1> HIDE DEF u, saved
<1>6. Synced'
  BY <1>1, <1>2, <1>4 DEF BInv, Synced, IInv, TypeOK
<1>7. QED
  BY <1>1, <1>2, <1>3, <1>5, <1>6, TwoLotsKeepBalance

\* acceptFriendRequest, when it is gone through or the two are friends already.
LEMMA RequestDeletedBalance ==
    ASSUME BInv, IInv, causes = {}, causes' = {}, NEW c \in calls, RequestDeleted(c)
    PROVE  BInv'
<1> DEFINE u == c.dev
           v == c.peer
           mine == AddFriend(me[u], v)
           hers == AddFriend(c.snap, u)
           rest == [requests[u] EXCEPT ![v] = @ - 1]
           theirs == SaveUser(u, v, hers, c.snap)
           saved == SaveData(u, mine, base[u], rest)
<1>1. /\ u \in Uuid /\ v \in Uuid /\ c.snap \in Profile
      /\ me[u] \in Profile /\ base[u] \in Profile /\ me[u].friends = base[u].friends
  BY CurrentUserIsSynced
<1>2. docs' = docs
  BY DEF RequestDeleted, server
<1>3. CASE AlreadyFriends(c)
  <2>1. UNCHANGED <<docs, queue, me, base>>
    BY <1>2, <1>3 DEF RequestDeleted
  <2>2. Synced'
    BY <2>1 DEF BInv, Synced
  <2>3. QED
    BY <2>1, <2>2, SilentBalance
<1>4. CASE ~ AlreadyFriends(c)
  <2>1. /\ me' = [me EXCEPT ![u] = mine] /\ base' = [base EXCEPT ![u] = mine]
        /\ queue' = [queue EXCEPT ![u] = @ \o theirs \o saved]
    BY <1>4 DEF RequestDeleted
  <2>2. me[u].friends[v] = 0
    <3>1. me[u].friends[v] \in Nat
      BY <1>1 DEF Profile
    <3>2. ~ (me[u].friends[v] > 0)
      BY <1>4 DEF AlreadyFriends
    <3>3. QED
      BY <3>1, <3>2
  <2>3. /\ mine \in Profile /\ mine.friends[v] = base[u].friends[v] + 1
        /\ \A w \in Uuid : w # v => mine.friends[w] = base[u].friends[w]
    <3>1. /\ mine \in Profile /\ mine.friends[v] = me[u].friends[v] + 1
          /\ \A w \in Uuid : w # v => mine.friends[w] = me[u].friends[w]
      BY <1>1, FriendArithmetic
    <3> HIDE DEF mine
    <3>2. QED
      BY <1>1, <3>1
  <2>4. /\ hers \in Profile /\ hers.friends[u] = c.snap.friends[u] + 1
        /\ \A w \in Uuid : w # u => hers.friends[w] = c.snap.friends[w]
    BY <1>1, FriendArithmetic
  <2> HIDE DEF mine, hers, rest
  <2>5. Paired(theirs \o saved, u)
    <3>1. 1 \in Signs /\ 1 # -1 /\ base[u].friends[v] = 0
      BY <1>1, <2>2 DEF Signs
    <3>2. QED
      BY <1>1, <2>3, <2>4, <3>1, BothSavesArePaired
  <2>6. theirs \in Seq(Write) /\ saved \in Seq(Write)
    BY <1>1, <2>3, <2>4, SavesTyped
  <2> HIDE DEF u, v, theirs, saved
  <2>7. Synced'
    BY <1>1, <2>1, <2>3 DEF BInv, Synced, IInv, TypeOK
  <2>8. QED
    BY <1>1, <1>2, <2>1, <2>5, <2>6, <2>7, TwoLotsKeepBalance
<1>5. QED
  BY <1>3, <1>4

-----------------------------------------------------------------------------
(* Commits *)

\* A commit that overwrites nothing changes the entries that its write changes.
LEMMA CommitEntries ==
    ASSUME IInv, causes = {}, causes' = {}, NEW u \in Uuid, Commit(u),
           NEW q \in Seq(Write), q = queue[u]
    PROVE  /\ q # <<>> /\ q[1] \in Write
           /\ queue'[u] = Tail(q) /\ \A v \in Uuid : v # u => queue'[v] = queue[v]
           /\ \A v \in Uuid, w \in Uuid : docs[v].friends[w] \in Nat
           /\ Plain(q[1], u) =>
                  \A x \in Uuid, w \in Uuid : docs'[x].friends[w] = docs[x].friends[w]
           /\ \A v \in Uuid, s \in Signs : Theirs(q[1], u, v, s) =>
                  /\ docs'[v].friends[u] = docs[v].friends[u] + s
                  /\ \A x \in Uuid, w \in Uuid :
                         x # v \/ w # u => docs'[x].friends[w] = docs[x].friends[w]
           /\ \A v \in Uuid, s \in Signs : Mine(q[1], u, v, s) =>
                  /\ docs'[u].friends[v] = docs[u].friends[v] + s
                  /\ \A x \in Uuid, w \in Uuid :
                         x # u \/ w # v => docs'[x].friends[w] = docs[x].friends[w]
           /\ q[1].kind = "profile" /\ q[1].of = u => q[1].prev.friends = docs[u].friends
<1>1. q # <<>> /\ q[1] \in Write /\ Head(q) = q[1]
  <2>1. q # <<>>
    BY DEF Commit
  <2>2. QED
    BY <2>1, FirstWrite
<1>2. PICK e \in Write : e = q[1]
  BY <1>1
<1>3. queue'[u] = Tail(q) /\ \A v \in Uuid : v # u => queue'[v] = queue[v]
  BY DEF Commit, IInv, TypeOK
<1>4. e.of \in Uuid /\ \A w \in Uuid : e.val.friends[w] \in Nat /\ e.prev.friends[w] \in Nat
  BY WriteParts
<1>5. /\ e.kind = "profile" => docs' = [docs EXCEPT ![e.of] = e.val] /\ docs[e.of] = e.prev
      /\ e.kind # "profile" => docs' = docs
  BY <1>1, <1>2 DEF Commit
<1>6. \A x \in Uuid, w \in Uuid :
          docs'[x].friends[w] = IF e.kind = "profile" /\ e.of = x THEN e.val.friends[w]
                                ELSE docs[x].friends[w]
  BY <1>4, <1>5 DEF IInv, TypeOK
<1>7. \A v \in Uuid, w \in Uuid : docs[v].friends[w] \in Nat
  BY DEF IInv, TypeOK, Profile
<1>8. ASSUME Plain(e, u), NEW x \in Uuid, NEW w \in Uuid
      PROVE  docs'[x].friends[w] = docs[x].friends[w]
  BY <1>5, <1>6, <1>8 DEF Plain
<1>9. ASSUME NEW v \in Uuid, NEW s \in Signs, Theirs(e, u, v, s)
      PROVE  /\ docs'[v].friends[u] = docs[v].friends[u] + s
             /\ \A x \in Uuid, w \in Uuid :
                    x # v \/ w # u => docs'[x].friends[w] = docs[x].friends[w]
  BY <1>5, <1>6, <1>9 DEF Theirs, Changes
<1>10. ASSUME NEW v \in Uuid, NEW s \in Signs, Mine(e, u, v, s)
       PROVE  /\ docs'[u].friends[v] = docs[u].friends[v] + s
              /\ \A x \in Uuid, w \in Uuid :
                     x # u \/ w # v => docs'[x].friends[w] = docs[x].friends[w]
  BY <1>5, <1>6, <1>10 DEF Mine, Changes
<1>11. e.kind = "profile" /\ e.of = u => e.prev.friends = docs[u].friends
  BY <1>5
<1>12. QED
  BY <1>1, <1>2, <1>3, <1>7, <1>8, <1>9, <1>10, <1>11

\* What is first once the oldest write is gone: the other half of that write, or
\* a write that stands alone or begins a pair.
LEMMA BehindHead ==
    ASSUME NEW d \in Uuid, NEW q \in Seq(Write), q # <<>>, WellPaired(q, d),
           NEW r \in Seq(Write), r = Tail(q), r # <<>>
    PROVE  /\ 2 \in DOMAIN q /\ r[1] = q[2] /\ r[1] \in Write
           /\ \/ Plain(r[1], d)
              \/ \E v \in Uuid, s \in Signs :
                     Theirs(r[1], d, v, s) /\ 2 \in DOMAIN r /\ Mine(r[2], d, v, s)
              \/ \E v \in Uuid, s \in Signs : Mine(r[1], d, v, s) /\ Theirs(q[1], d, v, s)
<1>1. /\ \A i \in DOMAIN r : i + 1 \in DOMAIN q /\ r[i] = q[i + 1]
      /\ \A i \in DOMAIN q : i # 1 => i - 1 \in DOMAIN r /\ q[i] = r[i - 1]
  BY TailIndices
<1>2. 1 \in DOMAIN r /\ r[1] \in Write
  BY FirstWrite
<1>3. 1 + 1 = 2 /\ 2 + 1 = 3 /\ 3 - 1 = 2 /\ 2 - 1 = 1 /\ 2 # 1 /\ 3 # 1
  OBVIOUS
<1>4. 2 \in DOMAIN q /\ r[1] = q[2]
  BY <1>1, <1>2, <1>3
<1>5. PairedAt(q, d, 2)
  BY <1>3, <1>4 DEF WellPaired
<1>6. 3 \in DOMAIN q => 2 \in DOMAIN r /\ q[3] = r[2]
  BY <1>1, <1>3
<1>7. QED
  BY <1>2, <1>3, <1>4, <1>5, <1>6 DEF PairedAt

\* Unless the other half of what was committed is first now, nothing is left to
\* change.
LEMMA FreshBehindHead ==
    ASSUME NEW d \in Uuid, NEW q \in Seq(Write), q # <<>>, WellPaired(q, d),
           NEW r \in Seq(Write), r = Tail(q), r # <<>>,
           \A v \in Uuid, s \in Signs : ~ Theirs(q[1], d, v, s)
    PROVE  /\ \A w \in Uuid : w # d => Delta(r[1], d, w) = 0
           /\ \/ ~ SelfWrite(r[1], d)
              \/ \E s \in Signs : 2 \in DOMAIN r /\ Theirs(r[1], d, d, s) /\ Mine(r[2], d, d, s)
<1>1. r[1] \in Write
  BY BehindHead
<1>2. CASE Plain(r[1], d)
  BY <1>1, <1>2, KindsDiffer DEF SelfWrite
<1>3. CASE \E v \in Uuid, s \in Signs :
               Theirs(r[1], d, v, s) /\ 2 \in DOMAIN r /\ Mine(r[2], d, v, s)
  <2>1. PICK v \in Uuid, s \in Signs :
                 Theirs(r[1], d, v, s) /\ 2 \in DOMAIN r /\ Mine(r[2], d, v, s)
    BY <1>3
  <2>2. \A w \in Uuid : w # d => Delta(r[1], d, w) = 0
    BY <1>1, <2>1, TheirsDelta
  <2>3. CASE v = d
    BY <2>1, <2>2, <2>3
  <2>4. CASE v # d
    BY <1>1, <2>1, <2>2, <2>4, TheirsDelta DEF SelfWrite
  <2>5. QED
    BY <2>3, <2>4
<1>4. QED
  BY <1>2, <1>3, BehindHead

\* One half is one entry more or less.
LEMMA HalfBounds ==
    ASSUME IInv, QueuesPaired, NEW v \in Uuid, NEW w \in Uuid, v # w
    PROVE  Half(v, w) \in {-1, 0, 1}
<1>1. queue[v] \in Seq(Write) /\ WellPaired(queue[v], v)
  BY DEF IInv, TypeOK, QueuesPaired
<1>2. PICK q \in Seq(Write) : q = queue[v]
  BY <1>1
<1>3. CASE q = <<>>
  BY <1>2, <1>3 DEF Half
<1>4. CASE q # <<>>
  <2>1. Half(v, w) = Delta(q[1], v, w)
    BY <1>2, <1>4 DEF Half
  <2>2. q[1] \in Write
    BY <1>4, FirstWrite
  <2>3. CASE Plain(q[1], v)
    BY <2>1, <2>2, <2>3, KindsDiffer
  <2>4. CASE \E x \in Uuid, s \in Signs : Theirs(q[1], v, x, s)
    BY <2>1, <2>2, <2>4, KindsDiffer
  <2>5. CASE \E x \in Uuid, s \in Signs : Mine(q[1], v, x, s)
    <3>1. PICK x \in Uuid, s \in Signs : Mine(q[1], v, x, s)
      BY <2>5
    <3>2. Delta(q[1], v, x) = s /\ \A y \in Uuid : y # x => Delta(q[1], v, y) = 0
      BY <2>2, <3>1, KindsDiffer
    <3>3. QED
      BY <2>1, <3>2 DEF Signs
  <2>6. QED
    BY <1>1, <1>2, <1>4, <2>3, <2>4, <2>5, FirstWrite
<1>5. QED
  BY <1>3, <1>4

\* What the oldest write of the committing device changes then and now, and that
\* of the others.
LEMMA HalvesAtCommit ==
    ASSUME IInv, causes = {}, causes' = {}, NEW u \in Uuid, Commit(u),
           NEW q \in Seq(Write), q = queue[u], NEW r \in Seq(Write), r = Tail(q)
    PROVE  /\ \A w \in Uuid : Half(u, w) = Delta(q[1], u, w)
           /\ \A w \in Uuid : Half(u, w)' = IF r = <<>> THEN 0 ELSE Delta(r[1], u, w)
           /\ \A v \in Uuid, w \in Uuid : v # u => Half(v, w)' = Half(v, w)
<1>1. /\ q # <<>> /\ queue'[u] = r
      /\ \A v \in Uuid : v # u => queue'[v] = queue[v]
  BY CommitEntries
<1>2. \A w \in Uuid : Half(u, w) = Delta(q[1], u, w)
  BY <1>1 DEF Half
<1>3. \A w \in Uuid : Half(u, w)' = IF r = <<>> THEN 0 ELSE Delta(r[1], u, w)
  BY <1>1, HalfNext
<1>4. \A v \in Uuid, w \in Uuid : v # u => Half(v, w)' = Half(v, w)
  BY <1>1, HalfNext DEF Half
<1>5. QED
  BY <1>2, <1>3, <1>4

\* The queues after a commit, and the own entries of the other users.
LEMMA SelvesAtCommit ==
    ASSUME BInv, IInv, causes = {}, causes' = {}, NEW u \in Uuid, Commit(u),
           \A v \in Uuid : v # u => docs'[v].friends[v] = docs[v].friends[v],
           SelfOk(queue'[u], u, docs'[u].friends[u])
    PROVE  Selves'
<1>1. queue[u] \in Seq(Write)
  BY DEF IInv, TypeOK
<1>2. \A v \in Uuid : v # u => queue'[v] = queue[v]
  BY <1>1, CommitEntries
<1>3. \A v \in Uuid : SelfOk(queue[v], v, docs[v].friends[v])
  BY DEF BInv, Selves
<1>4. \A v \in Uuid : SelfOk(queue'[v], v, docs'[v].friends[v])
  BY <1>2, <1>3
<1>5. QED
  BY <1>4 DEF Selves

\* The first half and the second, by themselves.
LEMMA TheirsCommitted ==
    ASSUME IInv, causes = {}, causes' = {}, NEW u \in Uuid, Commit(u),
           NEW q \in Seq(Write), q = queue[u],
           NEW v \in Uuid, NEW s \in Signs, Theirs(q[1], u, v, s)
    PROVE  /\ docs'[v].friends[u] = docs[v].friends[u] + s
           /\ \A x \in Uuid, w \in Uuid : x # v \/ w # u => docs'[x].friends[w] = docs[x].friends[w]
BY CommitEntries

\* The second half also finds the own document as it was saved last.
LEMMA MineCommitted ==
    ASSUME IInv, causes = {}, causes' = {}, NEW u \in Uuid, Commit(u),
           NEW q \in Seq(Write), q = queue[u],
           NEW v \in Uuid, NEW s \in Signs, Mine(q[1], u, v, s)
    PROVE  /\ docs'[u].friends[v] = docs[u].friends[v] + s
           /\ \A x \in Uuid, w \in Uuid : x # u \/ w # v => docs'[x].friends[w] = docs[x].friends[w]
           /\ q[1].prev.friends = docs[u].friends
<1>1. /\ docs'[u].friends[v] = docs[u].friends[v] + s
      /\ \A x \in Uuid, w \in Uuid : x # u \/ w # v => docs'[x].friends[w] = docs[x].friends[w]
  BY CommitEntries
<1>2. q[1].kind = "profile" /\ q[1].of = u
  BY DEF Mine
<1>3. q[1].prev.friends = docs[u].friends
  BY <1>2, CommitEntries
<1>4. QED
  BY <1>1, <1>3

\* What has a first element is not empty.
LEMMA HasFirst ==
    ASSUME NEW r, 1 \in DOMAIN r
    PROVE  r # <<>>
OBVIOUS

\* A write that stands alone, or requests.
LEMMA PlainCommitBalance ==
    ASSUME BInv, IInv, causes = {}, causes' = {}, NEW u \in Uuid, Commit(u),
           NEW q \in Seq(Write), q = queue[u], NEW r \in Seq(Write), r = Tail(q), Plain(q[1], u)
    PROVE  Balanced' /\ AtMostOnce' /\ Selves'
<1>1. /\ q # <<>> /\ q[1] \in Write /\ queue'[u] = r
      /\ \A x \in Uuid, w \in Uuid : docs'[x].friends[w] = docs[x].friends[w]
  BY CommitEntries
<1>2. /\ WellPaired(q, u) /\ Balanced /\ AtMostOnce
      /\ SelfOk(q, u, docs[u].friends[u])
  BY DEF BInv, QueuesPaired, Selves
<1>3. \A v \in Uuid, s \in Signs : ~ Theirs(q[1], u, v, s)
  BY <1>1, KindsDiffer
<1>4. r # <<>> =>
          /\ \A w \in Uuid : w # u => Delta(r[1], u, w) = 0
          /\ \/ ~ SelfWrite(r[1], u)
             \/ \E s \in Signs : 2 \in DOMAIN r /\ Theirs(r[1], u, u, s) /\ Mine(r[2], u, u, s)
  BY <1>1, <1>2, <1>3, FreshBehindHead
<1>5. \A w \in Uuid : Delta(q[1], u, w) = 0
  BY <1>1, KindsDiffer
<1>6. \A v \in Uuid, w \in Uuid : v # w => Half(v, w)' = Half(v, w)
  <2>1. /\ \A w \in Uuid : Half(u, w) = Delta(q[1], u, w)
        /\ \A w \in Uuid : Half(u, w)' = IF r = <<>> THEN 0 ELSE Delta(r[1], u, w)
        /\ \A x \in Uuid, w \in Uuid : x # u => Half(x, w)' = Half(x, w)
    BY HalvesAtCommit
  <2>2. \A w \in Uuid : w # u => Half(u, w)' = 0 /\ Half(u, w) = 0
    BY <1>4, <1>5, <2>1
  <2>3. QED
    BY <2>1, <2>2
<1>7. Balanced' /\ AtMostOnce'
  BY <1>1, <1>2, <1>6, BalanceStays
<1>8. docs[u].friends[u] <= 1
  BY <1>1, <1>2, <1>5 DEF SelfOk, SelfWrite
<1>9. SelfOk(r, u, docs'[u].friends[u])
  BY <1>1, <1>4, <1>8 DEF SelfOk
<1>10. Selves'
  BY <1>1, <1>9, SelvesAtCommit
<1>11. QED
  BY <1>7, <1>10

\* The first half, in the document of another user: what it adds to that document
\* is what the device has yet to add to its own.
LEMMA TheirsCommitBalance ==
    ASSUME BInv, IInv, causes = {}, causes' = {}, NEW u \in Uuid, Commit(u),
           NEW q \in Seq(Write), q = queue[u], NEW r \in Seq(Write), r = Tail(q),
           NEW v \in Uuid, v # u, NEW s \in Signs,
           Theirs(q[1], u, v, s), 2 \in DOMAIN q, Mine(q[2], u, v, s)
    PROVE  Balanced' /\ AtMostOnce' /\ Selves'
<1>0. /\ q # <<>> /\ q[1] \in Write /\ queue'[u] = r
      /\ \A x \in Uuid, w \in Uuid : docs[x].friends[w] \in Nat
  BY CommitEntries
<1>1. /\ q # <<>> /\ q[1] \in Write /\ queue'[u] = r
      /\ \A x \in Uuid, w \in Uuid : docs[x].friends[w] \in Nat
      /\ docs'[v].friends[u] = docs[v].friends[u] + s
      /\ \A x \in Uuid, w \in Uuid : x # v \/ w # u => docs'[x].friends[w] = docs[x].friends[w]
  BY <1>0, TheirsCommitted
<1>2. /\ WellPaired(q, u) /\ Balanced /\ AtMostOnce /\ QueuesPaired
      /\ SelfOk(q, u, docs[u].friends[u])
  BY DEF BInv, QueuesPaired, Selves
<1>3. r # <<>> /\ r[1] = q[2] /\ r[1] \in Write
  <2>1. 2 - 1 = 1 /\ 2 # 1 /\ 1 \in DOMAIN r /\ q[2] = r[1]
    BY <1>1, TailIndices
  <2>2. r # <<>>
    BY <2>1, HasFirst
  <2>3. QED
    BY <2>1, <2>2, FirstWrite
<1>4. /\ \A w \in Uuid : w # u => Delta(q[1], u, w) = 0
      /\ Delta(q[1], u, u) = 0
  BY <1>1, TheirsDelta
<1>5. Delta(r[1], u, v) = s /\ \A w \in Uuid : w # v => Delta(r[1], u, w) = 0
  BY <1>3, MineDelta
<1>6. /\ Half(u, v) = 0 /\ Half(u, v)' = s
      /\ \A x \in Uuid, w \in Uuid : x # w /\ (x # u \/ w # v) => Half(x, w)' = Half(x, w)
  <2>1. /\ \A w \in Uuid : Half(u, w) = Delta(q[1], u, w)
        /\ \A w \in Uuid : Half(u, w)' = IF r = <<>> THEN 0 ELSE Delta(r[1], u, w)
        /\ \A x \in Uuid, w \in Uuid : x # u => Half(x, w)' = Half(x, w)
    BY HalvesAtCommit
  <2>2. \A w \in Uuid : Half(u, w)' = Delta(r[1], u, w)
    BY <1>3, <2>1
  <2>3. \A w \in Uuid : w # u /\ w # v => Half(u, w)' = 0 /\ Half(u, w) = 0
    BY <1>4, <1>5, <2>1, <2>2
  <2>4. Half(u, v) = 0 /\ Half(u, v)' = s
    BY <1>4, <1>5, <2>1, <2>2
  <2>5. ASSUME NEW x \in Uuid, NEW w \in Uuid, x # w, x # u \/ w # v
        PROVE  Half(x, w)' = Half(x, w)
    <3>1. CASE x # u
      BY <2>1, <3>1
    <3>2. CASE x = u
      <4>1. Half(u, w)' = Half(u, w)
        BY <2>3, <2>5, <3>2
      <4>2. QED
        BY <3>2, <4>1
    <3>3. QED
      BY <3>1, <3>2
  <2>6. QED
    BY <2>4, <2>5
<1>7. \A x \in Uuid, w \in Uuid : x # w => Agreed(x, w)' = Agreed(x, w)
  <2>1. s \in Int /\ docs[v].friends[u] \in Int
    BY <1>1 DEF Signs
  <2>2. Agreed(v, u)' = Agreed(v, u)
    <3>1. Agreed(v, u)' = (docs[v].friends[u] + s) - s /\ Agreed(v, u) = docs[v].friends[u] - 0
      BY <1>1, <1>6 DEF Agreed
    <3>2. QED
      BY <2>1, <3>1
  <2>3. ASSUME NEW x \in Uuid, NEW w \in Uuid, x # w, x # v \/ w # u
        PROVE  Agreed(x, w)' = Agreed(x, w)
    BY <1>1, <1>6, <2>3 DEF Agreed
  <2>4. QED
    BY <2>2, <2>3
<1>8. Balanced'
  BY <1>2, <1>7 DEF Balanced
<1>9. AtMostOnce'
  <2>1. \A x \in Uuid, w \in Uuid : x # w /\ Half(x, w) = -1 => Half(x, w)' = -1
    BY <1>6
  <2>2. QED
    BY <1>2, <1>7, <2>1 DEF AtMostOnce
<1>10. docs[u].friends[u] <= 1 /\ docs'[u].friends[u] = docs[u].friends[u]
  BY <1>1, <1>2, <1>4 DEF SelfOk, SelfWrite
<1>11. SelfOk(r, u, docs'[u].friends[u])
  BY <1>3, <1>5, <1>10 DEF SelfOk, SelfWrite
<1>12. Selves'
  BY <1>1, <1>11, SelvesAtCommit
<1>13. QED
  BY <1>8, <1>9, <1>12

\* The second half, in the own document: both lists have it now.
LEMMA MineCommitBalance ==
    ASSUME BInv, IInv, causes = {}, causes' = {}, NEW u \in Uuid, Commit(u),
           NEW q \in Seq(Write), q = queue[u], NEW r \in Seq(Write), r = Tail(q),
           NEW v \in Uuid, v # u, NEW s \in Signs, Mine(q[1], u, v, s)
    PROVE  Balanced' /\ AtMostOnce' /\ Selves'
<1>0. /\ q # <<>> /\ q[1] \in Write /\ queue'[u] = r
      /\ \A x \in Uuid, w \in Uuid : docs[x].friends[w] \in Nat
  BY CommitEntries
<1>1. /\ q # <<>> /\ q[1] \in Write /\ queue'[u] = r
      /\ \A x \in Uuid, w \in Uuid : docs[x].friends[w] \in Nat
      /\ docs'[u].friends[v] = docs[u].friends[v] + s
      /\ \A x \in Uuid, w \in Uuid : x # u \/ w # v => docs'[x].friends[w] = docs[x].friends[w]
      /\ q[1].prev.friends = docs[u].friends
  BY <1>0, MineCommitted
<1>2. /\ WellPaired(q, u) /\ Balanced /\ AtMostOnce /\ QueuesPaired
      /\ SelfOk(q, u, docs[u].friends[u])
  BY DEF BInv, QueuesPaired, Selves
<1>3. \A x \in Uuid, t \in Signs : ~ Theirs(q[1], u, x, t)
  BY <1>1, MineDelta
<1>4. r # <<>> =>
          /\ \A w \in Uuid : w # u => Delta(r[1], u, w) = 0
          /\ \/ ~ SelfWrite(r[1], u)
             \/ \E t \in Signs : 2 \in DOMAIN r /\ Theirs(r[1], u, u, t) /\ Mine(r[2], u, u, t)
  BY <1>1, <1>2, <1>3, FreshBehindHead
<1>5. Delta(q[1], u, v) = s /\ \A w \in Uuid : w # v => Delta(q[1], u, w) = 0
  BY <1>1, MineDelta
<1>6. /\ Half(u, v) = s /\ Half(u, v)' = 0
      /\ \A x \in Uuid, w \in Uuid : x # w /\ (x # u \/ w # v) => Half(x, w)' = Half(x, w)
  <2>1. /\ \A w \in Uuid : Half(u, w) = Delta(q[1], u, w)
        /\ \A w \in Uuid : Half(u, w)' = IF r = <<>> THEN 0 ELSE Delta(r[1], u, w)
        /\ \A x \in Uuid, w \in Uuid : x # u => Half(x, w)' = Half(x, w)
    BY HalvesAtCommit
  <2>2. \A w \in Uuid : w # u => Half(u, w)' = 0
    BY <1>4, <2>1
  <2>3. \A w \in Uuid : w # v => Half(u, w) = 0
    BY <1>5, <2>1
  <2>4. Half(u, v) = s /\ Half(u, v)' = 0
    BY <1>5, <2>1, <2>2
  <2>5. ASSUME NEW x \in Uuid, NEW w \in Uuid, x # w, x # u \/ w # v
        PROVE  Half(x, w)' = Half(x, w)
    <3>1. CASE x # u
      BY <2>1, <3>1
    <3>2. CASE x = u
      <4>1. Half(u, w)' = Half(u, w)
        BY <2>2, <2>3, <2>5, <3>2
      <4>2. QED
        BY <3>2, <4>1
    <3>3. QED
      BY <3>1, <3>2
  <2>6. QED
    BY <2>4, <2>5
<1>7. /\ s \in Int /\ s \in {1, -1} /\ docs[u].friends[v] \in Nat /\ docs[v].friends[u] \in Nat
      /\ Half(v, u) \in {-1, 0, 1}
  BY <1>1, <1>2, HalfBounds DEF Signs
<1>8. Agreed(u, v)' = Agreed(u, v) + s /\ Agreed(v, u)' = Agreed(v, u) + s
  <2>1. /\ Agreed(u, v)' = (docs[u].friends[v] + s) - Half(v, u)
        /\ Agreed(u, v) = docs[u].friends[v] - Half(v, u)
    BY <1>1, <1>6 DEF Agreed
  <2>2. Agreed(v, u)' = docs[v].friends[u] - 0 /\ Agreed(v, u) = docs[v].friends[u] - s
    BY <1>1, <1>6 DEF Agreed
  <2>3. QED
    BY <1>7, <2>1, <2>2
<1>9. \A x \in Uuid, w \in Uuid :
          x # w /\ (x # u \/ w # v) /\ (x # v \/ w # u) => Agreed(x, w)' = Agreed(x, w)
  BY <1>1, <1>6 DEF Agreed
<1>10. Balanced'
  BY <1>2, <1>8, <1>9 DEF Balanced
<1>11. Agreed(u, v)' <= 1 \/ (Agreed(u, v)' = 2 /\ Half(v, u)' = -1)
  <2>1. Agreed(u, v) = docs[u].friends[v] - Half(v, u) /\ Half(v, u)' = Half(v, u)
    BY <1>6 DEF Agreed
  <2>2. CASE s = 1
    <3>1. docs[u].friends[v] = 0
      BY <1>1, <2>2 DEF Mine
    <3>2. QED
      BY <1>7, <1>8, <2>1, <2>2, <3>1
  <2>3. CASE s = -1
    <3>1. Agreed(u, v) <= 1 \/ Agreed(u, v) = 2
      BY <1>2 DEF AtMostOnce
    <3>2. QED
      BY <1>7, <1>8, <2>1, <2>3, <3>1
  <2>4. QED
    BY <1>7, <2>2, <2>3
<1>12. Agreed(v, u)' = Agreed(u, v)'
  BY <1>10 DEF Balanced
<1>13. AtMostOnce'
  <2>1. ASSUME NEW x \in Uuid, NEW w \in Uuid, x # w, x # u \/ w # v, x # v \/ w # u
        PROVE  Agreed(x, w)' <= 1 \/ (Agreed(x, w)' = 2 /\ (Half(x, w)' = -1 \/ Half(w, x)' = -1))
    BY <1>2, <1>6, <1>9, <2>1 DEF AtMostOnce
  <2>2. QED
    BY <1>11, <1>12, <2>1 DEF AtMostOnce
<1>14. docs[u].friends[u] <= 1 /\ docs'[u].friends[u] = docs[u].friends[u]
  BY <1>1, <1>2, <1>5 DEF SelfOk, SelfWrite
<1>15. SelfOk(r, u, docs'[u].friends[u])
  BY <1>4, <1>14 DEF SelfOk
<1>16. Selves'
  BY <1>1, <1>15, SelvesAtCommit
<1>17. QED
  BY <1>10, <1>13, <1>16

\* Who befriends oneself: the second half is about to overwrite the first.
LEMMA SelfCommitBalance ==
    ASSUME BInv, IInv, causes = {}, causes' = {}, NEW u \in Uuid, Commit(u),
           NEW q \in Seq(Write), q = queue[u], NEW r \in Seq(Write), r = Tail(q),
           NEW s \in Signs, Theirs(q[1], u, u, s), 2 \in DOMAIN q, Mine(q[2], u, u, s)
    PROVE  Balanced' /\ AtMostOnce' /\ Selves'
<1>1. /\ q # <<>> /\ q[1] \in Write /\ queue'[u] = r
      /\ \A x \in Uuid, w \in Uuid : docs[x].friends[w] \in Nat
      /\ (q[1].kind = "profile" /\ q[1].of = u => q[1].prev.friends = docs[u].friends)
  BY CommitEntries
<1>2. /\ docs'[u].friends[u] = docs[u].friends[u] + s
      /\ \A x \in Uuid, w \in Uuid : x # u \/ w # u => docs'[x].friends[w] = docs[x].friends[w]
  BY TheirsCommitted
<1>3. /\ Balanced /\ AtMostOnce
      /\ SelfOk(q, u, docs[u].friends[u])
  BY DEF BInv, Selves
<1>4. r # <<>> /\ r[1] = q[2] /\ r[1] \in Write
  <2>1. 2 - 1 = 1 /\ 2 # 1 /\ 1 \in DOMAIN r /\ q[2] = r[1]
    BY <1>1, TailIndices
  <2>2. r # <<>>
    BY <2>1, HasFirst
  <2>3. QED
    BY <2>1, <2>2, FirstWrite
<1>5. \A w \in Uuid : w # u => Delta(q[1], u, w) = 0
  BY <1>1, TheirsDelta
<1>6. Delta(r[1], u, u) = s /\ \A w \in Uuid : w # u => Delta(r[1], u, w) = 0
  BY <1>4, MineDelta
<1>7. \A v \in Uuid, w \in Uuid : v # w => Half(v, w)' = Half(v, w)
  <2>1. /\ \A w \in Uuid : Half(u, w) = Delta(q[1], u, w)
        /\ \A w \in Uuid : Half(u, w)' = IF r = <<>> THEN 0 ELSE Delta(r[1], u, w)
        /\ \A x \in Uuid, w \in Uuid : x # u => Half(x, w)' = Half(x, w)
    BY HalvesAtCommit
  <2>2. \A w \in Uuid : w # u => Half(u, w)' = 0 /\ Half(u, w) = 0
    BY <1>4, <1>5, <1>6, <2>1
  <2>3. QED
    BY <2>1, <2>2
<1>8. Balanced' /\ AtMostOnce'
  BY <1>2, <1>3, <1>7, BalanceStays
<1>9. r[1].prev.friends[u] # docs'[u].friends[u]
  <2>1. q[1].prev.friends[u] = docs[u].friends[u]
    BY <1>1 DEF Theirs
  <2>2. SelfWrite(q[1], u)
    <3>1. Delta(q[1], u, u) = s
      BY <1>1, KindsDiffer
    <3>2. QED
      BY <3>1 DEF SelfWrite, Signs
  <2>3. docs[u].friends[u] <= 1
    BY <1>1, <1>3, <2>1, <2>2 DEF SelfOk
  <2>4. /\ s = 1 => r[1].prev.friends[u] = 0
        /\ s = -1 => r[1].prev.friends[u] > 0
    BY <1>4 DEF Mine
  <2>5. docs[u].friends[u] \in Nat
    BY <1>1
  <2>6. CASE s = 1
    <3>1. docs'[u].friends[u] = docs[u].friends[u] + 1
      BY <1>2, <2>6
    <3>2. docs'[u].friends[u] > 0
      BY <2>5, <3>1
    <3>3. r[1].prev.friends[u] = 0
      BY <2>4, <2>6
    <3>4. QED
      BY <3>2, <3>3
  <2>7. CASE s = -1
    <3>1. docs'[u].friends[u] = docs[u].friends[u] + (-1)
      BY <1>2, <2>7
    <3>2. ~ (docs'[u].friends[u] > 0)
      BY <2>3, <2>5, <3>1
    <3>3. r[1].prev.friends[u] > 0
      BY <2>4, <2>7
    <3>4. QED
      BY <3>2, <3>3
  <2>8. QED
    BY <2>6, <2>7 DEF Signs
<1>10. SelfOk(r, u, docs'[u].friends[u])
  <2>1. SelfWrite(r[1], u)
    BY <1>6 DEF SelfWrite, Signs
  <2>2. QED
    BY <1>4, <1>9, <2>1 DEF SelfOk
<1>11. Selves'
  BY <1>1, <1>2, <1>10, SelvesAtCommit
<1>12. QED
  BY <1>8, <1>11

\* No commit upsets the balance.
LEMMA CommitBalance ==
    ASSUME BInv, IInv, causes = {}, causes' = {}, NEW u \in Uuid, Commit(u)
    PROVE  BInv'
<1>1. queue[u] \in Seq(Write)
  BY DEF IInv, TypeOK
<1>2. PICK q \in Seq(Write) : q = queue[u]
  BY <1>1
<1>3. /\ q # <<>> /\ q[1] \in Write
      /\ queue'[u] = Tail(q) /\ \A v \in Uuid : v # u => queue'[v] = queue[v]
      /\ (q[1].kind = "profile" /\ q[1].of = u => q[1].prev.friends = docs[u].friends)
  BY <1>2, CommitEntries
<1>4. PICK r \in Seq(Write) : r = Tail(q)
  BY <1>3, TailIndices
<1>5. /\ Synced /\ WellPaired(q, u) /\ SelfOk(q, u, docs[u].friends[u])
      /\ \A v \in Uuid : WellPaired(queue[v], v)
  BY <1>2 DEF BInv, QueuesPaired, Selves
<1>6. Synced'
  BY <1>5 DEF Synced, Commit, device
<1>7. QueuesPaired'
  <2>1. WellPaired(r, u)
    BY <1>3, <1>4, <1>5, PairedTail
  <2>2. QED
    BY <1>3, <1>4, <1>5, <2>1 DEF QueuesPaired
<1>8. Balanced' /\ AtMostOnce' /\ Selves'
  <2>1. CASE Plain(q[1], u)
    BY <1>2, <1>4, <2>1, PlainCommitBalance
  <2>2. CASE \E v \in Uuid, s \in Signs :
                 Theirs(q[1], u, v, s) /\ 2 \in DOMAIN q /\ Mine(q[2], u, v, s)
    <3>1. PICK v \in Uuid, s \in Signs :
                   Theirs(q[1], u, v, s) /\ 2 \in DOMAIN q /\ Mine(q[2], u, v, s)
      BY <2>2
    <3>2. CASE v = u
      BY <1>2, <1>4, <3>1, <3>2, SelfCommitBalance
    <3>3. CASE v # u
      BY <1>2, <1>4, <3>1, <3>3, TheirsCommitBalance
    <3>4. QED
      BY <3>2, <3>3
  <2>3. CASE \E v \in Uuid, s \in Signs : Mine(q[1], u, v, s)
    <3>1. PICK v \in Uuid, s \in Signs : Mine(q[1], u, v, s)
      BY <2>3
    <3>2. CASE v # u
      BY <1>2, <1>4, <3>1, <3>2, MineCommitBalance
    <3>3. CASE v = u
      <4>1. SelfWrite(q[1], u)
        <5>1. Delta(q[1], u, u) = s
          BY <1>3, <3>1, <3>3, MineDelta
        <5>2. QED
          BY <5>1 DEF SelfWrite, Signs
      <4>2. q[1].prev.friends = docs[u].friends
        BY <1>3, <3>1 DEF Mine
      <4>3. \E t \in Signs : 2 \in DOMAIN q /\ Theirs(q[1], u, u, t) /\ Mine(q[2], u, u, t)
        BY <1>3, <1>5, <4>1, <4>2 DEF SelfOk
      <4>4. PICK t \in Signs : 2 \in DOMAIN q /\ Theirs(q[1], u, u, t) /\ Mine(q[2], u, u, t)
        BY <4>3
      <4>5. QED
        BY <1>2, <1>4, <4>4, SelfCommitBalance
    <3>4. QED
      BY <3>2, <3>3
  <2>4. QED
    BY <1>3, <1>5, <2>1, <2>2, <2>3, FirstWrite
<1>9. QED
  BY <1>6, <1>7, <1>8 DEF BInv

-----------------------------------------------------------------------------
(* A relaunch, and the whole behaviour *)

\* A write that lost its call to a relaunch changes what it changed before.
LEMMA SlotIsIrrelevant ==
    ASSUME NEW d, NEW e, NEW f, e.kind = f.kind, e.of = f.of, e.val = f.val, e.prev = f.prev
    PROVE  /\ Plain(e, d) <=> Plain(f, d)
           /\ \A v, s : Theirs(e, d, v, s) <=> Theirs(f, d, v, s)
           /\ \A v, s : Mine(e, d, v, s) <=> Mine(f, d, v, s)
           /\ \A v : Delta(e, d, v) = Delta(f, d, v)
<1>1. Plain(e, d) <=> Plain(f, d)
  BY DEF Plain
<1>2. \A v, s : Changes(e, v, s) <=> Changes(f, v, s)
  BY DEF Changes
<1>3. \A v, s : Theirs(e, d, v, s) <=> Theirs(f, d, v, s)
  BY <1>2 DEF Theirs
<1>4. \A v, s : Mine(e, d, v, s) <=> Mine(f, d, v, s)
  BY <1>2 DEF Mine
<1>5. \A v : Delta(e, d, v) = Delta(f, d, v)
  BY DEF Delta
<1>6. QED
  BY <1>1, <1>3, <1>4, <1>5

\* Pending writes survive the process; currentUser is nil until the next login.
LEMMA RelaunchBalance ==
    ASSUME BInv, IInv, causes = {}, NEW u \in Uuid, Relaunch(u)
    PROVE  BInv'
<1>1. queue[u] \in Seq(Write)
  BY DEF IInv, TypeOK
<1>2. PICK q \in Seq(Write) : q = queue[u]
  BY <1>1
<1>3. PICK r : r = [i \in DOMAIN q |-> [q[i] EXCEPT !.slot = 0]]
  OBVIOUS
<1>4. /\ docs' = docs
      /\ queue'[u] = r /\ \A v \in Uuid : v # u => queue'[v] = queue[v]
      /\ me' = [me EXCEPT ![u] = Blank] /\ base' = [base EXCEPT ![u] = Blank]
  BY <1>2, <1>3 DEF Relaunch, server, IInv, TypeOK
<1>5. /\ DOMAIN r = DOMAIN q
      /\ \A i \in DOMAIN q : /\ r[i].kind = q[i].kind /\ r[i].of = q[i].of
                             /\ r[i].val = q[i].val /\ r[i].prev = q[i].prev
  <2>1. \A i \in DOMAIN q : q[i] \in Write
    BY LenProperties
  <2>2. QED
    BY <1>3, <2>1 DEF Write
<1>6. /\ \A i \in DOMAIN q : Plain(r[i], u) <=> Plain(q[i], u)
      /\ \A i \in DOMAIN q, v \in Uuid, s \in Signs : Theirs(r[i], u, v, s) <=> Theirs(q[i], u, v, s)
      /\ \A i \in DOMAIN q, v \in Uuid, s \in Signs : Mine(r[i], u, v, s) <=> Mine(q[i], u, v, s)
      /\ \A i \in DOMAIN q, v \in Uuid : Delta(r[i], u, v) = Delta(q[i], u, v)
  <2> SUFFICES ASSUME NEW i \in DOMAIN q
               PROVE  /\ Plain(r[i], u) <=> Plain(q[i], u)
                      /\ \A v, s : Theirs(r[i], u, v, s) <=> Theirs(q[i], u, v, s)
                      /\ \A v, s : Mine(r[i], u, v, s) <=> Mine(q[i], u, v, s)
                      /\ \A v : Delta(r[i], u, v) = Delta(q[i], u, v)
    OBVIOUS
  <2>1. PICK e : e = r[i]
    OBVIOUS
  <2>2. PICK f : f = q[i]
    OBVIOUS
  <2>3. e.kind = f.kind /\ e.of = f.of /\ e.val = f.val /\ e.prev = f.prev
    BY <1>5, <2>1, <2>2
  <2>4. /\ Plain(e, u) <=> Plain(f, u)
        /\ \A v, s : Theirs(e, u, v, s) <=> Theirs(f, u, v, s)
        /\ \A v, s : Mine(e, u, v, s) <=> Mine(f, u, v, s)
        /\ \A v : Delta(e, u, v) = Delta(f, u, v)
    BY <2>3, SlotIsIrrelevant
  <2>5. QED
    BY <2>1, <2>2, <2>4
<1>7. /\ Synced /\ Balanced /\ AtMostOnce /\ WellPaired(q, u)
      /\ SelfOk(q, u, docs[u].friends[u])
      /\ \A v \in Uuid : WellPaired(queue[v], v) /\ SelfOk(queue[v], v, docs[v].friends[v])
  BY <1>2 DEF BInv, QueuesPaired, Selves
<1>8. Synced'
  BY <1>4, <1>7 DEF Synced, IInv, TypeOK
<1>9. WellPaired(r, u)
  <2>1. ASSUME NEW i \in DOMAIN q, PairedAt(q, u, i)
        PROVE  PairedAt(r, u, i)
    BY <1>5, <1>6, <2>1 DEF PairedAt
  <2>2. QED
    BY <1>5, <1>6, <1>7, <2>1 DEF WellPaired
<1>10. QueuesPaired'
  BY <1>4, <1>7, <1>9 DEF QueuesPaired
<1>11. (q = <<>> <=> r = <<>>) /\ (q # <<>> => 1 \in DOMAIN q)
  <2>1. q # <<>> => 1 \in DOMAIN q
    BY FirstWrite
  <2>2. q # <<>> => r # <<>>
    BY <1>5, <2>1, HasFirst
  <2>3. q = <<>> => r = <<>>
    BY <1>3
  <2>4. QED
    BY <2>1, <2>2, <2>3
<1>12. \A v \in Uuid, w \in Uuid : Half(v, w)' = Half(v, w)
  <2>1. ASSUME NEW w \in Uuid
        PROVE  Half(u, w)' = Half(u, w)
    BY <1>2, <1>4, <1>6, <1>11, HalfNext DEF Half
  <2>2. ASSUME NEW v \in Uuid, v # u, NEW w \in Uuid
        PROVE  Half(v, w)' = Half(v, w)
    BY <1>4, <2>2, HalfNext DEF Half
  <2>3. QED
    BY <2>1, <2>2
<1>13. Balanced' /\ AtMostOnce'
  BY <1>4, <1>7, <1>12, BalanceStays
<1>14. SelfOk(r, u, docs[u].friends[u])
  <2>1. q # <<>> => (SelfWrite(r[1], u) <=> SelfWrite(q[1], u)) /\ r[1].prev = q[1].prev
    BY <1>5, <1>6, <1>11 DEF SelfWrite
  <2>2. CASE q = <<>>
    BY <1>7, <1>11, <2>2 DEF SelfOk
  <2>3. CASE q # <<>>
    BY <1>5, <1>6, <1>7, <1>11, <2>1, <2>3 DEF SelfOk
  <2>4. QED
    BY <2>2, <2>3
<1>15. Selves'
  BY <1>4, <1>7, <1>14 DEF Selves
<1>16. QED
  BY <1>8, <1>10, <1>13, <1>15 DEF BInv

\* Friends at the start are friends of each other.
LEMMA InitIsBalanced == Init => BInv
<1> SUFFICES ASSUME Init
             PROVE  Synced /\ QueuesPaired /\ Balanced /\ AtMostOnce /\ Selves
  BY DEF BInv
<1>1. /\ \A u \in Uuid, v \in Uuid : docs[u].friends[v] \in {0, 1}
      /\ \A u \in Uuid, v \in Uuid : docs[u].friends[v] = docs[v].friends[u]
  <2>1. \A u \in Uuid, v \in Uuid :
            docs[u].friends[v] = IF <<u, v>> \in InitialFriends THEN 1 ELSE 0
    BY DEF Init, FriendsAtStart
  <2>2. \A u \in Uuid, v \in Uuid : <<u, v>> \in InitialFriends <=> <<v, u>> \in InitialFriends
    BY ConstantsAssumption DEF ConstantsAssumption
  <2>3. \A u \in Uuid, v \in Uuid : docs[u].friends[v] \in {0, 1}
    BY <2>1
  <2>4. QED
    BY <2>1, <2>2, <2>3
<1>2. \A u \in Uuid : queue[u] = <<>> /\ me[u] = Blank /\ base[u] = Blank
  BY DEF Init
<1>3. \A u \in Uuid, v \in Uuid : Half(u, v) = 0
  BY <1>2 DEF Half
<1>4. ASSUME NEW u \in Uuid, NEW v \in Uuid
      PROVE  Agreed(u, v) = docs[u].friends[v] /\ Agreed(u, v) <= 1 /\ docs[u].friends[v] <= 1
  <2>1. docs[u].friends[v] \in {0, 1}
    BY <1>1
  <2>2. Agreed(u, v) = docs[u].friends[v] - 0
    BY <1>3 DEF Agreed
  <2>3. PICK n : n = docs[u].friends[v]
    OBVIOUS
  <2>4. n \in {0, 1} => n - 0 = n /\ n <= 1
    OBVIOUS
  <2>5. QED
    BY <2>1, <2>2, <2>3, <2>4
<1>5. Synced
  BY <1>2 DEF Synced
<1>6. QueuesPaired
  BY <1>2 DEF QueuesPaired, WellPaired
<1>7. Balanced
  BY <1>1, <1>4 DEF Balanced
<1>8. AtMostOnce
  BY <1>4 DEF AtMostOnce
<1>9. Selves
  BY <1>2, <1>4 DEF Selves, SelfOk
<1>10. QED
  BY <1>5, <1>6, <1>7, <1>8, <1>9

\* Every step that records no cause keeps the balance.
LEMMA NextBalance ==
    ASSUME BInv, IInv, Next
    PROVE  BInv'
<1> SUFFICES ASSUME causes' = {}
             PROVE  BInv'
  BY DEF BInv
<1>1. causes = {}
  BY CausesStay
<1>2. CASE \E u \in Uuid : LogInButtonTapped(u) \/ Taps(u) \/ ListenerFires(u)
  BY <1>1, <1>2, LookupsBalance
<1>3. ASSUME NEW u \in Uuid, Refuse(u)
      PROVE  FALSE
  BY <1>3 DEF Refuse
<1>4. CASE \E u \in Uuid : Commit(u) \/ Relaunch(u)
  BY <1>1, <1>4, CommitBalance, RelaunchBalance
<1>5. CASE \E c \in calls : Answer(c) \/ LookupFails(c) \/ RequestsLoaded(c) \/ LoggedIn(c)
  BY <1>1, <1>5, LookupsBalance
<1>6. CASE \E c \in calls : SendFriendRequest(c) \/ IgnoreFriendRequest(c) \/ AcceptFriendRequest(c)
  BY <1>1, <1>6, RequestsBalance
<1>7. CASE \E c \in calls : Unfriended(c) \/ BlockUser(c) \/ RequestDeleted(c)
  BY <1>1, <1>7, UnfriendedBalance, BlockUserBalance, RequestDeletedBalance
<1>8. QED
  BY <1>2, <1>3, <1>4, <1>5, <1>6, <1>7 DEF Next, Completion

\* So does no step at all.
LEMMA StutterBalance ==
    ASSUME BInv, UNCHANGED vars
    PROVE  BInv'
<1>1. CASE causes = {}
  <2>1. UNCHANGED <<docs, queue, me, base>>
    BY DEF vars
  <2>2. Synced'
    BY <1>1, <2>1 DEF BInv, Synced
  <2>3. QED
    BY <1>1, <2>1, <2>2, SilentBalance
<1>2. CASE causes # {}
  BY <1>2 DEF BInv, vars
<1>3. QED
  BY <1>1, <1>2

\* In every reachable state in which nothing has gone wrong, the documents and
\* what is on its way to them balance.
THEOREM BalanceInvariance == Spec => []BInv
<1>1. Init => BInv
  BY InitIsBalanced
<1>2. BInv /\ IInv /\ [Next]_vars => BInv'
  BY NextBalance, StutterBalance
<1>3. QED
  BY <1>1, <1>2, Invariance, PTL DEF Spec

\* In a quiet state nothing is left to change, so the documents themselves agree.
LEMMA QuietBalance ==
    ASSUME Quiet, BInv, IInv, causes = {}, NEW u \in Uuid, NEW v \in Uuid
    PROVE  /\ docs[u].friends[v] \in Nat /\ docs[u].friends[v] <= 1
           /\ docs[u].friends[v] = docs[v].friends[u]
<1>1. \A x \in Uuid, w \in Uuid : docs[x].friends[w] \in Nat
  BY DEF IInv, TypeOK, Profile
<1>2. \A x \in Uuid, w \in Uuid : Half(x, w) = 0
  BY DEF Quiet, Half
<1>3. \A x \in Uuid, w \in Uuid : Agreed(x, w) = docs[x].friends[w]
  BY <1>1, <1>2 DEF Agreed
<1>4. Balanced /\ AtMostOnce /\ Selves
  BY DEF BInv
<1>5. CASE u # v
  <2>1. Agreed(u, v) = Agreed(v, u)
    BY <1>4, <1>5 DEF Balanced
  <2>2. Agreed(u, v) <= 1
    BY <1>2, <1>4, <1>5 DEF AtMostOnce
  <2>3. QED
    BY <1>1, <1>3, <2>1, <2>2
<1>6. CASE u = v
  <2>1. queue[u] = <<>>
    BY DEF Quiet
  <2>2. docs[u].friends[u] <= 1
    BY <1>4, <2>1 DEF Selves, SelfOk
  <2>3. QED
    BY <1>1, <1>6, <2>2
<1>7. QED
  BY <1>5, <1>6

\* When everything has settled, two users list each other or neither does, unless
\* a save overwrote what it had not read, a guard of accept or unfriend returned
\* half-way, or the server refused a write.
THEOREM AsymmetriesHaveCause == Spec => []AsymmetryHasCause
<1>1. IInv /\ BInv => AsymmetryHasCause
  BY QuietBalance DEF AsymmetryHasCause
<1>2. QED
  BY <1>1, Invariance, BalanceInvariance, PTL

\* And nobody is listed twice, with the same exceptions, although accept appends
\* to the originator's snapshot without looking.
THEOREM DuplicatesHaveCause == Spec => []DuplicateHasCause
<1>1. IInv /\ BInv => DuplicateHasCause
  BY QuietBalance DEF DuplicateHasCause
<1>2. QED
  BY <1>1, Invariance, BalanceInvariance, PTL
=============================================================================
