----------------------- MODULE FriendGraphLosses_proofs -----------------------
(***************************************************************************)
(* What can be lost in FriendGraph, for every set of users and every bound:  *)
(* a block only by an overwrite or a refused write, a request only by being  *)
(* ignored, by a death inside acceptFriendRequest or by a refused write.     *)
(*                                                                         *)
(* The properties speak of quiet states.  The invariant follows what is not  *)
(* lost through the others: a block is in the document or in a pending save,  *)
(* and no save writes less than it has read; a request is in the inbox, on    *)
(* its way there, or taken out by an accept that is still going on.          *)
(***************************************************************************)
EXTENDS FriendGraph_proofs, QueueLemmas

\* The pending writes of a device.
Writes(u) == Elements(queue[u])

-----------------------------------------------------------------------------
(* The inductive invariant *)

\* No profile has fewer blocks than the one it was made of.
BlocksKept ==
    \A u \in Uuid :
        /\ base[u].blocked \subseteq me[u].blocked
        /\ \A e \in Writes(u) : e.kind = "profile" => e.prev.blocked \subseteq e.val.blocked

\* A block is in its owner's document, or on the way there, or it has a cause.
BlocksTraced ==
    \A p \in blockedBy :
        \/ p[2] \in docs[p[1]].blocked
        \/ \E e \in Writes(p[1]) : e.kind = "profile" /\ e.of = p[1] /\ p[2] \in e.val.blocked
        \/ <<"overwrite", p[1]>> \in causes
        \/ <<"refused", p[1]>> \in causes

\* The request of w to u need not be there any more.
Settled(w, u) == Met(w, u) \/ <<w, u>> \in dropped \/ <<"refused", u>> \in causes

\* The device of u is in acceptFriendRequest, past the deletion.
Accepting(w, u) == \E c \in calls : c.dev = u /\ c.peer = w /\ c.phase \in {"deleting", "deleted"}

\* A device deletes its own requests only, and for a reason; only an accept
\* waits for the answer.
DeletionOk(e, u) ==
    IF e.kind = "deleteRequest"
    THEN e.of = u /\ \A w \in e.who : Settled(w, u) \/ Accepting(w, u)
    ELSE e.slot = 0

DeletionsTraced == \A u \in Uuid : \A e \in Writes(u) : DeletionOk(e, u)

\* A request is in the inbox or on the way there, or being accepted, or settled.
RequestsTraced ==
    \A p \in sent :
        \/ Settled(p[1], p[2])
        \/ Accepting(p[1], p[2])
        \/ p[1] \in inbox[p[2]]
        \/ \E e \in Writes(p[1]) : e.kind = "setRequests" /\ e.of = p[2] /\ p[1] \in e.who

LInv ==
    /\ BlocksKept
    /\ BlocksTraced
    /\ DeletionsTraced
    /\ RequestsTraced

-----------------------------------------------------------------------------
(* What steps have in common *)

\* The history and what has gone wrong only grow.
RecordGrows == HistoryGrows /\ dropped \subseteq dropped' /\ causes \subseteq causes'

\* A settled request stays settled.
LEMMA SettledStays ==
    ASSUME RecordGrows
    PROVE  \A w, u : Settled(w, u) => Settled(w, u)'
BY DEF RecordGrows, HistoryGrows, Settled, Met

\* A step under which every accept goes on or settles its request.
AcceptsGoOn == \A w \in Uuid, u \in Uuid : Accepting(w, u) => Accepting(w, u)' \/ Settled(w, u)'

\* Calls that are not in the middle of an accept may end or change.
LEMMA OthersMayEnd ==
    ASSUME \A c \in calls : c \in calls' \/ c.phase \notin {"deleting", "deleted"}
    PROVE  AcceptsGoOn
BY DEF AcceptsGoOn, Accepting

\* A pending write is a write.
LEMMA WritesTyped ==
    ASSUME IInv, NEW v \in Uuid, NEW e \in Writes(v)
    PROVE  /\ e \in Write /\ e.of \in Uuid /\ e.who \in SUBSET Uuid
           /\ e.kind \in {"profile", "setRequests", "deleteRequest"}
<1>1. queue[v] \in Seq(Write)
  BY DEF IInv, TypeOK
<1>2. e \in Write
  BY <1>1, LenProperties DEF Writes, Elements
<1>3. QED
  BY <1>2 DEF Write

\* A pending deletion keeps its reason.
LEMMA DeletionsStay ==
    ASSUME LInv, IInv, RecordGrows, AcceptsGoOn
    PROVE  \A v \in Uuid : \A e \in Writes(v) : DeletionOk(e, v)'
<1> SUFFICES ASSUME NEW v \in Uuid, NEW e \in Writes(v)
             PROVE  DeletionOk(e, v)'
  OBVIOUS
<1>1. DeletionOk(e, v)
  BY DEF LInv, DeletionsTraced
<1>2. \A w \in e.who : Settled(w, v) => Settled(w, v)'
  BY SettledStays
<1>3. e.who \in SUBSET Uuid
  BY WritesTyped
<1>4. \A w \in e.who : Accepting(w, v) => Accepting(w, v)' \/ Settled(w, v)'
  BY <1>3 DEF AcceptsGoOn
<1>5. QED
  BY <1>1, <1>2, <1>4 DEF DeletionOk

\* Device u adds writes, each of which may be there.
Extends(u, ws) ==
    /\ \A v \in Uuid : Writes(v)' = IF v = u THEN Writes(v) \cup ws ELSE Writes(v)
    /\ \A e \in ws : /\ e.kind = "profile" => e.prev.blocked \subseteq e.val.blocked
                     /\ DeletionOk(e, u)'

\* A step that adds writes keeps everything traced.
LEMMA ExtensionKeeps ==
    ASSUME LInv, IInv, UNCHANGED server, RecordGrows, AcceptsGoOn,
           NEW u \in Uuid, NEW ws, Extends(u, ws),
           \A v \in Uuid : base'[v].blocked \subseteq me'[v].blocked,
           \A p \in blockedBy' \ blockedBy :
               p[1] = u /\ \E e \in ws : e.kind = "profile" /\ e.of = u /\ p[2] \in e.val.blocked,
           \A p \in sent' \ sent :
               p[1] = u /\ \E e \in ws : e.kind = "setRequests" /\ e.of = p[2] /\ u \in e.who
    PROVE  LInv'
<1>1. \A v \in Uuid : Writes(v) \subseteq Writes(v)'
  BY DEF Extends
<1>2. ws \subseteq Writes(u)'
  BY DEF Extends
<1>3. \A v \in Uuid : \A e \in Writes(v)' : e \in Writes(v) \/ (v = u /\ e \in ws)
  BY DEF Extends
<1>4. /\ \A p \in blockedBy : p[1] \in Uuid
      /\ \A p \in sent : p[1] \in Uuid /\ p[2] \in Uuid
  BY DEF IInv, TypeOK
<1>5. BlocksKept'
  <2>1. \A v \in Uuid : \A e \in Writes(v)' :
            e.kind = "profile" => e.prev.blocked \subseteq e.val.blocked
    BY <1>3 DEF LInv, BlocksKept, Extends
  <2>2. QED
    BY <2>1 DEF BlocksKept
<1>6. BlocksTraced'
  <2>1. causes \subseteq causes' /\ docs' = docs
    BY DEF RecordGrows, server
  <2>2. ASSUME NEW p \in blockedBy
        PROVE  \/ p[2] \in docs'[p[1]].blocked
               \/ \E e \in Writes(p[1])' : e.kind = "profile" /\ e.of = p[1] /\ p[2] \in e.val.blocked
               \/ <<"overwrite", p[1]>> \in causes'
               \/ <<"refused", p[1]>> \in causes'
    BY <1>1, <1>4, <2>1 DEF LInv, BlocksTraced
  <2>3. ASSUME NEW p \in blockedBy' \ blockedBy
        PROVE  \E e \in Writes(p[1])' : e.kind = "profile" /\ e.of = p[1] /\ p[2] \in e.val.blocked
    BY <1>2
  <2>4. QED
    BY <2>2, <2>3 DEF BlocksTraced
<1>7. DeletionsTraced'
  <2>1. \A v \in Uuid : \A e \in Writes(v) : DeletionOk(e, v)'
    BY DeletionsStay
  <2>2. \A e \in ws : DeletionOk(e, u)'
    BY DEF Extends
  <2>3. QED
    BY <1>3, <2>1, <2>2 DEF DeletionsTraced
<1>8. RequestsTraced'
  <2>1. inbox' = inbox
    BY DEF server
  <2>2. ASSUME NEW p \in sent
        PROVE  \/ Settled(p[1], p[2])'
               \/ Accepting(p[1], p[2])'
               \/ p[1] \in inbox'[p[2]]
               \/ \E e \in Writes(p[1])' : e.kind = "setRequests" /\ e.of = p[2] /\ p[1] \in e.who
    <3>1. \/ Settled(p[1], p[2])
          \/ Accepting(p[1], p[2])
          \/ p[1] \in inbox[p[2]]
          \/ \E e \in Writes(p[1]) : e.kind = "setRequests" /\ e.of = p[2] /\ p[1] \in e.who
      BY DEF LInv, RequestsTraced
    <3>2. Settled(p[1], p[2]) => Settled(p[1], p[2])'
      BY SettledStays
    <3>3. Accepting(p[1], p[2]) => Accepting(p[1], p[2])' \/ Settled(p[1], p[2])'
      BY <1>4 DEF AcceptsGoOn
    <3>4. QED
      BY <1>1, <1>4, <2>1, <3>1, <3>2, <3>3
  <2>3. ASSUME NEW p \in sent' \ sent
        PROVE  \E e \in Writes(p[1])' : e.kind = "setRequests" /\ e.of = p[2] /\ p[1] \in e.who
    BY <1>2
  <2>4. QED
    BY <2>2, <2>3 DEF RequestsTraced
<1>9. QED
  BY <1>5, <1>6, <1>7, <1>8 DEF LInv

-----------------------------------------------------------------------------
(* The writes that are added *)

\* What is put behind a queue is pending.
LEMMA QueueExtended ==
    ASSUME IInv, NEW u \in Uuid, NEW ws \in Seq(Write), queue' = [queue EXCEPT ![u] = @ \o ws]
    PROVE  \A v \in Uuid : Writes(v)' = IF v = u THEN Writes(v) \cup Elements(ws) ELSE Writes(v)
<1>1. queue[u] \in Seq(Write)
  BY DEF IInv, TypeOK
<1>2. Elements(queue[u] \o ws) = Elements(queue[u]) \cup Elements(ws)
  BY <1>1, ConcatElements
<1>3. \A v \in Uuid : queue'[v] = IF v = u THEN queue[u] \o ws ELSE queue[v]
  BY DEF IInv, TypeOK
<1>4. \A v \in Uuid : Writes(v)' = Elements(queue'[v]) /\ Writes(v) = Elements(queue[v])
  BY DEF Writes, Elements
<1>5. QED
  BY <1>2, <1>3, <1>4

\* The same for two lots of writes.
LEMMA QueueExtendedTwice ==
    ASSUME IInv, NEW u \in Uuid, NEW ws \in Seq(Write), NEW xs \in Seq(Write),
           queue' = [queue EXCEPT ![u] = @ \o ws \o xs]
    PROVE  \A v \in Uuid :
               Writes(v)' = IF v = u THEN Writes(v) \cup (Elements(ws) \cup Elements(xs)) ELSE Writes(v)
<1>1. queue[u] \in Seq(Write)
  BY DEF IInv, TypeOK
<1>2. queue[u] \o ws \in Seq(Write) /\ Elements(queue[u] \o ws) = Elements(queue[u]) \cup Elements(ws)
  BY <1>1, ConcatElements
<1> DEFINE qs == queue[u] \o ws
<1> HIDE DEF qs
<1>3. Elements(qs \o xs) = Elements(qs) \cup Elements(xs)
  <2>1. qs \in Seq(Write)
    BY <1>2 DEF qs
  <2>2. QED
    BY <2>1, ConcatElements
<1>4. \A v \in Uuid : queue'[v] = IF v = u THEN qs \o xs ELSE queue[v]
  BY DEF IInv, TypeOK, qs
<1>5. \A v \in Uuid : Writes(v)' = Elements(queue'[v]) /\ Writes(v) = Elements(queue[v])
  BY DEF Writes, Elements
<1>6. Elements(qs) = Elements(queue[u]) \cup Elements(ws)
  BY <1>2 DEF qs
<1>7. QED
  BY <1>3, <1>4, <1>5, <1>6

\* A queue that no one touches.
LEMMA QueueKept ==
    ASSUME queue' = queue
    PROVE  \A v \in Uuid : Writes(v)' = Writes(v)
BY DEF Writes, Elements

\* What an appended write adds.
LEMMA QueueAppended ==
    ASSUME IInv, NEW u \in Uuid, NEW e \in Write, queue' = [queue EXCEPT ![u] = Append(@, e)]
    PROVE  \A v \in Uuid : Writes(v)' = IF v = u THEN Writes(v) \cup {e} ELSE Writes(v)
<1>1. queue[u] \in Seq(Write)
  BY DEF IInv, TypeOK
<1>2. Elements(Append(queue[u], e)) = Elements(queue[u]) \cup {e}
  BY <1>1, AppendElements
<1>3. \A v \in Uuid : queue'[v] = IF v = u THEN Append(queue[u], e) ELSE queue[v]
  BY DEF IInv, TypeOK
<1>4. \A v \in Uuid : Writes(v)' = Elements(queue'[v]) /\ Writes(v) = Elements(queue[v])
  BY DEF Writes, Elements
<1>5. QED
  BY <1>2, <1>3, <1>4

\* A write that deletes nothing and loses no block.
Harmless(e) ==
    /\ e.kind # "deleteRequest" /\ e.slot = 0
    /\ e.kind = "profile" => e.prev.blocked \subseteq e.val.blocked

\* saveUser and saveData add only such writes, if what they write has the blocks
\* of what they were given.
LEMMA SavesAreHarmless ==
    ASSUME NEW u \in Uuid, NEW v \in Uuid, NEW p \in Profile, NEW q \in Profile, NEW rs,
           q.blocked \subseteq p.blocked
    PROVE  /\ SaveUser(u, v, p, q) \in Seq(Write)
           /\ \A e \in Elements(SaveUser(u, v, p, q)) : Harmless(e)
           /\ SaveData(u, p, q, rs) \in Seq(Write)
           /\ \A e \in Elements(SaveData(u, p, q, rs)) : Harmless(e)
           /\ ProfileWrite(u, p, q) \in Elements(SaveData(u, p, q, rs))
<1>1. 0 \in 0..MaxCalls /\ Blank \in Profile /\ Listed(rs) \in SUBSET Uuid
  BY BlankIsGood, ConstantsAssumption DEF ConstantsAssumption, Listed
<1>2. ASSUME NEW w \in Uuid
      PROVE  ProfileWrite(w, p, q) \in Write /\ Harmless(ProfileWrite(w, p, q))
  BY <1>1 DEF ProfileWrite, Write, Harmless
<1> DEFINE e1 == ProfileWrite(u, p, q)
           e2 == RequestWrite("setRequests", u, Listed(rs), 0)
           ws == IF Listed(rs) = {} THEN <<>> ELSE <<e2>>
<1>3. e2 \in Write /\ Harmless(e2)
  BY <1>1 DEF RequestWrite, Write, Harmless
<1>4. e1 \in Write /\ Harmless(e1)
  BY <1>2
<1>5. SaveUser(u, v, p, q) = <<ProfileWrite(v, p, q)>> /\ SaveData(u, p, q, rs) = <<e1>> \o ws
  BY DEF SaveUser, SaveData
<1>6. /\ <<ProfileWrite(v, p, q)>> \in Seq(Write)
      /\ \A e \in Elements(<<ProfileWrite(v, p, q)>>) : Harmless(e)
  BY <1>2 DEF Elements
<1> HIDE DEF e1, e2
<1>7. /\ <<e1>> \in Seq(Write) /\ Elements(<<e1>>) = {e1}
      /\ ws \in Seq(Write) /\ Elements(ws) \subseteq {e2}
  BY <1>3, <1>4 DEF Elements
<1> DEFINE s1 == <<e1>>
<1> HIDE DEF ws, s1
<1>8. s1 \o ws \in Seq(Write) /\ Elements(s1 \o ws) = Elements(s1) \cup Elements(ws)
  <2>1. s1 \in Seq(Write) /\ ws \in Seq(Write)
    BY <1>7 DEF s1
  <2>2. QED
    BY <2>1, ConcatElements
<1>9. e1 \in Elements(s1 \o ws) /\ \A e \in Elements(s1 \o ws) : Harmless(e)
  <2>1. Elements(s1) = {e1} /\ Elements(ws) \subseteq {e2}
    BY <1>7 DEF s1
  <2>2. QED
    BY <1>3, <1>4, <1>8, <2>1
<1>10. SaveData(u, p, q, rs) = s1 \o ws
  BY <1>5 DEF s1, ws
<1>11. QED
  BY <1>5, <1>6, <1>8, <1>9, <1>10 DEF e1

-----------------------------------------------------------------------------
(* Steps without a write *)

\* A step that starts no write and records nothing keeps everything traced, if
\* it interrupts no accept.
LEMMA SilentStepTraced ==
    ASSUME LInv, IInv, NEW u \in Uuid, UNCHANGED <<server, queue, history, causes>>,
           \A c \in calls : c \in calls' \/ c.phase \notin {"deleting", "deleted"},
           \A v \in Uuid : base'[v].blocked \subseteq me'[v].blocked
    PROVE  LInv'
<1>1. RecordGrows /\ UNCHANGED server /\ sent' = sent /\ blockedBy' = blockedBy /\ queue' = queue
  BY DEF RecordGrows, HistoryGrows, history
<1>2. AcceptsGoOn
  BY OthersMayEnd
<1>3. Extends(u, {})
  BY <1>1, QueueKept DEF Extends
<1>4. QED
  BY <1>1, <1>2, <1>3, ExtensionKeeps

\* So do the taps, the login button, the listener, the answers and the failures
\* of the server and the arrival of requests: none is in the middle of an accept.
LEMMA LookupsTraced ==
    ASSUME LInv, IInv,
           \/ \E u \in Uuid : LogInButtonTapped(u) \/ Taps(u) \/ ListenerFires(u)
           \/ \E c \in calls : Answer(c) \/ LookupFails(c) \/ RequestsLoaded(c)
    PROVE  LInv'
<1>1. /\ UNCHANGED <<server, queue, history, causes, me, base>>
      /\ \A c \in calls : c \in calls' \/ c.phase \notin {"deleting", "deleted"}
  <2>1. CASE \E u \in Uuid : LogInButtonTapped(u) \/ Taps(u) \/ ListenerFires(u)
    BY <2>1 DEF LogInButtonTapped, Taps, AddUserButtonPressed, UnfriendSwiped, BlockSwiped,
          IgnoreSwiped, RequestBlockSwiped, AddFwen, Tap, ListenerFires, Begin, device
  <2>2. CASE \E c \in calls : Answer(c) \/ LookupFails(c) \/ RequestsLoaded(c)
    BY <2>2 DEF Answer, LookupFails, RequestsLoaded, Answered, Becomes, Ends, device
  <2>3. QED
    BY <2>1, <2>2
<1>2. \E u \in Uuid : TRUE
  BY CallInCalls
<1>3. \A v \in Uuid : base'[v].blocked \subseteq me'[v].blocked
  BY <1>1 DEF LInv, BlocksKept
<1>4. QED
  BY <1>1, <1>2, <1>3, SilentStepTraced

\* The assignment of currentUser: what is read is what will be compared with.
LEMMA LoggedInTraced ==
    ASSUME LInv, IInv, NEW c \in calls, LoggedIn(c)
    PROVE  LInv'
<1>1. /\ UNCHANGED <<server, queue, history, causes>>
      /\ \A d \in calls : d \in calls' \/ d.phase \notin {"deleting", "deleted"}
  BY DEF LoggedIn, Answered, Ends
<1>2. c.dev \in Uuid
  BY CallInCalls
<1>3. \A v \in Uuid : base'[v].blocked \subseteq me'[v].blocked
  BY DEF LoggedIn, LInv, BlocksKept, IInv, TypeOK
<1>4. QED
  BY <1>1, <1>2, <1>3, SilentStepTraced

-----------------------------------------------------------------------------
(* Completions that write *)

\* sendFriendRequest: the request is on its way.
LEMMA SendFriendRequestTraced ==
    ASSUME LInv, IInv, NEW c \in calls, SendFriendRequest(c)
    PROVE  LInv'
<1> DEFINE u == c.dev
           e == RequestDoc(u, c.peer)
<1>1. u \in Uuid /\ c.peer \in Uuid
  BY CallInCalls
<1>2. /\ UNCHANGED server /\ me' = me /\ base' = base
      /\ blockedBy' = blockedBy
  BY DEF SendFriendRequest, device
<1>3. \A d \in calls : d \in calls' \/ d.phase \notin {"deleting", "deleted"}
  BY DEF SendFriendRequest, Answered, Ends
<1>4. AcceptsGoOn
  BY <1>3, OthersMayEnd
<1>5. \A v \in Uuid : base'[v].blocked \subseteq me'[v].blocked
  BY <1>2 DEF LInv, BlocksKept
<1>6. CASE me[u].friends[c.peer] > 0
  <2>1. UNCHANGED <<queue, history, causes>>
    BY <1>6 DEF SendFriendRequest, history
  <2>2. QED
    BY <1>1, <1>2, <1>3, <1>5, <2>1, SilentStepTraced
<1>7. CASE ~ (me[u].friends[c.peer] > 0)
  <2>1. queue' = [queue EXCEPT ![u] = Append(@, e)] /\ sent' = sent \cup {<<u, c.peer>>}
    BY <1>7 DEF SendFriendRequest
  <2>2. RecordGrows
    BY <2>1 DEF SendFriendRequest, RecordGrows, HistoryGrows
  <2>3. e \in Write /\ e.kind = "setRequests" /\ e.of = c.peer /\ u \in e.who /\ e.slot = 0
    BY <1>1, BlankIsGood, ConstantsAssumption
       DEF RequestDoc, RequestWrite, Write, ConstantsAssumption
  <2>4. \A p \in sent' \ sent : p[1] = u /\ p[2] = c.peer
    BY <2>1
  <2> HIDE DEF e, u
  <2>5. Extends(u, {e})
    BY <1>1, <2>1, <2>3, QueueAppended DEF Extends, DeletionOk
  <2>6. \A p \in sent' \ sent :
            p[1] = u /\ \E x \in {e} : x.kind = "setRequests" /\ x.of = p[2] /\ u \in x.who
    BY <2>3, <2>4
  <2>7. QED
    BY <1>1, <1>2, <1>4, <1>5, <2>2, <2>5, <2>6, ExtensionKeeps
<1>8. QED
  BY <1>6, <1>7

\* ignoreFriendRequest: what it deletes is dropped.
LEMMA IgnoreFriendRequestTraced ==
    ASSUME LInv, IInv, NEW c \in calls, IgnoreFriendRequest(c)
    PROVE  LInv'
<1> DEFINE u == c.dev
           rest == [requests[u] EXCEPT ![c.peer] = @ - 1]
           e == RequestWrite("deleteRequest", u, {c.peer}, 0)
           saved == SaveData(u, me[u], base[u], rest)
<1>1. /\ u \in Uuid /\ c.peer \in Uuid
      /\ me[u] \in Profile /\ base[u] \in Profile
      /\ base[u].blocked \subseteq me[u].blocked
  BY CallInCalls, CurrentUserIsGood DEF LInv, BlocksKept
<1>2. /\ UNCHANGED server /\ me' = me /\ sent' = sent
      /\ blockedBy' = blockedBy
  BY DEF IgnoreFriendRequest
<1>3. \A d \in calls : d \in calls' \/ d.phase \notin {"deleting", "deleted"}
  BY DEF IgnoreFriendRequest, Answered, Ends
<1>4. AcceptsGoOn
  BY <1>3, OthersMayEnd
<1>5. CASE Unlisted(c)
  <2>1. UNCHANGED <<queue, base, history, causes>>
    BY <1>5 DEF IgnoreFriendRequest, history
  <2>2. \A v \in Uuid : base'[v].blocked \subseteq me'[v].blocked
    BY <1>2, <2>1 DEF LInv, BlocksKept
  <2>3. QED
    BY <1>1, <1>2, <1>3, <2>1, <2>2, SilentStepTraced
<1>6. CASE ~ Unlisted(c)
  <2>1. /\ queue' = [queue EXCEPT ![u] = @ \o <<e>> \o saved]
        /\ base' = [base EXCEPT ![u] = me[u]]
        /\ dropped' = dropped \cup {<<c.peer, u>>}
    BY <1>6 DEF IgnoreFriendRequest
  <2>2. RecordGrows
    BY <2>1 DEF IgnoreFriendRequest, RecordGrows, HistoryGrows
  <2>3. /\ e \in Write /\ e.kind = "deleteRequest" /\ e.of = u
        /\ e.who = {c.peer}
    BY <1>1, BlankIsGood, ConstantsAssumption DEF RequestWrite, Write, ConstantsAssumption
  <2>4. \A v \in Uuid : base'[v].blocked \subseteq me'[v].blocked
    BY <1>1, <1>2, <2>1 DEF LInv, BlocksKept, IInv, TypeOK
  <2>5. saved \in Seq(Write) /\ \A x \in Elements(saved) : Harmless(x)
    BY <1>1, SavesAreHarmless
  <2>6. Settled(c.peer, u)'
    BY <2>1 DEF Settled
  <2> HIDE DEF e, saved, u
  <2> DEFINE s1 == <<e>>
  <2>7. s1 \in Seq(Write) /\ Elements(s1) = {e}
    BY <2>3 DEF Elements
  <2> HIDE DEF s1
  <2>8. queue' = [queue EXCEPT ![u] = @ \o s1 \o saved]
    BY <2>1 DEF s1
  <2>9. \A v \in Uuid :
            Writes(v)' = IF v = u THEN Writes(v) \cup (Elements(s1) \cup Elements(saved)) ELSE Writes(v)
    BY <1>1, <2>5, <2>7, <2>8, QueueExtendedTwice
  <2>10. DeletionOk(e, u)'
    BY <2>3, <2>6 DEF DeletionOk
  <2>11. \A x \in Elements(saved) :
             DeletionOk(x, u)' /\ (x.kind = "profile" => x.prev.blocked \subseteq x.val.blocked)
    BY <2>5 DEF Harmless, DeletionOk
  <2>12. Extends(u, Elements(s1) \cup Elements(saved))
    BY <2>3, <2>7, <2>9, <2>10, <2>11 DEF Extends
  <2>13. QED
    BY <1>1, <1>2, <1>4, <2>2, <2>4, <2>12, ExtensionKeeps
<1>7. QED
  BY <1>5, <1>6

\* A step that puts harmless writes behind a queue, and drops no request.
LEMMA HarmlessExtends ==
    ASSUME IInv, NEW u \in Uuid, NEW ws \in Seq(Write), \A e \in Elements(ws) : Harmless(e),
           queue' = [queue EXCEPT ![u] = @ \o ws]
    PROVE  Extends(u, Elements(ws))
<1>1. \A v \in Uuid : Writes(v)' = IF v = u THEN Writes(v) \cup Elements(ws) ELSE Writes(v)
  BY QueueExtended
<1>2. \A x \in Elements(ws) :
          DeletionOk(x, u)' /\ (x.kind = "profile" => x.prev.blocked \subseteq x.val.blocked)
  BY DEF Harmless, DeletionOk
<1>3. QED
  BY <1>1, <1>2 DEF Extends

\* unfriendUser touches no block and writes no deletion.
LEMMA UnfriendIsHarmless ==
    ASSUME LInv, IInv, NEW c \in calls
    PROVE  /\ UnfriendUser(c).me \in Profile
           /\ UnfriendUser(c).base \in Profile
           /\ UnfriendUser(c).me.blocked = me[c.dev].blocked
           /\ UnfriendUser(c).base.blocked \subseteq me[c.dev].blocked
           /\ UnfriendUser(c).writes \in Seq(Write)
           /\ \A e \in Elements(UnfriendUser(c).writes) : Harmless(e)
<1> DEFINE u == c.dev
           mine == RemoveFriend(me[u], c.peer)
           theirs == RemoveFriend(c.snap, u)
<1>1. /\ u \in Uuid /\ c.peer \in Uuid /\ c.snap \in Profile
      /\ me[u] \in Profile /\ base[u] \in Profile
      /\ base[u].blocked \subseteq me[u].blocked
  BY CallInCalls, CurrentUserIsGood DEF LInv, BlocksKept
<1>2. <<>> \in Seq(Write) /\ \A e \in Elements(<<>>) : Harmless(e)
  BY DEF Elements
<1>3. CASE me[u].friends[c.peer] = 0
  BY <1>1, <1>2, <1>3 DEF UnfriendUser
<1>4. CASE me[u].friends[c.peer] # 0
  <2>1. mine \in Profile /\ mine.blocked = me[u].blocked
    BY <1>1, <1>4, FriendArithmetic
  <2>2. CASE c.snap.friends[u] = 0
    BY <1>1, <1>2, <1>4, <2>1, <2>2 DEF UnfriendUser
  <2>3. CASE c.snap.friends[u] # 0
    <3>1. theirs \in Profile /\ theirs.blocked = c.snap.blocked
      BY <1>1, <2>3, FriendArithmetic
    <3> DEFINE s1 == SaveUser(u, c.peer, theirs, c.snap)
               s2 == SaveData(u, mine, base[u], requests[u])
    <3>2. UnfriendUser(c) = [me |-> mine, base |-> mine, cause |-> {}, writes |-> s1 \o s2]
      BY <1>4, <2>3 DEF UnfriendUser
    <3> HIDE DEF mine, theirs
    <3>3. /\ s1 \in Seq(Write) /\ s2 \in Seq(Write)
          /\ \A e \in Elements(s1) : Harmless(e)
          /\ \A e \in Elements(s2) : Harmless(e)
      <4>1. base[u].blocked \subseteq mine.blocked /\ c.snap.blocked \subseteq theirs.blocked
        BY <1>1, <2>1, <3>1
      <4>2. s1 \in Seq(Write) /\ \A e \in Elements(s1) : Harmless(e)
        BY <1>1, <3>1, <4>1, SavesAreHarmless
      <4>3. s2 \in Seq(Write) /\ \A e \in Elements(s2) : Harmless(e)
        BY <1>1, <2>1, <4>1, SavesAreHarmless
      <4>4. QED
        BY <4>2, <4>3
    <3> HIDE DEF s1, s2
    <3>4. s1 \o s2 \in Seq(Write) /\ \A e \in Elements(s1 \o s2) : Harmless(e)
      <4>1. s1 \o s2 \in Seq(Write) /\ Elements(s1 \o s2) = Elements(s1) \cup Elements(s2)
        BY <3>3, ConcatElements
      <4>2. QED
        BY <3>3, <4>1
    <3>5. QED
      BY <2>1, <3>2, <3>4
  <2>4. QED
    BY <2>2, <2>3
<1>5. QED
  BY <1>3, <1>4

\* unfriendUser, from either of the rows that end there.
LEMMA UnfriendedTraced ==
    ASSUME LInv, IInv, NEW c \in calls, Unfriended(c)
    PROVE  LInv'
<1> DEFINE u == c.dev
           r == UnfriendUser(c)
<1>1. u \in Uuid
  BY CallInCalls
<1>2. /\ me' = [me EXCEPT ![u] = r.me] /\ base' = [base EXCEPT ![u] = r.base]
      /\ queue' = [queue EXCEPT ![u] = @ \o r.writes]
      /\ UNCHANGED server /\ sent' = sent /\ blockedBy' = blockedBy
  BY DEF Unfriended, history
<1>3. RecordGrows
  BY DEF Unfriended, RecordGrows, HistoryGrows, history
<1>4. AcceptsGoOn
  <2>1. \A d \in calls : d \in calls' \/ d.phase \notin {"deleting", "deleted"}
    BY DEF Unfriended, Answered, Ends
  <2>2. QED
    BY <2>1, OthersMayEnd
<1>5. /\ r.base.blocked \subseteq r.me.blocked
      /\ r.writes \in Seq(Write) /\ \A e \in Elements(r.writes) : Harmless(e)
  BY UnfriendIsHarmless
<1> HIDE DEF r, u
<1>6. \A v \in Uuid : base'[v].blocked \subseteq me'[v].blocked
  BY <1>1, <1>2, <1>5 DEF LInv, BlocksKept, IInv, TypeOK
<1>7. Extends(u, Elements(r.writes))
  BY <1>1, <1>2, <1>5, HarmlessExtends
<1>8. QED
  BY <1>1, <1>2, <1>3, <1>4, <1>6, <1>7, ExtensionKeeps

\* blockUser: the last of its writes has the block.
LEMMA BlockUserTraced ==
    ASSUME LInv, IInv, NEW c \in calls, BlockUser(c)
    PROVE  LInv'
<1> DEFINE u == c.dev
           r == UnfriendUser(c)
           mine == [r.me EXCEPT !.blocked = @ \cup {c.peer}]
           saved == SaveData(u, mine, r.base, requests[u])
           e == ProfileWrite(u, mine, r.base)
<1>1. u \in Uuid /\ c.peer \in Uuid
  BY CallInCalls
<1>2. /\ me' = [me EXCEPT ![u] = mine] /\ base' = [base EXCEPT ![u] = mine]
      /\ queue' = [queue EXCEPT ![u] = @ \o r.writes \o saved]
      /\ UNCHANGED server /\ sent' = sent /\ blockedBy' = blockedBy \cup {<<u, c.peer>>}
  BY DEF BlockUser
<1>3. RecordGrows
  BY DEF BlockUser, RecordGrows, HistoryGrows
<1>4. AcceptsGoOn
  <2>1. \A d \in calls : d \in calls' \/ d.phase \notin {"deleting", "deleted"}
    BY DEF BlockUser, Answered, Ends
  <2>2. QED
    BY <2>1, OthersMayEnd
<1>5. /\ r.base \in Profile /\ r.me \in Profile /\ r.base.blocked \subseteq r.me.blocked
      /\ r.writes \in Seq(Write) /\ \A x \in Elements(r.writes) : Harmless(x)
  BY UnfriendIsHarmless
<1> HIDE DEF r
<1>6. mine \in Profile /\ mine.blocked = r.me.blocked \cup {c.peer}
  BY <1>1, <1>5 DEF Profile
<1> HIDE DEF mine
<1>7. /\ saved \in Seq(Write) /\ \A x \in Elements(saved) : Harmless(x)
      /\ e \in Elements(saved)
  <2>1. r.base.blocked \subseteq mine.blocked
    BY <1>5, <1>6
  <2>2. QED
    BY <1>1, <1>5, <1>6, <2>1, SavesAreHarmless
<1>8. e.kind = "profile" /\ e.of = u /\ c.peer \in e.val.blocked
  BY <1>6 DEF ProfileWrite
<1> HIDE DEF u, saved, e
<1>9. \A v \in Uuid : base'[v].blocked \subseteq me'[v].blocked
  BY <1>1, <1>2 DEF LInv, BlocksKept, IInv, TypeOK
<1>10. \A v \in Uuid :
           Writes(v)' = IF v = u THEN Writes(v) \cup (Elements(r.writes) \cup Elements(saved)) ELSE Writes(v)
  BY <1>1, <1>2, <1>5, <1>7, QueueExtendedTwice
<1>11. Extends(u, Elements(r.writes) \cup Elements(saved))
  <2>1. \A x \in Elements(r.writes) \cup Elements(saved) :
            DeletionOk(x, u)' /\ (x.kind = "profile" => x.prev.blocked \subseteq x.val.blocked)
    BY <1>5, <1>7 DEF Harmless, DeletionOk
  <2>2. QED
    BY <1>10, <2>1 DEF Extends
<1>12. \A p \in blockedBy' \ blockedBy :
           p[1] = u /\ \E x \in Elements(r.writes) \cup Elements(saved) :
                           x.kind = "profile" /\ x.of = u /\ p[2] \in x.val.blocked
  <2>1. \A p \in blockedBy' \ blockedBy : p[1] = u /\ p[2] = c.peer
    BY <1>2
  <2>2. QED
    BY <1>7, <1>8, <2>1
<1>13. QED
  BY <1>1, <1>2, <1>3, <1>4, <1>9, <1>11, <1>12, ExtensionKeeps

\* acceptFriendRequest deletes the request and becomes the reason for that.
LEMMA AcceptFriendRequestTraced ==
    ASSUME LInv, IInv, NEW c \in calls, AcceptFriendRequest(c)
    PROVE  LInv'
<1> DEFINE u == c.dev
           e == RequestWrite("deleteRequest", u, {c.peer}, c.slot)
           d == [c EXCEPT !.phase = "deleting"]
<1>1. u \in Uuid /\ c.peer \in Uuid /\ c \in Call /\ c.slot \in 0..MaxCalls
  BY CallInCalls, ConstantsAssumption DEF ConstantsAssumption
<1>2. /\ queue' = [queue EXCEPT ![u] = Append(@, e)] /\ calls' = (calls \ {c}) \cup {d}
      /\ UNCHANGED <<server, me, base, history, causes>>
  BY DEF AcceptFriendRequest, device, Becomes
<1>3. RecordGrows /\ UNCHANGED server /\ sent' = sent /\ blockedBy' = blockedBy
  BY <1>2 DEF RecordGrows, HistoryGrows, history
<1>4. AcceptsGoOn
  <2>1. \A x \in calls : x \in calls' \/ x.phase \notin {"deleting", "deleted"}
    BY <1>2 DEF AcceptFriendRequest, Answered
  <2>2. QED
    BY <2>1, OthersMayEnd
<1>5. \A v \in Uuid : base'[v].blocked \subseteq me'[v].blocked
  BY <1>2 DEF LInv, BlocksKept
<1>6. Accepting(c.peer, u)'
  <2>1. d.dev = u /\ d.peer = c.peer /\ d.phase = "deleting"
    BY <1>1 DEF Call
  <2>2. QED
    BY <1>2, <2>1 DEF Accepting
<1>7. /\ e \in Write /\ e.kind = "deleteRequest" /\ e.of = u
      /\ e.who = {c.peer}
  BY <1>1, BlankIsGood, ConstantsAssumption DEF RequestWrite, Write, ConstantsAssumption
<1> HIDE DEF e, u
<1>8. DeletionOk(e, u)'
  BY <1>6, <1>7 DEF DeletionOk
<1>9. Extends(u, {e})
  BY <1>1, <1>2, <1>7, <1>8, QueueAppended DEF Extends
<1>10. QED
  BY <1>1, <1>3, <1>4, <1>5, <1>9, ExtensionKeeps

\* The completion of the deletion makes the two friends, or they were already.
LEMMA RequestDeletedTraced ==
    ASSUME LInv, IInv, NEW c \in calls, RequestDeleted(c)
    PROVE  LInv'
<1> DEFINE u == c.dev
           mine == AddFriend(me[u], c.peer)
           hers == AddFriend(c.snap, u)
           theirs == SaveUser(u, c.peer, hers, c.snap)
           rest == [requests[u] EXCEPT ![c.peer] = @ - 1]
           saved == SaveData(u, mine, base[u], rest)
<1>1. /\ u \in Uuid /\ c.peer \in Uuid /\ c.snap \in Profile
      /\ me[u] \in Profile /\ base[u] \in Profile
      /\ base[u].blocked \subseteq me[u].blocked
  BY CallInCalls, CurrentUserIsGood DEF LInv, BlocksKept
<1>2. UNCHANGED server /\ sent' = sent /\ blockedBy' = blockedBy /\ dropped' = dropped
  BY DEF RequestDeleted
<1>3. RecordGrows
  BY DEF RequestDeleted, RecordGrows, HistoryGrows
<1>4. Met(c.peer, u)'
  <2>1. CASE AlreadyFriends(c)
    <3>1. me[u].friends[c.peer] > 0 /\ FriendsMet(u, me[u])
      BY <1>1, <2>1 DEF AlreadyFriends, IInv, GoodProfiles, GoodProfile
    <3>2. Met(c.peer, u)
      BY <1>1, <3>1 DEF FriendsMet, Met
    <3>3. QED
      BY <1>3, <3>2 DEF RecordGrows, HistoryGrows, Met
  <2>2. CASE ~ AlreadyFriends(c)
    BY <2>2 DEF RequestDeleted, Met
  <2>3. QED
    BY <2>1, <2>2
<1>5. AcceptsGoOn
  <2>1. \A d \in calls : d \in calls' \/ d = c
    BY DEF RequestDeleted, Ends
  <2>2. Settled(c.peer, u)'
    BY <1>4 DEF Settled
  <2>3. QED
    BY <2>1, <2>2 DEF AcceptsGoOn, Accepting
<1>6. CASE UNCHANGED <<queue, me, base, causes>>
  <2>1. Extends(u, {})
    BY <1>6, QueueKept DEF Extends
  <2>2. \A v \in Uuid : base'[v].blocked \subseteq me'[v].blocked
    BY <1>6 DEF LInv, BlocksKept
  <2>3. QED
    BY <1>1, <1>2, <1>3, <1>5, <2>1, <2>2, ExtensionKeeps
<1>7. CASE ~ AlreadyFriends(c)
  <2>1. me' = [me EXCEPT ![u] = mine]
    BY <1>7 DEF RequestDeleted
  <2>2. mine \in Profile /\ mine.blocked = me[u].blocked
    BY <1>1, FriendArithmetic
  <2>3. hers \in Profile /\ hers.blocked = c.snap.blocked
    BY <1>1, FriendArithmetic
  <2> HIDE DEF mine, hers
  <2>4. theirs \in Seq(Write) /\ \A x \in Elements(theirs) : Harmless(x)
    BY <1>1, <2>3, SavesAreHarmless
  <2>5. saved \in Seq(Write) /\ \A x \in Elements(saved) : Harmless(x)
    BY <1>1, <2>2, SavesAreHarmless
  <2>6. \/ queue' = [queue EXCEPT ![u] = @ \o theirs] /\ base' = base
        \/ queue' = [queue EXCEPT ![u] = @ \o theirs \o saved] /\ base' = [base EXCEPT ![u] = mine]
    BY <1>7 DEF RequestDeleted, mine, hers
  <2> HIDE DEF theirs, saved, u
  <2>7. \A v \in Uuid : base'[v].blocked \subseteq me'[v].blocked
    BY <1>1, <2>1, <2>2, <2>6 DEF LInv, BlocksKept, IInv, TypeOK
  <2>8. CASE queue' = [queue EXCEPT ![u] = @ \o theirs]
    <3>1. Extends(u, Elements(theirs))
      BY <1>1, <2>4, <2>8, HarmlessExtends
    <3>2. QED
      BY <1>1, <1>2, <1>3, <1>5, <2>7, <3>1, ExtensionKeeps
  <2>9. CASE queue' = [queue EXCEPT ![u] = @ \o theirs \o saved]
    <3>1. \A v \in Uuid :
              Writes(v)' = IF v = u THEN Writes(v) \cup (Elements(theirs) \cup Elements(saved)) ELSE Writes(v)
      BY <1>1, <2>4, <2>5, <2>9, QueueExtendedTwice
    <3>2. \A x \in Elements(theirs) \cup Elements(saved) :
              DeletionOk(x, u)' /\ (x.kind = "profile" => x.prev.blocked \subseteq x.val.blocked)
      BY <2>4, <2>5 DEF Harmless, DeletionOk
    <3>3. Extends(u, Elements(theirs) \cup Elements(saved))
      BY <3>1, <3>2 DEF Extends
    <3>4. QED
      BY <1>1, <1>2, <1>3, <1>5, <2>7, <3>3, ExtensionKeeps
  <2>10. QED
    BY <2>6, <2>8, <2>9
<1>8. QED
  BY <1>6, <1>7 DEF RequestDeleted

-----------------------------------------------------------------------------
(* Firestore and the process *)

\* When the oldest write goes, the others stay.
LEMMA HeadGoes ==
    ASSUME IInv, NEW u \in Uuid, queue[u] # <<>>, queue' = [queue EXCEPT ![u] = Tail(@)]
    PROVE  /\ Head(queue[u]) \in Writes(u)
           /\ \A v \in Uuid : Writes(v)' \subseteq Writes(v)
           /\ \A v \in Uuid : \A e \in Writes(v) : e \in Writes(v)' \/ (v = u /\ e = Head(queue[u]))
<1>1. queue[u] \in Seq(Write)
  BY DEF IInv, TypeOK
<1>2. Elements(queue[u]) = {Head(queue[u])} \cup Elements(Tail(queue[u]))
  BY <1>1, HeadTailElements
<1>3. \A v \in Uuid : queue'[v] = IF v = u THEN Tail(queue[u]) ELSE queue[v]
  BY DEF IInv, TypeOK
<1>4. \A v \in Uuid : Writes(v)' = Elements(queue'[v]) /\ Writes(v) = Elements(queue[v])
  BY DEF Writes, Elements
<1>5. QED
  BY <1>2, <1>3, <1>4

\* When the oldest write of a device goes, the rest of the invariant is about
\* what that write has left behind: a block or a request.
LEMMA ShorterQueueTraced ==
    ASSUME LInv, IInv, RecordGrows, AcceptsGoOn,
           NEW u \in Uuid, queue[u] # <<>>, queue' = [queue EXCEPT ![u] = Tail(@)],
           UNCHANGED <<me, base, sent, blockedBy>>,
           NEW e, e = Head(queue[u]),
           \A p \in blockedBy :
               p[2] \in docs[p[1]].blocked =>
                   p[2] \in docs'[p[1]].blocked \/ <<"overwrite", p[1]>> \in causes',
           e.kind = "profile" =>
               \A v \in e.val.blocked : v \in docs'[e.of].blocked \/ <<"refused", e.of>> \in causes',
           \A p \in sent :
               p[1] \in inbox[p[2]] =>
                   p[1] \in inbox'[p[2]] \/ Settled(p[1], p[2])' \/ Accepting(p[1], p[2])',
           e.kind = "setRequests" =>
               \A w \in e.who : w \in inbox'[e.of] \/ <<"refused", e.of>> \in causes'
    PROVE  LInv'
<1>1. /\ e \in Writes(u)
      /\ \A v \in Uuid : Writes(v)' \subseteq Writes(v)
      /\ \A v \in Uuid : \A x \in Writes(v) : x \in Writes(v)' \/ (v = u /\ x = e)
  BY HeadGoes
<1>2. /\ \A p \in blockedBy : p[1] \in Uuid
      /\ \A p \in sent : p[1] \in Uuid /\ p[2] \in Uuid
  BY DEF IInv, TypeOK
<1>3. BlocksKept'
  BY <1>1 DEF LInv, BlocksKept
<1>4. BlocksTraced'
  <2> SUFFICES ASSUME NEW p \in blockedBy
               PROVE  \/ p[2] \in docs'[p[1]].blocked
                      \/ \E x \in Writes(p[1])' : x.kind = "profile" /\ x.of = p[1] /\ p[2] \in x.val.blocked
                      \/ <<"overwrite", p[1]>> \in causes'
                      \/ <<"refused", p[1]>> \in causes'
    BY DEF BlocksTraced
  <2>1. CASE p[2] \in docs[p[1]].blocked
    BY <2>1
  <2>2. CASE \E x \in Writes(p[1]) : x.kind = "profile" /\ x.of = p[1] /\ p[2] \in x.val.blocked
    BY <1>1, <1>2, <2>2
  <2>3. CASE <<"overwrite", p[1]>> \in causes \/ <<"refused", p[1]>> \in causes
    BY <2>3 DEF RecordGrows
  <2>4. QED
    BY <2>1, <2>2, <2>3 DEF LInv, BlocksTraced
<1>5. DeletionsTraced'
  BY <1>1, DeletionsStay DEF DeletionsTraced
<1>6. RequestsTraced'
  <2> SUFFICES ASSUME NEW p \in sent
               PROVE  \/ Settled(p[1], p[2])'
                      \/ Accepting(p[1], p[2])'
                      \/ p[1] \in inbox'[p[2]]
                      \/ \E x \in Writes(p[1])' : x.kind = "setRequests" /\ x.of = p[2] /\ p[1] \in x.who
    BY DEF RequestsTraced
  <2>1. CASE Settled(p[1], p[2])
    BY <2>1, SettledStays
  <2>2. CASE Accepting(p[1], p[2])
    BY <1>2, <2>2 DEF AcceptsGoOn
  <2>3. CASE p[1] \in inbox[p[2]]
    BY <2>3
  <2>4. CASE \E x \in Writes(p[1]) : x.kind = "setRequests" /\ x.of = p[2] /\ p[1] \in x.who
    <3>1. PICK x \in Writes(p[1]) : x.kind = "setRequests" /\ x.of = p[2] /\ p[1] \in x.who
      BY <2>4
    <3>2. CASE x \in Writes(p[1])'
      BY <3>1, <3>2
    <3>3. CASE x = e
      BY <3>1, <3>3 DEF Settled
    <3>4. QED
      BY <1>1, <1>2, <3>2, <3>3
  <2>5. QED
    BY <2>1, <2>2, <2>3, <2>4 DEF LInv, RequestsTraced
<1>7. QED
  BY <1>3, <1>4, <1>5, <1>6 DEF LInv

\* A committed write is what the document or the inbox holds then: a block stays
\* if nothing else was overwritten, a request goes if it was settled.
LEMMA CommitTraced ==
    ASSUME LInv, IInv, NEW u \in Uuid, Commit(u)
    PROVE  LInv'
<1>0. PICK e : e = Head(queue[u])
  OBVIOUS
<1>1. /\ queue[u] # <<>> /\ queue' = [queue EXCEPT ![u] = Tail(@)]
      /\ UNCHANGED <<me, base, history>>
  BY DEF Commit, device
<1>2. /\ \/ /\ e.kind = "profile"
            /\ docs' = [docs EXCEPT ![e.of] = e.val]
            /\ causes' = causes \cup
                   (IF docs[e.of] = e.prev THEN {} ELSE {<<"overwrite", e.of>>})
            /\ UNCHANGED <<inbox, calls>>
         \/ /\ e.kind = "setRequests"
            /\ inbox' = [inbox EXCEPT ![e.of] = @ \cup e.who]
            /\ UNCHANGED <<docs, causes, calls>>
         \/ /\ e.kind = "deleteRequest"
            /\ inbox' = [inbox EXCEPT ![e.of] = @ \ e.who]
            /\ calls' = (calls \ Waiting(u, e)) \cup
                        {[c EXCEPT !.phase = "deleted"] : c \in Waiting(u, e)}
            /\ UNCHANGED <<docs, causes>>
  BY <1>0 DEF Commit
<1>3. e \in Writes(u)
  BY <1>1, <1>0, HeadGoes
<1>4. e.of \in Uuid /\ e.who \in SUBSET Uuid
  BY <1>3, WritesTyped
<1>5. UNCHANGED <<sent, blockedBy>> /\ RecordGrows
  BY <1>1, <1>2 DEF RecordGrows, HistoryGrows, history
<1>6. \A w \in Uuid, v \in Uuid : Accepting(w, v) => Accepting(w, v)'
  <2>1. CASE calls' = calls
    BY <2>1 DEF Accepting
  <2>2. CASE calls' = (calls \ Waiting(u, e)) \cup {[c EXCEPT !.phase = "deleted"] : c \in Waiting(u, e)}
    <3>1. ASSUME NEW c \in calls, c.phase \in {"deleting", "deleted"}
          PROVE  \E d \in calls' : d.dev = c.dev /\ d.peer = c.peer /\ d.phase \in {"deleting", "deleted"}
      <4>1. CASE c \in Waiting(u, e)
        <5> DEFINE d == [c EXCEPT !.phase = "deleted"]
        <5>1. d \in calls'
          BY <2>2, <4>1
        <5>2. d.dev = c.dev /\ d.peer = c.peer /\ d.phase = "deleted"
          BY CallInCalls DEF Call
        <5>3. QED
          BY <5>1, <5>2
      <4>2. CASE c \notin Waiting(u, e)
        BY <2>2, <3>1, <4>2
      <4>3. QED
        BY <4>1, <4>2
    <3>2. QED
      BY <3>1 DEF Accepting
  <2>3. QED
    BY <1>2, <2>1, <2>2
<1>7. AcceptsGoOn
  BY <1>6 DEF AcceptsGoOn
<1>8. ASSUME NEW p \in blockedBy, p[2] \in docs[p[1]].blocked
      PROVE  p[2] \in docs'[p[1]].blocked \/ <<"overwrite", p[1]>> \in causes'
  <2>1. CASE docs' = docs
    BY <1>8, <2>1
  <2>2. CASE e.kind = "profile"
    <3>1. p[1] \in Uuid /\ docs' = [docs EXCEPT ![e.of] = e.val] /\ docs \in [Uuid -> Profile]
      BY <1>2, <2>2 DEF IInv, TypeOK
    <3>2. CASE p[1] # e.of
      BY <1>8, <3>1, <3>2
    <3>3. CASE p[1] = e.of /\ docs[e.of] = e.prev
      <4>1. e.prev.blocked \subseteq e.val.blocked
        BY <1>3, <2>2 DEF LInv, BlocksKept
      <4>2. docs'[e.of] = e.val
        BY <1>4, <3>1
      <4>3. QED
        BY <1>8, <3>3, <4>1, <4>2
    <3>4. CASE p[1] = e.of /\ docs[e.of] # e.prev
      BY <1>2, <2>2, <3>4
    <3>5. QED
      BY <3>2, <3>3, <3>4
  <2>3. QED
    BY <1>2, <2>1, <2>2
<1>9. e.kind = "profile" => docs'[e.of] = e.val
  BY <1>2, <1>4 DEF IInv, TypeOK
<1>10. ASSUME NEW p \in sent, p[1] \in inbox[p[2]]
       PROVE  p[1] \in inbox'[p[2]] \/ Settled(p[1], p[2])' \/ Accepting(p[1], p[2])'
  <2>1. p[1] \in Uuid /\ p[2] \in Uuid /\ inbox \in [Uuid -> SUBSET Uuid]
    BY DEF IInv, TypeOK
  <2>2. CASE inbox' = inbox \/ inbox' = [inbox EXCEPT ![e.of] = @ \cup e.who]
    BY <1>10, <2>1, <2>2
  <2>3. CASE e.kind = "deleteRequest" /\ inbox' = [inbox EXCEPT ![e.of] = @ \ e.who]
    <3>1. CASE p[2] = e.of /\ p[1] \in e.who
      <4>1. DeletionOk(e, u)'
        BY <1>3, <1>5, <1>7, DeletionsStay
      <4>2. e.of = u /\ (Settled(p[1], u)' \/ Accepting(p[1], u)')
        BY <2>3, <3>1, <4>1 DEF DeletionOk
      <4>3. p[2] = u
        BY <3>1, <4>2
      <4>4. QED
        BY <4>2, <4>3
    <3>2. CASE ~ (p[2] = e.of /\ p[1] \in e.who)
      BY <1>10, <2>1, <2>3, <3>2
    <3>3. QED
      BY <3>1, <3>2
  <2>4. QED
    BY <1>2, <2>2, <2>3
<1>11. e.kind = "setRequests" => \A w \in e.who : w \in inbox'[e.of]
  BY <1>2, <1>4 DEF IInv, TypeOK
<1>12. QED
  BY <1>1, <1>5, <1>7, <1>8, <1>9, <1>10, <1>11, <1>0, ShorterQueueTraced

\* A refused write is a cause of its own, and so is what it takes with it.
LEMMA RefuseTraced ==
    ASSUME LInv, IInv, NEW u \in Uuid, Refuse(u)
    PROVE  LInv'
<1> DEFINE e == Head(queue[u])
<1>1. /\ queue[u] # <<>> /\ queue' = [queue EXCEPT ![u] = Tail(@)]
      /\ UNCHANGED <<docs, inbox, me, base, history>>
      /\ calls' = calls \ Waiting(u, e) /\ causes' = causes \cup {<<"refused", e.of>>}
  BY DEF Refuse, device, server
<1>2. e \in Writes(u) /\ e = Head(queue[u])
  BY <1>1, HeadGoes
<1> HIDE DEF e
<1>3. UNCHANGED <<sent, blockedBy>> /\ RecordGrows
  BY <1>1 DEF RecordGrows, HistoryGrows, history
<1>4. AcceptsGoOn
  <2>1. ASSUME NEW c \in Waiting(u, e)
        PROVE  c.dev = u /\ e.of = u
    <3>1. c \in calls /\ c.dev = u /\ c.slot = e.slot
      BY DEF Waiting
    <3>2. e.slot # 0
      BY <3>1, CallInCalls, ConstantsAssumption DEF ConstantsAssumption
    <3>3. DeletionOk(e, u)
      BY <1>2 DEF LInv, DeletionsTraced
    <3>4. QED
      BY <3>1, <3>2, <3>3 DEF DeletionOk
  <2>2. ASSUME NEW w \in Uuid, NEW v \in Uuid, Accepting(w, v)
        PROVE  Accepting(w, v)' \/ Settled(w, v)'
    <3>1. PICK c \in calls : c.dev = v /\ c.peer = w /\ c.phase \in {"deleting", "deleted"}
      BY <2>2 DEF Accepting
    <3>2. CASE c \in Waiting(u, e)
      <4>1. v = u /\ e.of = u
        BY <2>1, <3>1, <3>2
      <4>2. <<"refused", v>> \in causes'
        BY <1>1, <4>1
      <4>3. QED
        BY <4>2 DEF Settled
    <3>3. CASE c \notin Waiting(u, e)
      BY <1>1, <3>1, <3>3 DEF Accepting
    <3>4. QED
      BY <3>2, <3>3
  <2>3. QED
    BY <2>2 DEF AcceptsGoOn
<1>5. QED
  BY <1>1, <1>2, <1>3, <1>4, ShorterQueueTraced

\* A relaunch takes the calls along: their deletions are dropped requests.
LEMMA RelaunchTraced ==
    ASSUME LInv, IInv, NEW u \in Uuid, Relaunch(u)
    PROVE  LInv'
<1> DEFINE S == {d \in calls : d.dev = u /\ d.phase \in {"deleting", "deleted"}}
           Reset(e) == [e EXCEPT !.slot = 0]
           q == [i \in DOMAIN queue[u] |-> Reset(queue[u][i])]
<1>1. /\ queue' = [queue EXCEPT ![u] = q]
      /\ me' = [me EXCEPT ![u] = Blank] /\ base' = [base EXCEPT ![u] = Blank]
      /\ calls' = {c \in calls : c.dev # u}
      /\ dropped' = dropped \cup {<<c.peer, u>> : c \in S}
      /\ UNCHANGED <<docs, inbox, sent, accepted, blockedBy, causes>>
  BY DEF Relaunch, server
<1>2. RecordGrows
  BY <1>1 DEF RecordGrows, HistoryGrows
<1>3. AcceptsGoOn
  <2>1. ASSUME NEW w \in Uuid, NEW v \in Uuid, Accepting(w, v)
        PROVE  Accepting(w, v)' \/ Settled(w, v)'
    <3>1. PICK c \in calls : c.dev = v /\ c.peer = w /\ c.phase \in {"deleting", "deleted"}
      BY <2>1 DEF Accepting
    <3>2. CASE v = u
      BY <1>1, <3>1, <3>2 DEF Settled
    <3>3. CASE v # u
      BY <1>1, <3>1, <3>3 DEF Accepting
    <3>4. QED
      BY <3>2, <3>3
  <2>2. QED
    BY <2>1 DEF AcceptsGoOn
<1>4. \A e \in Writes(u) : /\ Reset(e).kind = e.kind /\ Reset(e).of = e.of /\ Reset(e).val = e.val
                           /\ Reset(e).prev = e.prev /\ Reset(e).who = e.who /\ Reset(e).slot = 0
  BY WritesTyped DEF Write
<1> HIDE DEF Reset
<1>5. \A v \in Uuid : Writes(v)' = IF v = u THEN {Reset(e) : e \in Writes(u)} ELSE Writes(v)
  <2>1. \A v \in Uuid : queue'[v] = IF v = u THEN q ELSE queue[v]
    BY <1>1 DEF IInv, TypeOK
  <2>2. \A v \in Uuid : Writes(v)' = Elements(queue'[v]) /\ Writes(v) = Elements(queue[v])
    BY DEF Writes, Elements
  <2>3. Elements(q) = {Reset(e) : e \in Elements(queue[u])}
    BY DEF Elements
  <2>4. QED
    BY <2>1, <2>2, <2>3
<1> HIDE DEF q
<1>6. BlocksKept'
  <2>1. \A v \in Uuid : base'[v].blocked \subseteq me'[v].blocked
    BY <1>1 DEF LInv, BlocksKept, IInv, TypeOK
  <2>2. \A v \in Uuid : \A e \in Writes(v)' : e.kind = "profile" => e.prev.blocked \subseteq e.val.blocked
    BY <1>4, <1>5 DEF LInv, BlocksKept
  <2>3. QED
    BY <2>1, <2>2 DEF BlocksKept
<1>7. \A v \in Uuid : \A e \in Writes(v) :
          \E d \in Writes(v)' : d.kind = e.kind /\ d.of = e.of /\ d.val = e.val /\ d.who = e.who
  BY <1>4, <1>5
<1>8. /\ \A p \in blockedBy : p[1] \in Uuid
      /\ \A p \in sent : p[1] \in Uuid /\ p[2] \in Uuid
  BY DEF IInv, TypeOK
<1>9. BlocksTraced'
  <2> SUFFICES ASSUME NEW p \in blockedBy
               PROVE  \/ p[2] \in docs[p[1]].blocked
                      \/ \E x \in Writes(p[1])' : x.kind = "profile" /\ x.of = p[1] /\ p[2] \in x.val.blocked
                      \/ <<"overwrite", p[1]>> \in causes
                      \/ <<"refused", p[1]>> \in causes
    BY <1>1 DEF BlocksTraced
  <2>1. CASE \E x \in Writes(p[1]) : x.kind = "profile" /\ x.of = p[1] /\ p[2] \in x.val.blocked
    <3>1. PICK x \in Writes(p[1]) : x.kind = "profile" /\ x.of = p[1] /\ p[2] \in x.val.blocked
      BY <2>1
    <3>2. PICK d \in Writes(p[1])' : d.kind = x.kind /\ d.of = x.of /\ d.val = x.val
      BY <1>7, <1>8
    <3>3. QED
      BY <3>1, <3>2
  <2>2. QED
    BY <2>1 DEF LInv, BlocksTraced
<1>10. DeletionsTraced'
  <2>1. \A v \in Uuid : \A e \in Writes(v) : DeletionOk(e, v)'
    BY <1>2, <1>3, DeletionsStay
  <2>2. \A e \in Writes(u) : DeletionOk(Reset(e), u)'
    BY <1>4, <2>1 DEF DeletionOk
  <2>3. QED
    BY <1>5, <2>1, <2>2 DEF DeletionsTraced
<1>11. RequestsTraced'
  <2> SUFFICES ASSUME NEW p \in sent
               PROVE  \/ Settled(p[1], p[2])'
                      \/ Accepting(p[1], p[2])'
                      \/ p[1] \in inbox[p[2]]
                      \/ \E x \in Writes(p[1])' : x.kind = "setRequests" /\ x.of = p[2] /\ p[1] \in x.who
    BY <1>1 DEF RequestsTraced
  <2>1. Settled(p[1], p[2]) => Settled(p[1], p[2])'
    BY <1>2, SettledStays
  <2>2. Accepting(p[1], p[2]) => Accepting(p[1], p[2])' \/ Settled(p[1], p[2])'
    BY <1>3, <1>8 DEF AcceptsGoOn
  <2>3. CASE \E x \in Writes(p[1]) : x.kind = "setRequests" /\ x.of = p[2] /\ p[1] \in x.who
    <3>1. PICK x \in Writes(p[1]) : x.kind = "setRequests" /\ x.of = p[2] /\ p[1] \in x.who
      BY <2>3
    <3>2. PICK d \in Writes(p[1])' : d.kind = x.kind /\ d.of = x.of /\ d.who = x.who
      BY <1>7, <1>8
    <3>3. QED
      BY <3>1, <3>2
  <2>4. QED
    BY <2>1, <2>2, <2>3 DEF LInv, RequestsTraced
<1>12. QED
  BY <1>6, <1>9, <1>10, <1>11 DEF LInv

-----------------------------------------------------------------------------
(* The theorems *)

\* At the start nobody has blocked anyone, and those who have sent a request are
\* friends already.
LEMMA InitIsTraced == Init => LInv
<1> SUFFICES ASSUME Init PROVE LInv
  OBVIOUS
<1>1. \A u \in Uuid : Writes(u) = {}
  <2>1. Elements(<<>>) = {}
    BY DEF Elements
  <2>2. \A u \in Uuid : queue[u] = <<>>
    BY DEF Init
  <2>3. QED
    BY <2>1, <2>2 DEF Writes
<1>2. BlocksKept
  BY <1>1 DEF Init, BlocksKept, Blank
<1>3. BlocksTraced
  BY DEF Init, BlocksTraced
<1>4. DeletionsTraced
  BY <1>1 DEF DeletionsTraced
<1>5. RequestsTraced
  <2>1. \A p \in sent : p = <<p[1], p[2]>> /\ p \in accepted
    BY ConstantsAssumption DEF Init, ConstantsAssumption
  <2>2. QED
    BY <2>1 DEF RequestsTraced, Settled, Met
<1>6. QED
  BY <1>2, <1>3, <1>4, <1>5 DEF LInv

\* Every step keeps everything traced.
LEMMA NextTraced ==
    ASSUME LInv, IInv, Next
    PROVE  LInv'
<1>1. CASE \E u \in Uuid : \/ LogInButtonTapped(u)
                           \/ Taps(u)
                           \/ ListenerFires(u)
                           \/ Commit(u)
                           \/ Refuse(u)
                           \/ Relaunch(u)
  BY <1>1, LookupsTraced, CommitTraced, RefuseTraced, RelaunchTraced
<1>2. CASE \E c \in calls : Answer(c) \/ LookupFails(c) \/ Completion(c)
  <2>1. PICK c \in calls : Answer(c) \/ LookupFails(c) \/ Completion(c)
    BY <1>2
  <2>2. CASE Answer(c) \/ LookupFails(c) \/ RequestsLoaded(c)
    BY <2>2, LookupsTraced
  <2>3. CASE Completion(c) /\ ~ RequestsLoaded(c)
    BY <2>3, LoggedInTraced, SendFriendRequestTraced, IgnoreFriendRequestTraced, UnfriendedTraced,
       BlockUserTraced, AcceptFriendRequestTraced, RequestDeletedTraced DEF Completion
  <2>4. QED
    BY <2>1, <2>2, <2>3
<1>3. QED
  BY <1>1, <1>2 DEF Next

\* So does no step at all.
LEMMA StutterTraced ==
    ASSUME LInv, UNCHANGED vars
    PROVE  LInv'
BY DEF vars, LInv, BlocksKept, BlocksTraced, DeletionsTraced, RequestsTraced, DeletionOk, Settled, Met,
       Accepting, Writes, Elements

\* In every reachable state, blocks and requests are where they can be followed.
THEOREM LossInvariance == Spec => []LInv
<1>1. Init => LInv
  BY InitIsTraced
<1>2. LInv /\ IInv /\ [Next]_vars => LInv'
  BY NextTraced, StutterTraced
<1>3. QED
  BY <1>1, <1>2, Invariance, PTL DEF Spec

\* In a quiet state nothing is on the way and no accept is going on.
LEMMA NothingPending ==
    ASSUME Quiet
    PROVE  /\ \A u \in Uuid : Writes(u) = {}
           /\ \A w, u \in Uuid : ~ Accepting(w, u)
BY DEF Quiet, Writes, Elements, Accepting

\* A block that blockUser has saved is in its owner's document once everything
\* has settled, unless some save overwrote that document with what it had not
\* read, or the server refused a write to it.
THEOREM BlockLossesHaveCause == Spec => []BlockLossHasCause
<1>1. IInv /\ LInv => BlockLossHasCause
  <2> SUFFICES ASSUME IInv, LInv, Quiet, NEW p \in blockedBy
               PROVE  \/ p[2] \in docs[p[1]].blocked
                      \/ <<"overwrite", p[1]>> \in causes
                      \/ <<"refused", p[1]>> \in causes
    BY DEF BlockLossHasCause
  <2>1. p[1] \in Uuid
    BY DEF IInv, TypeOK
  <2>2. QED
    BY <2>1, NothingPending DEF LInv, BlocksTraced
<1>2. QED
  BY <1>1, Invariance, LossInvariance, PTL

\* A request that sendFriendRequest has written is in the receiver's inbox once
\* everything has settled, or has made the two friends, unless the receiver
\* ignored it, died inside acceptFriendRequest, or the server refused a write.
THEOREM RequestsGoneHaveCause == Spec => []RequestGoneHasCause
<1>1. IInv /\ LInv => RequestGoneHasCause
  <2> SUFFICES ASSUME IInv, LInv, Quiet, NEW p \in sent
               PROVE  \/ p[1] \in inbox[p[2]]
                      \/ Met(p[1], p[2])
                      \/ p \in dropped
                      \/ <<"refused", p[2]>> \in causes
    BY DEF RequestGoneHasCause
  <2>1. p[1] \in Uuid /\ p[2] \in Uuid /\ p = <<p[1], p[2]>>
    BY DEF IInv, TypeOK
  <2>2. Settled(p[1], p[2]) \/ p[1] \in inbox[p[2]]
    BY <2>1, NothingPending DEF LInv, RequestsTraced
  <2>3. QED
    BY <2>1, <2>2 DEF Settled
<1>2. QED
  BY <1>1, Invariance, LossInvariance, PTL
=============================================================================
