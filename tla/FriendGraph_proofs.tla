-------------------------- MODULE FriendGraph_proofs --------------------------
(***************************************************************************)
(* Theorems about FriendGraph for every set of users and every bound.       *)
(*                                                                         *)
(* One inductive invariant, IInv, carries them: every copy of a profile      *)
(* (document, currentUser, snapshot of a call, pending write) and every copy *)
(* of a request is good, where good refers to the history of what users did. *)
(* The properties speak of the documents only and are not inductive alone: a *)
(* commit copies a pending write into a document, and that write was built   *)
(* from a snapshot or from currentUser.                                      *)
(***************************************************************************)
EXTENDS FriendGraph, SequenceTheorems, TLAPS

\* A profile that user u may have: its friends have met u, and u has blocked
\* those it blocks.
GoodProfile(u) ==
    {p \in Profile : /\ FriendsMet(u, p)
                     /\ \A v \in p.blocked : <<u, v>> \in blockedBy}

\* Those who have sent u a request.
Senders(u) == {w \in Uuid : <<w, u>> \in sent}

CausesType == SUBSET ({"overwrite", "halfAccept", "halfUnfriend", "refused"} \X Uuid)

GoodWrite ==
    {e \in Write : /\ e.kind = "profile" => e.val \in GoodProfile(e.of)
                   /\ e.kind = "setRequests" => e.who \subseteq Senders(e.of)}

GoodCall ==
    {c \in Call : /\ c.snap \in GoodProfile(c.peer)
                  /\ c.found \subseteq Senders(c.dev)
                  /\ c.op = "login" => c.peer = c.dev
                  /\ c.op = "accept" => c.peer \in Senders(c.dev)
                  /\ c.phase \in {"deleting", "deleted"} => c.op = "accept"}

\* The documents and their copies in memory.
GoodProfiles ==
    \A u \in Uuid : docs[u] \in GoodProfile(u) /\ me[u] \in GoodProfile(u)

\* The requests on the server and in the lists.
GoodRequests ==
    /\ \A u \in Uuid : inbox[u] \subseteq Senders(u) /\ Listed(requests[u]) \subseteq Senders(u)
    /\ accepted \subseteq sent

IInv ==
    /\ TypeOK
    /\ GoodProfiles
    /\ GoodRequests
    /\ \A u \in Uuid : queue[u] \in Seq(GoodWrite)
    /\ calls \subseteq GoodCall

-----------------------------------------------------------------------------
(* Profiles *)

\* A new User object has no friend and no block, whoever it is of.
LEMMA BlankIsGood ==
    ASSUME NEW u \in Uuid
    PROVE  Blank \in GoodProfile(u) /\ Blank \in Profile
BY DEF Blank, NoFriends, GoodProfile, Profile, FriendsMet

\* append and remove(at: firstIndex) change one user's count by one, and nothing
\* else of a profile.
LEMMA FriendArithmetic ==
    ASSUME NEW p \in Profile, NEW v \in Uuid
    PROVE  /\ AddFriend(p, v) \in Profile
           /\ p.friends[v] # 0 => RemoveFriend(p, v) \in Profile
           /\ AddFriend(p, v).blocked = p.blocked
           /\ RemoveFriend(p, v).blocked = p.blocked
           /\ AddFriend(p, v).friends[v] = p.friends[v] + 1
           /\ RemoveFriend(p, v).friends[v] = p.friends[v] - 1
           /\ \A w \in Uuid : w # v => AddFriend(p, v).friends[w] = p.friends[w]
           /\ \A w \in Uuid : w # v => RemoveFriend(p, v).friends[w] = p.friends[w]
BY DEF AddFriend, RemoveFriend, Profile

\* unfriendUser keeps a profile good: it only removes.
LEMMA RemoveKeepsGood ==
    ASSUME NEW u \in Uuid, NEW v \in Uuid, NEW p \in GoodProfile(u), p.friends[v] # 0
    PROVE  RemoveFriend(p, v) \in GoodProfile(u)
<1>1. p \in Profile /\ p.friends[v] \in Nat
  BY DEF GoodProfile, Profile
<1>2. \A w \in Uuid : RemoveFriend(p, v).friends[w] > 0 => p.friends[w] > 0
  <2>1. RemoveFriend(p, v).friends[v] = p.friends[v] - 1
    BY <1>1, FriendArithmetic
  <2>2. \A w \in Uuid : w # v => RemoveFriend(p, v).friends[w] = p.friends[w]
    BY <1>1, FriendArithmetic
  <2>3. QED
    BY <1>1, <2>1, <2>2
<1>3. QED
  BY <1>1, <1>2, FriendArithmetic DEF GoodProfile, FriendsMet

\* acceptFriendRequest keeps a profile good: the friend it adds has met u.
LEMMA AddKeepsGood ==
    ASSUME NEW u \in Uuid, NEW v \in Uuid, NEW p \in GoodProfile(u), Met(u, v)
    PROVE  AddFriend(p, v) \in GoodProfile(u)
<1>1. p \in Profile
  BY DEF GoodProfile
<1>2. \A w \in Uuid : AddFriend(p, v).friends[w] > 0 => w = v \/ p.friends[w] > 0
  BY <1>1, FriendArithmetic
<1>3. QED
  BY <1>1, <1>2, FriendArithmetic DEF GoodProfile, FriendsMet

-----------------------------------------------------------------------------
(* The history only grows, so what was good stays good. *)

HistoryGrows ==
    sent \subseteq sent' /\ accepted \subseteq accepted' /\ blockedBy \subseteq blockedBy'

\* What users did is never undone, so a good copy stays good.
LEMMA GoodStaysGood ==
    ASSUME HistoryGrows
    PROVE  /\ \A u \in Uuid : GoodProfile(u) \subseteq GoodProfile(u)'
           /\ \A u \in Uuid : Senders(u) \subseteq Senders(u)'
           /\ GoodWrite \subseteq GoodWrite'
           /\ GoodCall \subseteq GoodCall'
           /\ Seq(GoodWrite) \subseteq Seq(GoodWrite')
<1>1. \A u \in Uuid : GoodProfile(u) \subseteq GoodProfile(u)'
  BY DEF HistoryGrows, GoodProfile, FriendsMet, Met
<1>2. \A u \in Uuid : Senders(u) \subseteq Senders(u)'
  BY DEF HistoryGrows, Senders
<1>3. \A e \in Write : e.of \in Uuid
  BY DEF Write
<1>4. GoodWrite \subseteq GoodWrite'
  BY <1>1, <1>2, <1>3 DEF GoodWrite
<1>5. \A c \in Call : c.peer \in Uuid /\ c.dev \in Uuid
  BY DEF Call
<1>6. GoodCall \subseteq GoodCall'
  BY <1>1, <1>2, <1>5 DEF GoodCall
<1>7. Seq(GoodWrite) \subseteq Seq(GoodWrite')
  BY <1>4, SeqMonotonic
<1>8. QED
  BY <1>1, <1>2, <1>4, <1>6, <1>7

-----------------------------------------------------------------------------
(* Writes *)

\* setData of a good profile is a good write.
LEMMA ProfileWriteIsGood ==
    ASSUME NEW u \in Uuid, NEW p \in GoodProfile(u), NEW q \in Profile
    PROVE  ProfileWrite(u, p, q) \in GoodWrite
BY ConstantsAssumption DEF ProfileWrite, GoodWrite, Write, GoodProfile, ConstantsAssumption

\* So is the deletion of any request and the setting of requests that were sent.
LEMMA RequestWriteIsGood ==
    ASSUME NEW u \in Uuid, NEW S \in SUBSET Uuid, NEW s \in 0..MaxCalls
    PROVE  /\ RequestWrite("deleteRequest", u, S, s) \in GoodWrite
           /\ S \subseteq Senders(u) => RequestWrite("setRequests", u, S, s) \in GoodWrite
<1>1. Blank \in Profile
  BY BlankIsGood
<1>2. QED
  BY <1>1 DEF RequestWrite, GoodWrite, Write

\* saveUser of a good profile starts only good writes.
LEMMA SaveUserIsGood ==
    ASSUME NEW u \in Uuid, NEW v \in Uuid, NEW p \in GoodProfile(v), NEW q \in Profile
    PROVE  SaveUser(u, v, p, q) \in Seq(GoodWrite)
BY ProfileWriteIsGood DEF SaveUser

\* saveData writes a good profile and requests that were sent.
LEMMA SaveDataIsGood ==
    ASSUME NEW u \in Uuid, NEW p \in GoodProfile(u), NEW q \in Profile,
           NEW rs, Listed(rs) \subseteq Senders(u)
    PROVE  SaveData(u, p, q, rs) \in Seq(GoodWrite)
<1> DEFINE reqs == IF Listed(rs) = {} THEN <<>>
                   ELSE <<RequestWrite("setRequests", u, Listed(rs), 0)>>
<1>1. <<ProfileWrite(u, p, q)>> \in Seq(GoodWrite)
  BY ProfileWriteIsGood
<1>2. RequestWrite("setRequests", u, Listed(rs), 0) \in GoodWrite
  BY RequestWriteIsGood, ConstantsAssumption DEF Listed, ConstantsAssumption
<1>3. reqs \in Seq(GoodWrite)
  BY <1>2
<1>4. <<ProfileWrite(u, p, q)>> \o reqs \in Seq(GoodWrite)
  BY <1>1, <1>3, ConcatProperties
<1>5. QED
  BY <1>4 DEF SaveData

\* The same of data that this step has made good.
LEMMA SaveDataTurnsGood ==
    ASSUME NEW u \in Uuid, NEW p \in GoodProfile(u)', NEW q \in Profile,
           NEW rs, Listed(rs) \subseteq Senders(u)'
    PROVE  SaveData(u, p, q, rs) \in Seq(GoodWrite')
<1> DEFINE w1 == ProfileWrite(u, p, q)
           w2 == RequestWrite("setRequests", u, Listed(rs), 0)
<1>1. p \in Profile /\ Blank \in Profile /\ Listed(rs) \in SUBSET Uuid
  BY BlankIsGood DEF GoodProfile, Listed
<1>2. w1 \in Write /\ w1.kind = "profile" /\ w1.val = p /\ w1.of = u
  BY <1>1, ConstantsAssumption DEF ProfileWrite, Write, ConstantsAssumption
<1>3. w2 \in Write /\ w2.kind = "setRequests" /\ w2.who = Listed(rs) /\ w2.of = u
  BY <1>1, ConstantsAssumption DEF RequestWrite, Write, ConstantsAssumption
<1>4. SaveData(u, p, q, rs) = <<w1>> \o (IF Listed(rs) = {} THEN <<>> ELSE <<w2>>)
  BY DEF SaveData
<1> HIDE DEF w1, w2
<1>5. w1 \in GoodWrite' /\ w2 \in GoodWrite'
  BY <1>2, <1>3 DEF GoodWrite
<1> DEFINE ws == IF Listed(rs) = {} THEN <<>> ELSE <<w2>>
<1>6. <<w1>> \in Seq(GoodWrite') /\ ws \in Seq(GoodWrite')
  BY <1>5
<1> HIDE DEF ws
<1>7. <<w1>> \o ws \in Seq(GoodWrite')
  BY <1>6, ConcatProperties
<1>8. QED
  BY <1>4, <1>7 DEF ws

-----------------------------------------------------------------------------
(* Reads: what a device sees through its pending writes is good. *)

\* The answer of a lookup is a good profile, and the requests found were sent.
LEMMA ViewsAreGood ==
    ASSUME IInv, NEW u \in Uuid
    PROVE  /\ \A v \in Uuid : ProfileView(u, v) \in GoodProfile(v)
           /\ InboxView(u) \subseteq Senders(u)
<1>1. \A i \in DOMAIN queue[u] : queue[u][i] \in GoodWrite
  BY ElementOfSeq, LenProperties DEF IInv
<1>2. ASSUME NEW v \in Uuid PROVE ProfileView(u, v) \in GoodProfile(v)
  <2> DEFINE last == Last({i \in DOMAIN queue[u] :
                             queue[u][i].kind = "profile" /\ queue[u][i].of = v})
  <2>1. CASE last = {}
    BY <2>1 DEF ProfileView, IInv, GoodProfiles
  <2>2. CASE last # {}
    <3>1. PICK i \in last : i = CHOOSE j \in last : TRUE
      BY <2>2
    <3>2. i \in DOMAIN queue[u] /\ queue[u][i].kind = "profile" /\ queue[u][i].of = v
      BY DEF Last
    <3>3. queue[u][i].val \in GoodProfile(v)
      BY <1>1, <3>2 DEF GoodWrite
    <3>4. QED
      BY <2>2, <3>1, <3>3 DEF ProfileView
  <2>3. QED
    BY <2>1, <2>2
<1>3. ASSUME NEW w \in InboxView(u) PROVE w \in Senders(u)
  <2> DEFINE last == Last({i \in DOMAIN queue[u] :
                             /\ queue[u][i].kind # "profile"
                             /\ queue[u][i].of = u
                             /\ w \in queue[u][i].who})
  <2>1. CASE w \in inbox[u]
    BY <2>1 DEF IInv, GoodRequests
  <2>2. CASE \E i \in last : queue[u][i].kind = "setRequests"
    <3>1. PICK i \in last : queue[u][i].kind = "setRequests"
      BY <2>2
    <3>2. i \in DOMAIN queue[u] /\ queue[u][i].of = u /\ w \in queue[u][i].who
      BY DEF Last
    <3>3. QED
      BY <1>1, <3>1, <3>2 DEF GoodWrite
  <2>3. QED
    BY <2>1, <2>2 DEF InboxView
<1>4. QED
  BY <1>2, <1>3

-----------------------------------------------------------------------------
(* The frames of the steps *)

\* A listener event is for a device.
LEMMA NoticeType ==
    ASSUME TypeOK, NoticeInboxes
    PROVE  due' \in SUBSET Uuid
BY DEF TypeOK, NoticeInboxes

\* Replacing one device's queue by good writes keeps all queues good.
LEMMA QueueStaysGood ==
    ASSUME IInv, HistoryGrows, NEW u \in Uuid, NEW q \in Seq(GoodWrite'),
           queue' = [queue EXCEPT ![u] = q]
    PROVE  /\ queue' \in [Uuid -> Seq(Write)]
           /\ \A v \in Uuid : queue'[v] \in Seq(GoodWrite')
<1>1. \A v \in Uuid : queue[v] \in Seq(GoodWrite')
  BY GoodStaysGood DEF IInv
<1>2. \A v \in Uuid : queue'[v] \in Seq(GoodWrite')
  BY <1>1 DEF IInv, TypeOK
<1>3. GoodWrite' \subseteq Write
  BY DEF GoodWrite
<1>4. q \in Seq(Write)
  BY <1>3, SeqMonotonic
<1>5. queue' \in [Uuid -> Seq(Write)]
  BY <1>4 DEF IInv, TypeOK
<1>6. QED
  BY <1>2, <1>5

\* Queues that no handler touches stay good.
LEMMA QueueUnchanged ==
    ASSUME IInv, HistoryGrows, queue' = queue
    PROVE  /\ queue' \in [Uuid -> Seq(Write)]
           /\ \A v \in Uuid : queue'[v] \in Seq(GoodWrite')
BY GoodStaysGood DEF IInv, TypeOK

\* Good writes put behind a device's pending ones.
LEMMA EnqueueIsGood ==
    ASSUME IInv, HistoryGrows, NEW u \in Uuid, NEW ws \in Seq(GoodWrite'),
           queue' = [queue EXCEPT ![u] = @ \o ws]
    PROVE  /\ queue' \in [Uuid -> Seq(Write)]
           /\ \A v \in Uuid : queue'[v] \in Seq(GoodWrite')
<1>1. queue[u] \in Seq(GoodWrite')
  BY GoodStaysGood DEF IInv
<1>2. queue[u] \o ws \in Seq(GoodWrite')
  BY <1>1, ConcatProperties
<1>3. QED
  BY <1>2, QueueStaysGood

\* Calls that go on, or become good ones, are good.
LEMMA CallsStayGood ==
    ASSUME IInv, HistoryGrows
    PROVE  /\ \A c \in calls : Ends(c) => calls' \subseteq GoodCall'
           /\ \A c \in calls, d \in GoodCall' : Becomes(c, d) => calls' \subseteq GoodCall'
           /\ calls' = calls => calls' \subseteq GoodCall'
BY GoodStaysGood DEF IInv, Ends, Becomes

\* A call begins well when an accept is of someone who has asked.
LEMMA BeginIsGood ==
    ASSUME IInv, UNCHANGED history, NEW u \in Uuid, NEW v \in Uuid,
           NEW op \in Lookups \cup {"load"}, Begin(u, op, v),
           op = "login" => v = u, op = "accept" => v \in Senders(u)
    PROVE  calls' \subseteq GoodCall'
<1>1. PICK s \in FreeSlots(u) : s = CHOOSE t \in FreeSlots(u) : TRUE
  BY DEF Begin
<1>2. s \in 1..MaxCalls
  BY DEF FreeSlots
<1>3. Blank \in Profile /\ Blank \in GoodProfile(v)
  BY BlankIsGood
<1>4. NewCall(u, op, v) \in GoodCall
  BY <1>1, <1>2, <1>3 DEF NewCall, GoodCall, Call
<1>5. calls \cup {NewCall(u, op, v)} \subseteq GoodCall'
  BY <1>4, GoodStaysGood DEF HistoryGrows, history, IInv
<1>6. QED
  BY <1>5 DEF Begin

-----------------------------------------------------------------------------
(* Steps that change neither documents nor history *)

\* All but the queue and the calls of a step that leaves profiles and requests
\* alone.
LEMMA QuietStep ==
    ASSUME IInv, UNCHANGED <<server, loggedIn, me, requests, history>>,
           causes' \in CausesType, due' \in SUBSET Uuid, taps' \in 0..MaxTaps, faults' \in 0..MaxFaults,
           base' \in [Uuid -> Profile],
           queue' \in [Uuid -> Seq(Write)],
           \A u \in Uuid : queue'[u] \in Seq(GoodWrite'),
           calls' \subseteq GoodCall'
    PROVE  IInv'
<1>1. TypeOK'
  BY DEF IInv, TypeOK, server, history, GoodCall, CausesType
<1>2. GoodProfiles' /\ GoodRequests'
  BY DEF IInv, GoodProfiles, GoodRequests, GoodProfile, FriendsMet, Met, Senders,
         Listed, server, history
<1>3. QED
  BY <1>1, <1>2 DEF IInv

\* What a completion may rely on about its call.
LEMMA CallInCalls ==
    ASSUME IInv, NEW c \in calls
    PROVE  /\ c \in GoodCall
           /\ c \in Call
           /\ c.dev \in Uuid /\ c.peer \in Uuid /\ c.slot \in 1..MaxCalls
           /\ c.snap \in GoodProfile(c.peer) /\ c.snap \in Profile
BY DEF IInv, GoodCall, Call

\* A tap on the friends screen keeps the invariant.
LEMMA TapKeepsInv ==
    ASSUME IInv, NEW u \in Uuid, NEW v \in Uuid, NEW op \in Lookups \ {"login"},
           Tap(u, op, v), op = "accept" => requests[u][v] > 0
    PROVE  IInv'
<1>1. op = "accept" => v \in Senders(u)
  BY DEF IInv, GoodRequests, Listed
<1>2. calls' \subseteq GoodCall'
  BY <1>1, BeginIsGood DEF Tap
<1>3. taps' \in 0..MaxTaps
  BY ConstantsAssumption DEF Tap, IInv, TypeOK, ConstantsAssumption
<1>4. /\ queue' \in [Uuid -> Seq(Write)]
      /\ \A w \in Uuid : queue'[w] \in Seq(GoodWrite')
  BY QueueUnchanged DEF Tap, HistoryGrows, history
<1>5. QED
  BY <1>2, <1>3, <1>4, QuietStep DEF Tap, IInv, TypeOK, server, device, CausesType

\* The login button keeps the invariant.
LEMMA LogInButtonTappedKeepsInv ==
    ASSUME IInv, NEW u \in Uuid, LogInButtonTapped(u)
    PROVE  IInv'
<1>1. calls' \subseteq GoodCall'
  BY BeginIsGood DEF LogInButtonTapped, Lookups
<1>2. /\ queue' \in [Uuid -> Seq(Write)]
      /\ \A w \in Uuid : queue'[w] \in Seq(GoodWrite')
  BY QueueUnchanged DEF LogInButtonTapped, HistoryGrows, history
<1>3. QED
  BY <1>1, <1>2, QuietStep DEF LogInButtonTapped, IInv, TypeOK, server, device, budget, CausesType

\* The snapshot listener keeps the invariant.
LEMMA ListenerFiresKeepsInv ==
    ASSUME IInv, NEW u \in Uuid, ListenerFires(u)
    PROVE  IInv'
<1>1. HistoryGrows
  BY DEF ListenerFires, HistoryGrows, history
<1>2. calls' \subseteq GoodCall'
  <2>1. CASE InboxView(u) = {}
    BY <1>1, <2>1, CallsStayGood DEF ListenerFires
  <2>2. CASE InboxView(u) # {}
    BY <2>2, BeginIsGood DEF ListenerFires
  <2>3. QED
    BY <2>1, <2>2
<1>3. /\ queue' \in [Uuid -> Seq(Write)]
      /\ \A w \in Uuid : queue'[w] \in Seq(GoodWrite')
  BY <1>1, QueueUnchanged DEF ListenerFires
<1>4. due' \in SUBSET Uuid
  BY DEF ListenerFires, IInv, TypeOK
<1>5. QED
  BY <1>2, <1>3, <1>4, QuietStep DEF ListenerFires, IInv, TypeOK, server, device, budget, CausesType

\* The answer of the server keeps the invariant.
LEMMA AnswerKeepsInv ==
    ASSUME IInv, NEW c \in calls, Answer(c)
    PROVE  IInv'
<1>1. HistoryGrows
  BY DEF Answer, HistoryGrows, history
<1>2. c \in GoodCall /\ c \in Call /\ c.dev \in Uuid /\ c.peer \in Uuid
  BY CallInCalls
<1>3. ProfileView(c.dev, c.peer) \in GoodProfile(c.peer) /\ InboxView(c.dev) \subseteq Senders(c.dev)
  BY <1>2, ViewsAreGood
<1>4. calls' \subseteq GoodCall'
  <2>1. CASE c.op # "load"
    <3> DEFINE d == [c EXCEPT !.phase = "answered", !.snap = ProfileView(c.dev, c.peer)]
    <3>1. d \in GoodCall
      BY <1>2, <1>3 DEF GoodCall, Call, GoodProfile
    <3>2. d \in GoodCall'
      BY <1>1, <3>1, GoodStaysGood
    <3>3. QED
      BY <1>1, <2>1, <3>2, CallsStayGood DEF Answer
  <2>2. CASE c.op = "load"
    <3> DEFINE d == [c EXCEPT !.phase = "answered", !.found = InboxView(c.dev)]
    <3>1. d \in GoodCall
      BY <1>2, <1>3 DEF GoodCall, Call, Senders
    <3>2. d \in GoodCall'
      BY <1>1, <3>1, GoodStaysGood
    <3>3. QED
      BY <1>1, <2>2, <3>2, CallsStayGood DEF Answer
  <2>3. QED
    BY <2>1, <2>2
<1>5. /\ queue' \in [Uuid -> Seq(Write)]
      /\ \A w \in Uuid : queue'[w] \in Seq(GoodWrite')
  BY <1>1, QueueUnchanged DEF Answer
<1>6. QED
  BY <1>4, <1>5, QuietStep DEF Answer, IInv, TypeOK, server, device, budget, CausesType

\* A failed lookup keeps the invariant.
LEMMA LookupFailsKeepsInv ==
    ASSUME IInv, NEW c \in calls, LookupFails(c)
    PROVE  IInv'
<1>1. HistoryGrows
  BY DEF LookupFails, HistoryGrows, history
<1>2. calls' \subseteq GoodCall'
  BY <1>1, CallsStayGood DEF LookupFails
<1>3. faults' \in 0..MaxFaults
  BY ConstantsAssumption DEF LookupFails, IInv, TypeOK, ConstantsAssumption
<1>4. /\ queue' \in [Uuid -> Seq(Write)]
      /\ \A w \in Uuid : queue'[w] \in Seq(GoodWrite')
  BY <1>1, QueueUnchanged DEF LookupFails
<1>5. QED
  BY <1>2, <1>3, <1>4, QuietStep DEF LookupFails, IInv, TypeOK, server, device, CausesType

\* acceptFriendRequest up to the deletion keeps the invariant.
LEMMA AcceptFriendRequestKeepsInv ==
    ASSUME IInv, NEW c \in calls, AcceptFriendRequest(c)
    PROVE  IInv'
<1>1. HistoryGrows
  BY DEF AcceptFriendRequest, HistoryGrows, history
<1>2. c \in GoodCall /\ c \in Call /\ c.dev \in Uuid /\ c.peer \in Uuid /\ c.slot \in 0..MaxCalls
  BY CallInCalls
<1> DEFINE e == RequestWrite("deleteRequest", c.dev, {c.peer}, c.slot)
           d == [c EXCEPT !.phase = "deleting"]
<1>3. d \in GoodCall
  BY <1>2 DEF GoodCall, Call, AcceptFriendRequest, Answered
<1>4. calls' \subseteq GoodCall'
  BY <1>1, <1>3, CallsStayGood, GoodStaysGood DEF AcceptFriendRequest
<1>5. e \in GoodWrite'
  BY <1>1, <1>2, RequestWriteIsGood, GoodStaysGood
<1>6. queue[c.dev] \in Seq(GoodWrite')
  BY <1>1, <1>2, GoodStaysGood DEF IInv
<1>7. Append(queue[c.dev], e) \in Seq(GoodWrite')
  BY <1>5, <1>6, AppendProperties
<1>8. queue' = [queue EXCEPT ![c.dev] = Append(queue[c.dev], e)]
  BY DEF AcceptFriendRequest
<1>9. /\ queue' \in [Uuid -> Seq(Write)]
      /\ \A w \in Uuid : queue'[w] \in Seq(GoodWrite')
  BY <1>1, <1>2, <1>7, <1>8, QueueStaysGood
<1>10. due' \in SUBSET Uuid
  BY NoticeType DEF AcceptFriendRequest, IInv
<1>11. QED
  BY <1>4, <1>9, <1>10, QuietStep DEF AcceptFriendRequest, IInv, TypeOK, server, device, budget, CausesType

-----------------------------------------------------------------------------
(* Completions that change currentUser *)

\* A step that leaves the server alone and replaces the currentUser of u by good
\* data, while the history grows.
LEMMA CurrentUserStep ==
    ASSUME IInv, HistoryGrows, UNCHANGED server,
           taps' \in 0..MaxTaps, faults' \in 0..MaxFaults,
           NEW u \in Uuid,
           NEW p \in GoodProfile(u)', me' = [me EXCEPT ![u] = p],
           NEW rs \in [Uuid -> Nat], Listed(rs) \subseteq Senders(u)',
           requests' = [requests EXCEPT ![u] = rs],
           NEW b \in Profile, base' = [base EXCEPT ![u] = b],
           loggedIn' \in SUBSET Uuid, due' \in SUBSET Uuid, causes' \in CausesType,
           sent' \in SUBSET (Uuid \X Uuid), accepted' \in SUBSET (Uuid \X Uuid),
           blockedBy' \in SUBSET (Uuid \X Uuid),
           dropped' \in SUBSET (Uuid \X Uuid), accepted' \subseteq sent',
           queue' \in [Uuid -> Seq(Write)],
           \A v \in Uuid : queue'[v] \in Seq(GoodWrite'),
           calls' \subseteq GoodCall'
    PROVE  IInv'
<1>1. p \in Profile
  BY DEF GoodProfile
<1>2. TypeOK'
  BY <1>1 DEF IInv, TypeOK, server, GoodCall, CausesType
<1>3. GoodProfiles'
  <2>1. \A v \in Uuid : docs'[v] \in GoodProfile(v)'
    BY GoodStaysGood DEF IInv, GoodProfiles, server
  <2>2. \A v \in Uuid : me'[v] \in GoodProfile(v)'
    BY GoodStaysGood DEF IInv, GoodProfiles, TypeOK
  <2>3. QED
    BY <2>1, <2>2 DEF GoodProfiles
<1>4. GoodRequests'
  <2>1. \A v \in Uuid : inbox'[v] \subseteq Senders(v)'
    BY GoodStaysGood DEF IInv, GoodRequests, server
  <2>2. \A v \in Uuid : Listed(requests[v]) \subseteq Senders(v)'
    BY GoodStaysGood DEF IInv, GoodRequests
  <2>3. \A v \in Uuid : requests'[v] = IF v = u THEN rs ELSE requests[v]
    BY DEF IInv, TypeOK
  <2>4. \A v \in Uuid : Listed(requests'[v]) \subseteq Senders(v)'
    BY <2>2, <2>3
  <2>5. \A v \in Uuid : Listed(requests[v])' = Listed(requests'[v])
    BY DEF Listed
  <2>6. QED
    BY <2>1, <2>4, <2>5 DEF GoodRequests
<1>5. QED
  BY <1>2, <1>3, <1>4 DEF IInv

\* Steps that are neither taps nor faults keep the bounds' type.
LEMMA BudgetStays ==
    ASSUME IInv, UNCHANGED budget
    PROVE  taps' \in 0..MaxTaps /\ faults' \in 0..MaxFaults
BY DEF IInv, TypeOK, budget

\* The assignment of currentUser keeps the invariant.
LEMMA LoggedInKeepsInv ==
    ASSUME IInv, NEW c \in calls, LoggedIn(c)
    PROVE  IInv'
<1>1. HistoryGrows
  BY DEF LoggedIn, HistoryGrows, history
<1>2. /\ c.dev \in Uuid /\ c.peer = c.dev
      /\ c.snap \in GoodProfile(c.dev) /\ c.snap \in Profile
  BY CallInCalls DEF GoodCall, LoggedIn, Answered
<1>3. c.snap \in GoodProfile(c.dev)'
  BY <1>1, <1>2, GoodStaysGood
<1>4. NoFriends \in [Uuid -> Nat] /\ Listed(NoFriends) \subseteq Senders(c.dev)'
  BY DEF NoFriends, Listed
<1>5. loggedIn' \in SUBSET Uuid /\ due' \in SUBSET Uuid
  BY <1>2 DEF LoggedIn, IInv, TypeOK
<1>6. calls' \subseteq GoodCall'
  BY <1>1, CallsStayGood DEF LoggedIn
<1>7. /\ queue' \in [Uuid -> Seq(Write)]
      /\ \A v \in Uuid : queue'[v] \in Seq(GoodWrite')
  BY <1>1, QueueUnchanged DEF LoggedIn
<1>8. /\ causes' \in CausesType
      /\ sent' \in SUBSET (Uuid \X Uuid) /\ accepted' \in SUBSET (Uuid \X Uuid)
      /\ blockedBy' \in SUBSET (Uuid \X Uuid)
      /\ dropped' \in SUBSET (Uuid \X Uuid) /\ accepted' \subseteq sent'
  BY DEF LoggedIn, history, IInv, TypeOK, GoodRequests, CausesType
<1>9. /\ me' = [me EXCEPT ![c.dev] = c.snap]
      /\ base' = [base EXCEPT ![c.dev] = c.snap]
      /\ requests' = [requests EXCEPT ![c.dev] = NoFriends]
      /\ UNCHANGED <<server, budget>>
  BY DEF LoggedIn
<1>10. QED
  BY <1>1, <1>2, <1>3, <1>4, <1>5, <1>6, <1>7, <1>8, <1>9, BudgetStays, CurrentUserStep

\* loadCurrentFriendRequests keeps the invariant.
LEMMA RequestsLoadedKeepsInv ==
    ASSUME IInv, NEW c \in calls, RequestsLoaded(c)
    PROVE  IInv'
<1> DEFINE u == c.dev
           rs == Appended(requests[u], c.found)
<1>1. HistoryGrows
  BY DEF RequestsLoaded, HistoryGrows, history
<1>2. u \in Uuid /\ c.found \subseteq Senders(u)
  BY CallInCalls DEF GoodCall
<1>3. me[u] \in GoodProfile(u)' /\ base[u] \in Profile
  BY <1>1, <1>2, GoodStaysGood DEF IInv, GoodProfiles, TypeOK
<1>4. requests[u] \in [Uuid -> Nat] /\ Listed(requests[u]) \subseteq Senders(u)
  BY <1>2 DEF IInv, TypeOK, GoodRequests
<1>5. rs \in [Uuid -> Nat]
  BY <1>4 DEF Appended
<1>6. Listed(rs) \subseteq Senders(u)'
  <2>1. \A w \in Uuid : rs[w] > 0 => w \in c.found \/ requests[u][w] > 0
    BY DEF Appended
  <2>2. Listed(rs) \subseteq Senders(u)
    BY <1>2, <1>4, <2>1 DEF Listed
  <2>3. QED
    BY <1>1, <1>2, <2>2, GoodStaysGood
<1>7. calls' \subseteq GoodCall'
  BY <1>1, CallsStayGood DEF RequestsLoaded
<1>8. /\ queue' \in [Uuid -> Seq(Write)]
      /\ \A v \in Uuid : queue'[v] \in Seq(GoodWrite')
  BY <1>1, QueueUnchanged DEF RequestsLoaded
<1>9. /\ causes' \in CausesType /\ loggedIn' \in SUBSET Uuid /\ due' \in SUBSET Uuid
      /\ sent' \in SUBSET (Uuid \X Uuid) /\ accepted' \in SUBSET (Uuid \X Uuid)
      /\ blockedBy' \in SUBSET (Uuid \X Uuid)
      /\ dropped' \in SUBSET (Uuid \X Uuid) /\ accepted' \subseteq sent'
  BY DEF RequestsLoaded, history, IInv, TypeOK, GoodRequests, CausesType
<1>10. /\ me' = [me EXCEPT ![u] = me[u]]
       /\ base' = [base EXCEPT ![u] = base[u]]
       /\ requests' = [requests EXCEPT ![u] = rs]
       /\ UNCHANGED <<server, budget>>
  BY DEF RequestsLoaded, IInv, TypeOK
<1>11. QED
  BY <1>1, <1>2, <1>3, <1>5, <1>6, <1>7, <1>8, <1>9, <1>10, BudgetStays, CurrentUserStep

\* What is known of the device of a call and of its currentUser.
LEMMA CurrentUserIsGood ==
    ASSUME IInv, NEW c \in calls
    PROVE  /\ me[c.dev] \in GoodProfile(c.dev) /\ me[c.dev] \in Profile
           /\ base[c.dev] \in Profile
           /\ requests[c.dev] \in [Uuid -> Nat]
           /\ Listed(requests[c.dev]) \subseteq Senders(c.dev)
BY CallInCalls DEF IInv, GoodProfiles, GoodRequests, TypeOK

\* sendFriendRequest keeps the invariant.
LEMMA SendFriendRequestKeepsInv ==
    ASSUME IInv, NEW c \in calls, SendFriendRequest(c)
    PROVE  IInv'
<1> DEFINE u == c.dev
           e == RequestDoc(u, c.peer)
<1>1. c.dev \in Uuid /\ c.peer \in Uuid
  BY CallInCalls
<1>2. HistoryGrows
  BY DEF SendFriendRequest, HistoryGrows
<1>3. /\ queue' \in [Uuid -> Seq(Write)]
      /\ \A v \in Uuid : queue'[v] \in Seq(GoodWrite')
  <2>1. CASE me[u].friends[c.peer] > 0
    BY <1>2, <2>1, QueueUnchanged DEF SendFriendRequest
  <2>2. CASE ~ (me[u].friends[c.peer] > 0)
    <3>1. queue' = [queue EXCEPT ![u] = Append(queue[u], e)]
      BY <2>2 DEF SendFriendRequest
    <3>2. u \in Senders(c.peer)'
      BY <1>1, <2>2 DEF SendFriendRequest, Senders
    <3>3. e \in GoodWrite'
      <4>1. e \in Write /\ e.kind = "setRequests" /\ e.who = {u} /\ e.of = c.peer
        BY <1>1, BlankIsGood, ConstantsAssumption
           DEF RequestDoc, RequestWrite, Write, ConstantsAssumption
      <4>2. QED
        BY <3>2, <4>1 DEF GoodWrite
    <3>4. queue[u] \in Seq(GoodWrite')
      BY <1>1, <1>2, GoodStaysGood DEF IInv
    <3>5. Append(queue[u], e) \in Seq(GoodWrite')
      BY <3>3, <3>4, AppendProperties
    <3>6. QED
      BY <1>1, <1>2, <3>1, <3>5, QueueStaysGood
  <2>3. QED
    BY <2>1, <2>2
<1>4. /\ me[u] \in GoodProfile(u)' /\ base[u] \in Profile
      /\ requests[u] \in [Uuid -> Nat] /\ Listed(requests[u]) \subseteq Senders(u)'
  BY <1>1, <1>2, CurrentUserIsGood, GoodStaysGood
<1>5. calls' \subseteq GoodCall'
  BY <1>2, CallsStayGood DEF SendFriendRequest
<1>6. due' \in SUBSET Uuid
  BY NoticeType DEF SendFriendRequest, IInv
<1>7. sent' \in SUBSET (Uuid \X Uuid)
  BY <1>1 DEF SendFriendRequest, IInv, TypeOK
<1>8. /\ causes' \in CausesType /\ loggedIn' \in SUBSET Uuid
      /\ accepted' \in SUBSET (Uuid \X Uuid) /\ blockedBy' \in SUBSET (Uuid \X Uuid)
      /\ dropped' \in SUBSET (Uuid \X Uuid) /\ accepted' \subseteq sent'
  BY <1>2 DEF SendFriendRequest, device, IInv, TypeOK, GoodRequests, CausesType, HistoryGrows
<1>9. /\ me' = [me EXCEPT ![u] = me[u]]
      /\ base' = [base EXCEPT ![u] = base[u]]
      /\ requests' = [requests EXCEPT ![u] = requests[u]]
      /\ UNCHANGED <<server, budget>>
  BY DEF SendFriendRequest, device, IInv, TypeOK
<1>10. QED
  BY <1>1, <1>2, <1>3, <1>4, <1>5, <1>6, <1>7, <1>8, <1>9, BudgetStays, CurrentUserStep

\* The list that is left when a listed request is taken off it.
LEMMA RestIsGood ==
    ASSUME NEW rs \in [Uuid -> Nat], NEW w \in Uuid, rs[w] # 0
    PROVE  /\ [rs EXCEPT ![w] = @ - 1] \in [Uuid -> Nat]
           /\ Listed([rs EXCEPT ![w] = @ - 1]) \subseteq Listed(rs)
BY DEF Listed

\* ignoreFriendRequest keeps the invariant.
LEMMA IgnoreFriendRequestKeepsInv ==
    ASSUME IInv, NEW c \in calls, IgnoreFriendRequest(c)
    PROVE  IInv'
<1> DEFINE u == c.dev
           rest == [requests[u] EXCEPT ![c.peer] = @ - 1]
           gone == <<RequestWrite("deleteRequest", u, {c.peer}, 0)>>
           saved == SaveData(u, me[u], base[u], rest)
<1>1. c.dev \in Uuid /\ c.peer \in Uuid
  BY CallInCalls
<1>2. HistoryGrows /\ UNCHANGED <<server, budget, loggedIn, me, sent, accepted, blockedBy, causes>>
  BY DEF IgnoreFriendRequest, HistoryGrows, history
<1>3. /\ me[u] \in GoodProfile(u) /\ me[u] \in GoodProfile(u)'
      /\ me[u] \in Profile /\ base[u] \in Profile
      /\ requests[u] \in [Uuid -> Nat]
      /\ Listed(requests[u]) \subseteq Senders(u) /\ Senders(u) \subseteq Senders(u)'
  BY <1>1, <1>2, CurrentUserIsGood, GoodStaysGood
<1>4. calls' \subseteq GoodCall'
  BY <1>2, CallsStayGood DEF IgnoreFriendRequest
<1>5. due' \in SUBSET Uuid
  BY NoticeType DEF IgnoreFriendRequest, IInv
<1>6. /\ causes' \in CausesType /\ loggedIn' \in SUBSET Uuid
      /\ sent' \in SUBSET (Uuid \X Uuid) /\ accepted' \in SUBSET (Uuid \X Uuid)
      /\ blockedBy' \in SUBSET (Uuid \X Uuid)
      /\ dropped' \in SUBSET (Uuid \X Uuid) /\ accepted' \subseteq sent'
  <2>1. dropped' = dropped \/ dropped' = dropped \cup {<<c.peer, u>>}
    BY DEF IgnoreFriendRequest
  <2>2. dropped' \in SUBSET (Uuid \X Uuid)
    BY <1>1, <2>1 DEF IInv, TypeOK
  <2>3. QED
    BY <1>2, <2>2 DEF IInv, TypeOK, GoodRequests, CausesType
<1>7. me' = [me EXCEPT ![u] = me[u]]
  BY <1>2 DEF IInv, TypeOK
<1>8. CASE requests[u][c.peer] = 0
  <2>1. queue' = queue /\ requests' = requests /\ base' = base
    BY <1>8 DEF IgnoreFriendRequest, Unlisted
  <2>2. /\ queue' \in [Uuid -> Seq(Write)]
        /\ \A v \in Uuid : queue'[v] \in Seq(GoodWrite')
    BY <1>2, <2>1, QueueUnchanged
  <2>3. /\ base' = [base EXCEPT ![u] = base[u]]
        /\ requests' = [requests EXCEPT ![u] = requests[u]]
    BY <2>1 DEF IInv, TypeOK
  <2>4. QED
    BY <1>1, <1>2, <1>3, <1>4, <1>5, <1>6, <1>7, <2>2, <2>3, BudgetStays, CurrentUserStep
<1>9. CASE requests[u][c.peer] # 0
  <2>1. /\ queue' = [queue EXCEPT ![u] = @ \o gone \o saved]
        /\ requests' = [requests EXCEPT ![u] = rest]
        /\ base' = [base EXCEPT ![u] = me[u]]
    BY <1>9 DEF IgnoreFriendRequest, Unlisted
  <2>2. rest \in [Uuid -> Nat] /\ Listed(rest) \subseteq Senders(u)
    BY <1>1, <1>3, <1>9, RestIsGood
  <2>3. RequestWrite("deleteRequest", u, {c.peer}, 0) \in GoodWrite
    BY <1>1, RequestWriteIsGood, ConstantsAssumption DEF ConstantsAssumption
  <2>4. saved \in Seq(GoodWrite)
    BY <1>1, <1>3, <2>2, SaveDataIsGood
  <2>5. queue[u] \o gone \o saved \in Seq(GoodWrite')
    <3>1. queue[u] \o gone \in Seq(GoodWrite)
      BY <1>1, <2>3, ConcatProperties DEF IInv
    <3>2. queue[u] \o gone \o saved \in Seq(GoodWrite)
      BY <2>4, <3>1, ConcatProperties
    <3>3. QED
      BY <1>2, <3>2, GoodStaysGood
  <2>6. /\ queue' \in [Uuid -> Seq(Write)]
        /\ \A v \in Uuid : queue'[v] \in Seq(GoodWrite')
    BY <1>1, <1>2, <2>1, <2>5, QueueStaysGood
  <2>7. Listed(rest) \subseteq Senders(u)'
    BY <1>3, <2>2
  <2>8. QED
    BY <1>1, <1>2, <1>3, <1>4, <1>5, <1>6, <1>7, <2>1, <2>2, <2>6, <2>7, BudgetStays, CurrentUserStep
<1>10. QED
  BY <1>8, <1>9

\* unfriendUser leaves a good currentUser and starts good writes.
LEMMA UnfriendUserIsGood ==
    ASSUME IInv, NEW c \in calls
    PROVE  /\ UnfriendUser(c).me \in GoodProfile(c.dev)
           /\ UnfriendUser(c).base \in Profile
           /\ UnfriendUser(c).writes \in Seq(GoodWrite)
           /\ UnfriendUser(c).cause \in CausesType
<1> DEFINE u == c.dev
           mine == RemoveFriend(me[u], c.peer)
           theirs == RemoveFriend(c.snap, u)
<1>1. /\ u \in Uuid /\ c.peer \in Uuid
      /\ c.snap \in GoodProfile(c.peer) /\ c.snap \in Profile
  BY CallInCalls
<1>2. /\ me[u] \in GoodProfile(u) /\ base[u] \in Profile
      /\ Listed(requests[u]) \subseteq Senders(u)
  BY CurrentUserIsGood
<1>3. CASE me[u].friends[c.peer] = 0
  BY <1>2, <1>3 DEF UnfriendUser, CausesType
<1>4. CASE me[u].friends[c.peer] # 0 /\ c.snap.friends[u] = 0
  <2>1. mine \in GoodProfile(u)
    BY <1>1, <1>2, <1>4, RemoveKeepsGood
  <2>2. QED
    BY <1>1, <1>2, <1>4, <2>1 DEF UnfriendUser, CausesType
<1>5. CASE me[u].friends[c.peer] # 0 /\ c.snap.friends[u] # 0
  <2>1. mine \in GoodProfile(u) /\ mine \in Profile
    BY <1>1, <1>2, <1>5, RemoveKeepsGood DEF GoodProfile
  <2>2. theirs \in GoodProfile(c.peer)
    BY <1>1, <1>5, RemoveKeepsGood
  <2>3. SaveUser(u, c.peer, theirs, c.snap) \in Seq(GoodWrite)
    BY <1>1, <2>2, SaveUserIsGood
  <2>4. SaveData(u, mine, base[u], requests[u]) \in Seq(GoodWrite)
    BY <1>1, <1>2, <2>1, SaveDataIsGood
  <2>5. SaveUser(u, c.peer, theirs, c.snap) \o SaveData(u, mine, base[u], requests[u])
            \in Seq(GoodWrite)
    BY <2>3, <2>4, ConcatProperties
  <2>6. QED
    BY <1>5, <2>1, <2>5 DEF UnfriendUser, CausesType
<1>6. QED
  BY <1>3, <1>4, <1>5

\* unfriendUser keeps the invariant.
LEMMA UnfriendedKeepsInv ==
    ASSUME IInv, NEW c \in calls, Unfriended(c)
    PROVE  IInv'
<1> DEFINE u == c.dev
           r == UnfriendUser(c)
<1>1. u \in Uuid
  BY CallInCalls
<1>2. HistoryGrows /\ UNCHANGED <<server, budget, loggedIn, requests, history>>
  BY DEF Unfriended, HistoryGrows, history
<1>3. /\ r.me \in GoodProfile(u)' /\ r.base \in Profile
      /\ r.writes \in Seq(GoodWrite') /\ r.cause \in CausesType
  BY <1>1, <1>2, UnfriendUserIsGood, GoodStaysGood
<1>4. /\ requests[u] \in [Uuid -> Nat] /\ Listed(requests[u]) \subseteq Senders(u)'
  BY <1>1, <1>2, CurrentUserIsGood, GoodStaysGood
<1>5. calls' \subseteq GoodCall' /\ due' \in SUBSET Uuid
  BY <1>2, CallsStayGood, NoticeType DEF Unfriended, IInv
<1>6. /\ me' = [me EXCEPT ![u] = r.me]
      /\ base' = [base EXCEPT ![u] = r.base]
      /\ queue' = [queue EXCEPT ![u] = @ \o r.writes]
      /\ causes' = causes \cup r.cause
  BY DEF Unfriended
<1>7. requests' = [requests EXCEPT ![u] = requests[u]]
  BY <1>2 DEF IInv, TypeOK
<1>8. /\ queue' \in [Uuid -> Seq(Write)]
      /\ \A v \in Uuid : queue'[v] \in Seq(GoodWrite')
  BY <1>1, <1>2, <1>3, <1>6, EnqueueIsGood
<1>9. /\ causes' \in CausesType /\ loggedIn' \in SUBSET Uuid
      /\ sent' \in SUBSET (Uuid \X Uuid) /\ accepted' \in SUBSET (Uuid \X Uuid)
      /\ blockedBy' \in SUBSET (Uuid \X Uuid)
      /\ dropped' \in SUBSET (Uuid \X Uuid) /\ accepted' \subseteq sent'
  BY <1>2, <1>3, <1>6 DEF IInv, TypeOK, GoodRequests, CausesType, history
<1>10. QED
  BY <1>1, <1>2, <1>3, <1>4, <1>5, <1>6, <1>7, <1>8, <1>9, BudgetStays, CurrentUserStep

\* blockUser keeps the invariant.
LEMMA BlockUserKeepsInv ==
    ASSUME IInv, NEW c \in calls, BlockUser(c)
    PROVE  IInv'
<1> DEFINE u == c.dev
           r == UnfriendUser(c)
           mine == [r.me EXCEPT !.blocked = @ \cup {c.peer}]
           saved == SaveData(u, mine, r.base, requests[u])
<1>1. u \in Uuid /\ c.peer \in Uuid
  BY CallInCalls
<1>2. HistoryGrows /\ UNCHANGED <<server, budget, loggedIn, requests, sent, accepted>>
  BY DEF BlockUser, HistoryGrows
<1>3. blockedBy' = blockedBy \cup {<<u, c.peer>>}
  BY DEF BlockUser
<1>4. /\ r.me \in GoodProfile(u)' /\ r.base \in Profile
      /\ r.writes \in Seq(GoodWrite') /\ r.cause \in CausesType
  BY <1>1, <1>2, UnfriendUserIsGood, GoodStaysGood
<1>5. mine \in GoodProfile(u)' /\ mine \in Profile
  BY <1>1, <1>3, <1>4 DEF GoodProfile, Profile, FriendsMet
<1>6. requests[u] \in [Uuid -> Nat] /\ Listed(requests[u]) \subseteq Senders(u)'
  BY <1>1, <1>2, CurrentUserIsGood, GoodStaysGood
<1>7. saved \in Seq(GoodWrite')
  <2> HIDE DEF mine, r
  <2>1. QED
    BY <1>1, <1>4, <1>5, <1>6, SaveDataTurnsGood
<1>8. calls' \subseteq GoodCall' /\ due' \in SUBSET Uuid
  BY <1>2, CallsStayGood, NoticeType DEF BlockUser, IInv
<1>9. /\ me' = [me EXCEPT ![u] = mine]
      /\ base' = [base EXCEPT ![u] = mine]
      /\ queue' = [queue EXCEPT ![u] = @ \o r.writes \o saved]
      /\ causes' = causes \cup r.cause
  BY DEF BlockUser
<1>10. requests' = [requests EXCEPT ![u] = requests[u]]
  BY <1>2 DEF IInv, TypeOK
<1>11. /\ queue' \in [Uuid -> Seq(Write)]
       /\ \A v \in Uuid : queue'[v] \in Seq(GoodWrite')
  <2>1. queue[u] \in Seq(GoodWrite')
    BY <1>1, <1>2, GoodStaysGood DEF IInv
  <2>2. queue[u] \o r.writes \in Seq(GoodWrite')
    BY <1>4, <2>1, ConcatProperties
  <2>3. queue[u] \o r.writes \o saved \in Seq(GoodWrite')
    BY <1>7, <2>2, ConcatProperties
  <2>4. QED
    BY <1>1, <1>2, <1>9, <2>3, QueueStaysGood
<1>12. /\ causes' \in CausesType /\ loggedIn' \in SUBSET Uuid
       /\ sent' \in SUBSET (Uuid \X Uuid) /\ accepted' \in SUBSET (Uuid \X Uuid)
       /\ blockedBy' \in SUBSET (Uuid \X Uuid)
      /\ dropped' \in SUBSET (Uuid \X Uuid) /\ accepted' \subseteq sent'
  <2>1. causes' \in CausesType
    BY <1>4, <1>9 DEF IInv, TypeOK, CausesType
  <2>2. blockedBy' \in SUBSET (Uuid \X Uuid)
    BY <1>1, <1>3 DEF IInv, TypeOK
  <2>3. QED
    BY <1>2, <2>1, <2>2 DEF BlockUser, IInv, TypeOK, GoodRequests
<1> HIDE DEF mine, saved, r
<1>13. QED
  BY <1>1, <1>2, <1>5, <1>6, <1>8, <1>9, <1>10, <1>11, <1>12, BudgetStays, CurrentUserStep

\* The completion of the deletion in acceptFriendRequest keeps the invariant.
LEMMA RequestDeletedKeepsInv ==
    ASSUME IInv, NEW c \in calls, RequestDeleted(c)
    PROVE  IInv'
<1> DEFINE u == c.dev
           mine == AddFriend(me[u], c.peer)
           theirs == SaveUser(u, c.peer, AddFriend(c.snap, u), c.snap)
           rest == [requests[u] EXCEPT ![c.peer] = @ - 1]
           saved == SaveData(u, mine, base[u], rest)
<1>1. /\ u \in Uuid /\ c.peer \in Uuid /\ c.peer \in Senders(u)
      /\ c.snap \in GoodProfile(c.peer) /\ c.snap \in Profile
  BY CallInCalls DEF RequestDeleted, GoodCall
<1>2. HistoryGrows /\ UNCHANGED <<server, budget, loggedIn, sent, blockedBy, dropped>>
  BY DEF RequestDeleted, HistoryGrows
<1>3. /\ me[u] \in GoodProfile(u) /\ me[u] \in GoodProfile(u)'
      /\ me[u] \in Profile /\ base[u] \in Profile
      /\ requests[u] \in [Uuid -> Nat]
      /\ Listed(requests[u]) \subseteq Senders(u) /\ Senders(u) \subseteq Senders(u)'
      /\ queue[u] \in Seq(GoodWrite')
  BY <1>1, <1>2, CurrentUserIsGood, GoodStaysGood DEF IInv
<1>4. calls' \subseteq GoodCall' /\ due' \in SUBSET Uuid
  BY <1>2, CallsStayGood, NoticeType DEF RequestDeleted, IInv
<1>5. /\ loggedIn' \in SUBSET Uuid /\ sent' \in SUBSET (Uuid \X Uuid)
      /\ blockedBy' \in SUBSET (Uuid \X Uuid) /\ dropped' \in SUBSET (Uuid \X Uuid)
  BY <1>2 DEF IInv, TypeOK
<1>6. CASE AlreadyFriends(c)
  <2>1. UNCHANGED <<queue, me, requests, base, accepted, causes>>
    BY <1>6 DEF RequestDeleted
  <2>2. /\ queue' \in [Uuid -> Seq(Write)]
        /\ \A v \in Uuid : queue'[v] \in Seq(GoodWrite')
    BY <1>2, <2>1, QueueUnchanged
  <2>3. /\ me' = [me EXCEPT ![u] = me[u]]
        /\ base' = [base EXCEPT ![u] = base[u]]
        /\ requests' = [requests EXCEPT ![u] = requests[u]]
    BY <2>1 DEF IInv, TypeOK
  <2>4. causes' \in CausesType /\ accepted' \in SUBSET (Uuid \X Uuid) /\ accepted' \subseteq sent'
    BY <1>2, <2>1 DEF IInv, TypeOK, GoodRequests, CausesType
  <2>5. QED
    BY <1>1, <1>2, <1>3, <1>4, <1>5, <2>2, <2>3, <2>4, BudgetStays, CurrentUserStep
<1>7. CASE ~ AlreadyFriends(c)
  <2>1. accepted' = accepted \cup {<<c.peer, u>>} /\ me' = [me EXCEPT ![u] = mine]
    BY <1>7 DEF RequestDeleted
  <2>2. accepted' \in SUBSET (Uuid \X Uuid) /\ accepted' \subseteq sent'
    BY <1>1, <1>2, <2>1 DEF IInv, TypeOK, GoodRequests, Senders
  <2>3. Met(u, c.peer)' /\ Met(c.peer, u)'
    BY <2>1 DEF Met
  <2>4. mine \in GoodProfile(u)' /\ mine \in Profile
    <3>1. mine \in Profile
      BY <1>1, <1>3, FriendArithmetic
    <3>2. \A w \in Uuid : mine.friends[w] > 0 => w = c.peer \/ me[u].friends[w] > 0
      BY <1>1, <1>3, FriendArithmetic
    <3>3. mine.blocked = me[u].blocked
      BY <1>1, <1>3, FriendArithmetic
    <3> HIDE DEF mine
    <3>4. QED
      BY <1>3, <2>3, <3>1, <3>2, <3>3 DEF GoodProfile, FriendsMet
  <2>5. AddFriend(c.snap, u) \in GoodProfile(c.peer)'
    <3>1. AddFriend(c.snap, u) \in Profile
      BY <1>1, FriendArithmetic
    <3>2. \A w \in Uuid : AddFriend(c.snap, u).friends[w] > 0 => w = u \/ c.snap.friends[w] > 0
      BY <1>1, FriendArithmetic
    <3>3. AddFriend(c.snap, u).blocked = c.snap.blocked
      BY <1>1, FriendArithmetic
    <3>4. c.snap \in GoodProfile(c.peer)'
      BY <1>1, <1>2, GoodStaysGood
    <3>5. QED
      BY <2>3, <3>1, <3>2, <3>3, <3>4 DEF GoodProfile, FriendsMet
  <2>6. theirs \in Seq(GoodWrite')
    <3>1. ProfileWrite(c.peer, AddFriend(c.snap, u), c.snap) \in Write
      BY <1>1, FriendArithmetic, ConstantsAssumption DEF ProfileWrite, Write, ConstantsAssumption
    <3>2. ProfileWrite(c.peer, AddFriend(c.snap, u), c.snap) \in GoodWrite'
      BY <2>5, <3>1 DEF GoodWrite, ProfileWrite
    <3>3. QED
      BY <3>2 DEF SaveUser
  <2> HIDE DEF mine, theirs
  <2>7. queue[u] \o theirs \in Seq(GoodWrite')
    BY <1>3, <2>6, ConcatProperties
  <2>8. CASE Unlisted(c)
    <3>1. /\ queue' = [queue EXCEPT ![u] = @ \o theirs]
          /\ causes' = causes \cup {<<"halfAccept", u>>}
          /\ UNCHANGED <<requests, base>>
      BY <1>7, <2>8 DEF RequestDeleted, theirs
    <3>2. /\ queue' \in [Uuid -> Seq(Write)]
          /\ \A v \in Uuid : queue'[v] \in Seq(GoodWrite')
      BY <1>1, <1>2, <2>7, <3>1, QueueStaysGood
    <3>3. causes' \in CausesType
      BY <1>1, <3>1 DEF IInv, TypeOK, CausesType
    <3>4. /\ base' = [base EXCEPT ![u] = base[u]]
          /\ requests' = [requests EXCEPT ![u] = requests[u]]
      BY <3>1 DEF IInv, TypeOK
    <3>5. QED
      BY <1>1, <1>2, <1>3, <1>4, <1>5, <2>1, <2>2, <2>4, <3>2, <3>3, <3>4, BudgetStays, CurrentUserStep
  <2>9. CASE ~ Unlisted(c)
    <3>1. /\ queue' = [queue EXCEPT ![u] = @ \o theirs \o saved]
          /\ causes' = causes
          /\ requests' = [requests EXCEPT ![u] = rest]
          /\ base' = [base EXCEPT ![u] = mine]
      BY <1>7, <2>9 DEF RequestDeleted, theirs, mine
    <3>2. rest \in [Uuid -> Nat] /\ Listed(rest) \subseteq Senders(u)'
      BY <1>1, <1>3, <2>9, RestIsGood DEF Unlisted
    <3> HIDE DEF rest
    <3>3. saved \in Seq(GoodWrite')
      BY <1>1, <1>3, <2>4, <3>2, SaveDataTurnsGood
    <3>4. queue[u] \o theirs \o saved \in Seq(GoodWrite')
      BY <2>7, <3>3, ConcatProperties
    <3> HIDE DEF saved
    <3>5. /\ queue' \in [Uuid -> Seq(Write)]
          /\ \A v \in Uuid : queue'[v] \in Seq(GoodWrite')
      BY <1>1, <1>2, <3>1, <3>4, QueueStaysGood
    <3>6. causes' \in CausesType
      BY <3>1 DEF IInv, TypeOK, CausesType
    <3>7. QED
      BY <1>1, <1>2, <1>4, <1>5, <2>1, <2>2, <2>4, <3>1, <3>2, <3>5, <3>6, BudgetStays, CurrentUserStep
  <2>10. QED
    BY <2>8, <2>9
<1>8. QED
  BY <1>6, <1>7

-----------------------------------------------------------------------------
(* Firestore and the process *)

\* An acknowledged deletion: the waiting accept goes on.
LEMMA AcknowledgedIsGood ==
    ASSUME IInv, NEW u \in Uuid, NEW e
    PROVE  {[c EXCEPT !.phase = "deleted"] : c \in Waiting(u, e)} \subseteq GoodCall
<1>1. ASSUME NEW c \in Waiting(u, e) PROVE [c EXCEPT !.phase = "deleted"] \in GoodCall
  <2>1. c \in GoodCall /\ c \in Call /\ c.phase = "deleting"
    BY CallInCalls DEF Waiting
  <2>2. QED
    BY <2>1 DEF GoodCall, Call
<1>2. QED
  BY <1>1

\* A commit by Firestore keeps the invariant.
LEMMA CommitKeepsInv ==
    ASSUME IInv, NEW u \in Uuid, Commit(u)
    PROVE  IInv'
<1> DEFINE e == Head(queue[u])
<1>1. queue[u] \in Seq(GoodWrite) /\ queue[u] # <<>>
  BY DEF Commit, IInv
<1>2. e \in GoodWrite /\ Tail(queue[u]) \in Seq(GoodWrite)
  BY <1>1, HeadTailProperties
<1>3. e \in Write /\ e.of \in Uuid /\ e.val \in Profile
  BY <1>2 DEF GoodWrite, Write
<1>4. HistoryGrows /\ UNCHANGED <<loggedIn, me, requests, base, taps, faults, sent, accepted, blockedBy, dropped>>
  BY DEF Commit, HistoryGrows, history, device, budget
<1>5. queue' = [queue EXCEPT ![u] = Tail(queue[u])]
  BY DEF Commit
<1>6. /\ queue' \in [Uuid -> Seq(Write)]
      /\ \A w \in Uuid : queue'[w] \in Seq(GoodWrite')
  BY <1>2, <1>4, <1>5, QueueStaysGood, GoodStaysGood
<1>7. due' \in SUBSET Uuid
  BY NoticeType DEF Commit, IInv
<1>8. calls' \subseteq GoodCall'
  <2>1. calls' = calls \/ calls' = (calls \ Waiting(u, e)) \cup
                      {[c EXCEPT !.phase = "deleted"] : c \in Waiting(u, e)}
    BY DEF Commit
  <2>2. calls' \subseteq GoodCall
    BY <2>1, AcknowledgedIsGood DEF IInv
  <2>3. QED
    BY <1>4, <2>2, GoodStaysGood
<1>9. /\ docs' \in [Uuid -> Profile] /\ causes' \in CausesType
      /\ \A v \in Uuid : docs'[v] \in GoodProfile(v)
  <2>1. CASE /\ e.kind = "profile"
             /\ docs' = [docs EXCEPT ![e.of] = e.val]
             /\ causes' = causes \cup
                    (IF docs[e.of] = e.prev THEN {} ELSE {<<"overwrite", e.of>>})
    <3>1. e.val \in GoodProfile(e.of)
      BY <1>2, <2>1 DEF GoodWrite
    <3>2. causes' \in CausesType
      BY <1>3, <2>1 DEF IInv, TypeOK, CausesType
    <3> HIDE DEF e
    <3>3. QED
      BY <1>3, <2>1, <3>1, <3>2 DEF IInv, TypeOK, GoodProfiles
  <2>2. CASE UNCHANGED <<docs, causes>>
    BY <2>2 DEF IInv, TypeOK, GoodProfiles, CausesType
  <2>3. QED
    BY <2>1, <2>2 DEF Commit
<1>10. /\ inbox' \in [Uuid -> SUBSET Uuid]
       /\ \A v \in Uuid : inbox'[v] \subseteq Senders(v)
  <2>1. e.who \in SUBSET Uuid
    BY <1>3 DEF Write
  <2>2. CASE inbox' = [inbox EXCEPT ![e.of] = @ \cup e.who] /\ e.kind = "setRequests"
    <3>1. e.who \subseteq Senders(e.of)
      BY <1>2, <2>2 DEF GoodWrite
    <3> HIDE DEF e
    <3>2. QED
      BY <1>3, <2>1, <2>2, <3>1 DEF IInv, TypeOK, GoodRequests
  <2>3. CASE inbox' = [inbox EXCEPT ![e.of] = @ \ e.who]
    <3> HIDE DEF e
    <3>1. QED
      BY <1>3, <2>1, <2>3 DEF IInv, TypeOK, GoodRequests
  <2>4. CASE inbox' = inbox
    BY <2>4 DEF IInv, TypeOK, GoodRequests
  <2>5. QED
    BY <2>2, <2>3, <2>4 DEF Commit
<1> HIDE DEF e
<1>11. TypeOK'
  BY <1>4, <1>6, <1>7, <1>8, <1>9, <1>10 DEF IInv, TypeOK, GoodCall, CausesType
<1>12. GoodProfiles'
  BY <1>4, <1>9, GoodStaysGood DEF IInv, GoodProfiles
<1>13. GoodRequests'
  BY <1>4, <1>10 DEF IInv, GoodRequests, Senders, Listed
<1>14. QED
  BY <1>6, <1>8, <1>11, <1>12, <1>13 DEF IInv

\* A refusal by Firestore keeps the invariant.
LEMMA RefuseKeepsInv ==
    ASSUME IInv, NEW u \in Uuid, Refuse(u)
    PROVE  IInv'
<1> DEFINE e == Head(queue[u])
<1>1. queue[u] \in Seq(GoodWrite) /\ queue[u] # <<>>
  BY DEF Refuse, IInv
<1>2. e \in GoodWrite /\ Tail(queue[u]) \in Seq(GoodWrite)
  BY <1>1, HeadTailProperties
<1>3. e.of \in Uuid
  BY <1>2 DEF GoodWrite, Write
<1>4. HistoryGrows /\ UNCHANGED <<server, device, taps, history>>
  BY DEF Refuse, HistoryGrows, history
<1>5. queue' = [queue EXCEPT ![u] = Tail(queue[u])]
  BY DEF Refuse
<1>6. /\ queue' \in [Uuid -> Seq(Write)]
      /\ \A w \in Uuid : queue'[w] \in Seq(GoodWrite')
  BY <1>2, <1>4, <1>5, QueueStaysGood, GoodStaysGood
<1>7. due' \in SUBSET Uuid
  BY NoticeType DEF Refuse, IInv
<1>8. calls' \subseteq GoodCall'
  BY <1>4, GoodStaysGood DEF Refuse, IInv
<1>9. causes' \in CausesType
  <2>1. causes' = causes \cup {<<"refused", e.of>>}
    BY DEF Refuse
  <2> HIDE DEF e
  <2>2. QED
    BY <1>3, <2>1 DEF IInv, TypeOK, CausesType
<1>10. faults' \in 0..MaxFaults
  BY ConstantsAssumption DEF Refuse, IInv, TypeOK, ConstantsAssumption
<1>11. QED
  BY <1>4, <1>6, <1>7, <1>8, <1>9, <1>10, QuietStep DEF IInv, TypeOK, server, device

\* A relaunch keeps the invariant.
LEMMA RelaunchKeepsInv ==
    ASSUME IInv, NEW u \in Uuid, Relaunch(u)
    PROVE  IInv'
<1> DEFINE q == [i \in DOMAIN queue[u] |-> [queue[u][i] EXCEPT !.slot = 0]]
<1>1. HistoryGrows /\ UNCHANGED <<server, taps, sent, accepted, blockedBy, causes>>
  BY DEF Relaunch, HistoryGrows, history
<1>2. Blank \in Profile /\ Blank \in GoodProfile(u)'
  BY <1>1, BlankIsGood, GoodStaysGood
<1>3. NoFriends \in [Uuid -> Nat] /\ Listed(NoFriends) \subseteq Senders(u)'
  BY DEF NoFriends, Listed
<1>4. q \in Seq(GoodWrite)
  <2>1. \A i \in DOMAIN queue[u] : queue[u][i] \in GoodWrite
    BY ElementOfSeq, LenProperties DEF IInv
  <2>2. \A i \in DOMAIN queue[u] : [queue[u][i] EXCEPT !.slot = 0] \in GoodWrite
    BY <2>1, ConstantsAssumption DEF GoodWrite, Write, ConstantsAssumption
  <2>3. DOMAIN queue[u] = 1..Len(queue[u]) /\ Len(queue[u]) \in Nat
    BY LenProperties DEF IInv
  <2>4. q \in [1..Len(queue[u]) -> GoodWrite]
    BY <2>2, <2>3
  <2>5. QED
    BY <2>3, <2>4, SeqDef
<1> HIDE DEF q
<1>5. queue' = [queue EXCEPT ![u] = q]
  BY DEF Relaunch, q
<1>6. /\ queue' \in [Uuid -> Seq(Write)]
      /\ \A w \in Uuid : queue'[w] \in Seq(GoodWrite')
  BY <1>1, <1>4, <1>5, QueueStaysGood, GoodStaysGood
<1>7. calls' \subseteq GoodCall'
  BY <1>1, GoodStaysGood DEF Relaunch, IInv
<1>8. taps' \in 0..MaxTaps /\ faults' \in 0..MaxFaults
  BY <1>1, ConstantsAssumption DEF Relaunch, IInv, TypeOK, ConstantsAssumption
<1>9. /\ loggedIn' \in SUBSET Uuid /\ due' \in SUBSET Uuid /\ causes' \in CausesType
      /\ sent' \in SUBSET (Uuid \X Uuid) /\ accepted' \in SUBSET (Uuid \X Uuid)
      /\ blockedBy' \in SUBSET (Uuid \X Uuid)
      /\ dropped' \in SUBSET (Uuid \X Uuid) /\ accepted' \subseteq sent'
  <2>1. \A c \in calls : c.peer \in Uuid
    BY CallInCalls
  <2>2. {<<c.peer, u>> : c \in {d \in calls : d.dev = u /\ d.phase \in {"deleting", "deleted"}}}
            \in SUBSET (Uuid \X Uuid)
    BY <2>1
  <2>3. dropped' \in SUBSET (Uuid \X Uuid)
    BY <2>2 DEF Relaunch, IInv, TypeOK
  <2>4. QED
    BY <1>1, <2>3 DEF Relaunch, history, IInv, TypeOK, GoodRequests, CausesType
<1>10. /\ me' = [me EXCEPT ![u] = Blank] /\ base' = [base EXCEPT ![u] = Blank]
       /\ requests' = [requests EXCEPT ![u] = NoFriends]
  BY DEF Relaunch
<1>11. QED
  BY <1>1, <1>2, <1>3, <1>6, <1>7, <1>8, <1>9, <1>10, CurrentUserStep

-----------------------------------------------------------------------------
(* The invariant *)

\* The documents at the start are good, and everything else is empty.
LEMMA InitIsGood == Init => IInv
<1> SUFFICES ASSUME Init PROVE IInv
  OBVIOUS
<1> USE DEF Init
<1>1. NoFriends \in [Uuid -> Nat] /\ Listed(NoFriends) = {}
  BY DEF NoFriends, Listed
<1>2. \A u \in Uuid : Blank \in Profile /\ Blank \in GoodProfile(u)
  BY BlankIsGood
<1>3. ASSUME NEW u \in Uuid PROVE FriendsAtStart(u) \in Profile /\ FriendsAtStart(u) \in GoodProfile(u)
  <2>1. FriendsAtStart(u) = [friends |-> [v \in Uuid |-> IF <<u, v>> \in InitialFriends THEN 1 ELSE 0],
                             blocked |-> {}]
    BY DEF FriendsAtStart
  <2>2. FriendsAtStart(u) \in Profile
    BY <2>1 DEF Profile
  <2>3. \A v \in Uuid : FriendsAtStart(u).friends[v] > 0 => <<u, v>> \in InitialFriends
    BY <2>1
  <2>4. FriendsAtStart(u).blocked = {}
    BY <2>1
  <2>5. QED
    BY <2>2, <2>3, <2>4 DEF GoodProfile, FriendsMet, Met
<1>4. TypeOK
  <2>1. taps \in 0..MaxTaps /\ faults \in 0..MaxFaults
    BY ConstantsAssumption DEF ConstantsAssumption
  <2>2. sent \in SUBSET (Uuid \X Uuid) /\ accepted \in SUBSET (Uuid \X Uuid)
    BY ConstantsAssumption DEF ConstantsAssumption
  <2>3. queue \in [Uuid -> Seq(Write)]
    BY EmptySeq
  <2>4. QED
    BY <1>1, <1>2, <1>3, <2>1, <2>2, <2>3 DEF TypeOK
<1>5. GoodProfiles
  BY <1>2, <1>3 DEF GoodProfiles
<1>6. GoodRequests
  BY <1>1 DEF GoodRequests
<1>7. \A u \in Uuid : queue[u] \in Seq(GoodWrite)
  BY EmptySeq
<1>8. QED
  BY <1>4, <1>5, <1>6, <1>7 DEF IInv

\* Each of the six taps keeps the invariant.
LEMMA TapsKeepInv ==
    ASSUME IInv, NEW u \in Uuid, Taps(u)
    PROVE  IInv'
<1>1. PICK v \in Uuid : \/ AddUserButtonPressed(u, v)
                        \/ UnfriendSwiped(u, v)
                        \/ BlockSwiped(u, v)
                        \/ IgnoreSwiped(u, v)
                        \/ RequestBlockSwiped(u, v)
                        \/ AddFwen(u, v)
  BY DEF Taps
<1>2. PICK op \in Lookups \ {"login"} : Tap(u, op, v) /\ (op = "accept" => requests[u][v] > 0)
  BY <1>1 DEF AddUserButtonPressed, UnfriendSwiped, BlockSwiped, IgnoreSwiped,
              RequestBlockSwiped, AddFwen, Lookups
<1>3. QED
  BY <1>2, TapKeepsInv

\* Every step keeps the invariant, one action after the other.
LEMMA NextKeepsInv ==
    ASSUME IInv, Next
    PROVE  IInv'
<1>1. CASE \E u \in Uuid : \/ LogInButtonTapped(u)
                           \/ Taps(u)
                           \/ ListenerFires(u)
                           \/ Commit(u)
                           \/ Refuse(u)
                           \/ Relaunch(u)
  BY <1>1, LogInButtonTappedKeepsInv, TapsKeepInv, ListenerFiresKeepsInv, CommitKeepsInv,
     RefuseKeepsInv, RelaunchKeepsInv
<1>2. CASE \E c \in calls : Answer(c) \/ LookupFails(c) \/ Completion(c)
  <2>1. PICK c \in calls : Answer(c) \/ LookupFails(c) \/ Completion(c)
    BY <1>2
  <2>2. QED
    BY <2>1, AnswerKeepsInv, LookupFailsKeepsInv, LoggedInKeepsInv, RequestsLoadedKeepsInv,
       SendFriendRequestKeepsInv, IgnoreFriendRequestKeepsInv, UnfriendedKeepsInv,
       BlockUserKeepsInv, AcceptFriendRequestKeepsInv, RequestDeletedKeepsInv
       DEF Completion
<1>3. QED
  BY <1>1, <1>2 DEF Next

\* So does no step at all.
LEMMA StutterKeepsInv ==
    ASSUME IInv, UNCHANGED vars
    PROVE  IInv'
BY DEF vars, IInv, TypeOK, GoodProfiles, GoodRequests, GoodProfile, GoodWrite, GoodCall,
       FriendsMet, Met, Senders, Listed

\* Every reachable state satisfies the inductive invariant.
THEOREM Invariance == Spec => []IInv
<1>1. Init => IInv
  BY InitIsGood
<1>2. IInv /\ [Next]_vars => IInv'
  BY NextKeepsInv, StutterKeepsInv
<1>3. QED
  BY <1>1, <1>2, PTL DEF Spec

\* Every variable keeps its type: no handler makes a count negative or stores
\* anything but User, FriendRequest and document values.
THEOREM TypeCorrect == Spec => []TypeOK
<1>1. IInv => TypeOK
  BY DEF IInv
<1>2. QED
  BY <1>1, Invariance, PTL

\* No document ever lists a friend who did not ask or was not asked by its owner,
\* with the request accepted, whatever saveUser and saveData overwrite.
THEOREM FriendsHaveMet == Spec => []FriendsMetInDocs
<1>1. IInv => FriendsMetInDocs
  BY DEF IInv, GoodProfiles, GoodProfile, FriendsMetInDocs
<1>2. QED
  BY <1>1, Invariance, PTL

\* No request is on the server or in a list that its sender has not sent, and
\* nobody is accepted who has not asked.
THEOREM NoInventedRequest == Spec => []RequestsWereSent
<1>1. IInv => RequestsWereSent
  BY DEF IInv, GoodRequests, RequestsWereSent, Senders
<1>2. QED
  BY <1>1, Invariance, PTL

\* No document ever blocks a user whom its owner has not blocked.
THEOREM NoInventedBlock == Spec => []BlockedByOwner
<1>1. IInv => BlockedByOwner
  BY DEF IInv, GoodProfiles, GoodProfile, BlockedByOwner
<1>2. QED
  BY <1>1, Invariance, PTL

-----------------------------------------------------------------------------
(* The documents implement the handshake. *)

lists == [u \in Uuid |-> ListedFriends(u)]

\* The steps that touch neither history nor documents are invisible to it.
LEMMA InvisibleStep ==
    ASSUME UNCHANGED <<sent, accepted, docs>>
    PROVE  UNCHANGED <<sent, accepted, lists>>
BY DEF lists, ListedFriends

\* sendFriendRequest is Ask, or nothing when the two are friends already.
LEMMA SendIsAsk ==
    ASSUME IInv, NEW c \in calls, SendFriendRequest(c)
    PROVE  Promise!Next \/ UNCHANGED <<sent, accepted, lists>>
<1>1. c.dev \in Uuid /\ c.peer \in Uuid
  BY CallInCalls
<1>2. UNCHANGED <<accepted, docs>>
  BY DEF SendFriendRequest, server
<1>3. lists' = lists
  BY <1>2 DEF lists, ListedFriends
<1>4. CASE sent' = sent
  BY <1>2, <1>3, <1>4
<1>5. CASE sent' = sent \cup {<<c.dev, c.peer>>}
  <2>1. Promise!Ask(c.dev, c.peer)
    BY <1>2, <1>3, <1>5 DEF Promise!Ask, lists
  <2>2. QED
    BY <1>1, <2>1 DEF Promise!Next
<1>6. QED
  BY <1>4, <1>5 DEF SendFriendRequest

\* The completion of acceptFriendRequest is Agree, or nothing.
LEMMA RequestDeletedIsAgree ==
    ASSUME IInv, NEW c \in calls, RequestDeleted(c)
    PROVE  Promise!Next \/ UNCHANGED <<sent, accepted, lists>>
<1>1. c.dev \in Uuid /\ c.peer \in Uuid /\ <<c.peer, c.dev>> \in sent
  BY CallInCalls DEF RequestDeleted, GoodCall, Senders
<1>2. UNCHANGED <<sent, docs>>
  BY DEF RequestDeleted, server
<1>3. lists' = lists
  BY <1>2 DEF lists, ListedFriends
<1>4. CASE accepted' = accepted
  BY <1>2, <1>3, <1>4
<1>5. CASE accepted' = accepted \cup {<<c.peer, c.dev>>}
  <2>1. Promise!Agree(c.peer, c.dev)
    BY <1>1, <1>2, <1>3, <1>5 DEF Promise!Agree, lists
  <2>2. QED
    BY <1>1, <2>1 DEF Promise!Next
<1>6. QED
  BY <1>4, <1>5 DEF RequestDeleted

\* A committed document rewrites its owner's list with acquaintances.
LEMMA CommitIsRewrite ==
    ASSUME IInv, NEW u \in Uuid, Commit(u)
    PROVE  Promise!Next \/ UNCHANGED <<sent, accepted, lists>>
<1> DEFINE e == Head(queue[u])
           S == {v \in Uuid : e.val.friends[v] > 0}
<1>1. e \in GoodWrite
  BY HeadTailProperties DEF Commit, IInv
<1>2. e.of \in Uuid
  BY <1>1 DEF GoodWrite, Write
<1>3. UNCHANGED <<sent, accepted>>
  BY DEF Commit, history
<1>4. CASE docs' = docs
  BY <1>3, <1>4, InvisibleStep
<1>5. CASE e.kind = "profile" /\ docs' = [docs EXCEPT ![e.of] = e.val]
  <2>1. S \in SUBSET Promise!Acquaintances(e.of)
    BY <1>1, <1>5 DEF GoodWrite, GoodProfile, FriendsMet, Met, Promise!Acquaintances
  <2>2. lists' = [lists EXCEPT ![e.of] = S]
    <3>1. \A v \in Uuid : docs'[v] = IF v = e.of THEN e.val ELSE docs[v]
      BY <1>5 DEF IInv, TypeOK
    <3> HIDE DEF e
    <3>2. QED
      BY <1>2, <3>1 DEF lists, ListedFriends
  <2> HIDE DEF e, S
  <2>3. Promise!Rewrite(e.of)
    BY <1>3, <2>1, <2>2 DEF Promise!Rewrite, lists
  <2>4. QED
    BY <1>2, <2>3 DEF Promise!Next
<1>6. QED
  BY <1>4, <1>5 DEF Commit

\* Every step is one of the handshake's or invisible to it.
LEMMA NextIsPromised ==
    ASSUME IInv, [Next]_vars
    PROVE  Promise!Next \/ UNCHANGED <<sent, accepted, lists>>
<1>1. CASE \E u \in Uuid : Commit(u)
  BY <1>1, CommitIsRewrite
<1>2. CASE \E c \in calls : SendFriendRequest(c)
  BY <1>2, SendIsAsk
<1>3. CASE \E c \in calls : RequestDeleted(c)
  BY <1>3, RequestDeletedIsAgree
<1>4. CASE \E u \in Uuid : \/ LogInButtonTapped(u) \/ Taps(u) \/ ListenerFires(u)
                           \/ Refuse(u) \/ Relaunch(u)
  <2>1. UNCHANGED <<sent, accepted, docs>>
    BY <1>4 DEF LogInButtonTapped, Taps, ListenerFires, Refuse, Relaunch,
                AddUserButtonPressed, UnfriendSwiped, BlockSwiped, IgnoreSwiped,
                RequestBlockSwiped, AddFwen, Tap, server, history
  <2>2. QED
    BY <2>1, InvisibleStep
<1>5. CASE \E c \in calls : \/ Answer(c) \/ LookupFails(c) \/ LoggedIn(c) \/ RequestsLoaded(c)
                            \/ IgnoreFriendRequest(c) \/ Unfriended(c) \/ BlockUser(c)
                            \/ AcceptFriendRequest(c)
  <2>1. UNCHANGED <<sent, accepted, docs>>
    BY <1>5 DEF Answer, LookupFails, LoggedIn, RequestsLoaded, IgnoreFriendRequest,
                Unfriended, BlockUser, AcceptFriendRequest, server, history
  <2>2. QED
    BY <2>1, InvisibleStep
<1>6. CASE UNCHANGED vars
  BY <1>6, InvisibleStep DEF vars
<1>7. QED
  BY <1>1, <1>2, <1>3, <1>4, <1>5, <1>6 DEF Next, Completion

\* Every behaviour of the detailed model is one of the handshake: a request
\* precedes every acceptance, an acceptance every listing.
THEOREM Refinement == Spec => ImplementsHandshake
<1>1. Init => Promise!Init
  <2> SUFFICES ASSUME Init PROVE Promise!Init
    OBVIOUS
  <2>1. \A u \in Uuid : ListedFriends(u) = {v \in Uuid : <<u, v>> \in InitialFriends}
    <3>1. ASSUME NEW u \in Uuid, NEW v \in Uuid
          PROVE  docs[u].friends[v] > 0 <=> <<u, v>> \in InitialFriends
      BY DEF Init, FriendsAtStart
    <3>2. QED
      BY <3>1 DEF ListedFriends
  <2>2. QED
    BY <2>1 DEF Init, Promise!Init
<1>2. IInv /\ [Next]_vars => [Promise!Next]_(Promise!vars)
  BY NextIsPromised DEF Promise!vars, lists
<1>3. QED
  BY <1>1, <1>2, Invariance, PTL DEF Spec, ImplementsHandshake, Promise!Spec
=============================================================================
