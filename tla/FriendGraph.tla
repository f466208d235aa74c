----------------------------- MODULE FriendGraph -----------------------------
(***************************************************************************)
(* Friendships, friend requests and blocks of the JamSession app: the       *)
(* operations of UserController, the handlers of FriendViewController that  *)
(* start them, the login that creates currentUser, the snapshot listener    *)
(* on the request collection, and the Firestore documents they all write.   *)
(*                                                                         *)
(* There is one device per user.  A handler issues a lookup, the server     *)
(* answers it, and the completion runs later on the device's main queue;    *)
(* it works on the profile snapshot of the answer and on the in-memory      *)
(* currentUser, which is read once, at login.  Every save is setData of a   *)
(* whole document: it enters the device's FIFO queue of pending writes, is  *)
(* visible to the device at once and to the others when it is committed.    *)
(*                                                                         *)
(* A username stands for its holder's uuid here.                            *)
(***************************************************************************)
EXTENDS Naturals, Sequences

CONSTANTS
    Uuid,            \* the users, each with one device
    InitialFriends,  \* pairs who are friends already at the start
    MaxCalls,        \* bound: asynchronous calls in flight per device
    MaxTaps,         \* bound: taps on the friends screen, all devices together
    MaxFaults        \* bound: relaunches, failed lookups and refused writes

ASSUME ConstantsAssumption ==
    /\ InitialFriends \in SUBSET (Uuid \X Uuid)
    /\ \A p \in InitialFriends : <<p[2], p[1]>> \in InitialFriends
    /\ MaxCalls \in Nat \ {0}
    /\ MaxTaps \in Nat
    /\ MaxFaults \in Nat

VARIABLES
    docs,       \* Users/{uuid} on the server
    inbox,      \* Users/{uuid}/friend_requests on the server: the senders
    queue,      \* the device's pending writes, oldest first
    loggedIn,   \* the devices whose currentUser is not nil
    me,         \* currentUser.friends and currentUser.blocked
    requests,   \* currentUser.friendRequests: how often each sender is listed
    due,        \* the devices whose snapshot listener has an event to deliver
    calls,      \* lookups and deletions whose completion has not run
    taps,       \* taps used
    faults,     \* faults used
    base,       \* history: own profile as currentUser last read or saved it
    sent,       \* history: <<u, v>> when u has sent v a request
    accepted,   \* history: <<u, v>> when v has accepted a request of u
    blockedBy,  \* history: <<u, v>> when u has blocked v
    dropped,    \* history: <<u, v>> when v has ignored a request of u, or v's
                \*          process died between deleting and accepting it
    causes      \* history: what has gone wrong, and on whose document or device

server   == <<docs, inbox>>
device   == <<loggedIn, me, requests, base>>
budget   == <<taps, faults>>
history  == <<sent, accepted, blockedBy, dropped>>
vars == <<docs, inbox, queue, loggedIn, me, requests, due, calls, taps,
          faults, base, sent, accepted, blockedBy, dropped, causes>>

-----------------------------------------------------------------------------
(* Data *)

\* A friends array is read only by contains, firstIndex(of:) and append: what
\* matters is how often it lists each user.  The blocked array is only
\* appended to.
Profile == [friends : [Uuid -> Nat], blocked : SUBSET Uuid]

NoFriends == [v \in Uuid |-> 0]
Blank == [friends |-> NoFriends, blocked |-> {}]

\* The four row actions and the add button, the login, and the load that the
\* listener starts.  "decline" is the action of a request row titled "block".
Lookups == {"login", "send", "unfriend", "block", "ignore", "decline", "accept"}

\* One asynchronous call.  A lookup is asked, then answered with a snapshot of
\* the peer's profile; a load is answered with the senders found; an accept
\* goes on to delete the request and waits for the acknowledgement.
Call == [dev   : Uuid,
         slot  : 1..MaxCalls,
         op    : Lookups \cup {"load"},
         peer  : Uuid,
         phase : {"asked", "answered", "deleting", "deleted"},
         snap  : Profile,
         found : SUBSET Uuid]

\* One pending write: a whole profile, or the setting or deletion of request
\* documents in a user's inbox.  prev is history: the profile as the writer
\* last knew it.  slot names the call to notify of the commit, 0 for none.
Write == [kind : {"profile", "setRequests", "deleteRequest"},
          of   : Uuid,
          val  : Profile,
          prev : Profile,
          who  : SUBSET Uuid,
          slot : 0..MaxCalls]

ProfileWrite(v, val, prev) ==
    [kind |-> "profile", of |-> v, val |-> val, prev |-> prev,
     who |-> {}, slot |-> 0]

RequestWrite(kind, v, who, slot) ==
    [kind |-> kind, of |-> v, val |-> Blank, prev |-> Blank,
     who |-> who, slot |-> slot]

\* Mutant: sender and receiver swapped.
RequestDocSwapped(u, v) == RequestWrite("setRequests", u, {v}, 0)

\* The request of u in the inbox of v: the document "u to v".
RequestDoc(u, v) == RequestWrite("setRequests", v, {u}, 0)

AddFriend(p, v)    == [p EXCEPT !.friends[v] = @ + 1]
RemoveFriend(p, v) == [p EXCEPT !.friends[v] = @ - 1]
Listed(rs) == {v \in Uuid : rs[v] > 0}

\* Mutant: requests are loaded into an empty list only.
AppendedToEmpty(rs, found) ==
    [w \in Uuid |-> IF w \in found /\ Listed(rs) = {} THEN rs[w] + 1 ELSE rs[w]]

\* What loadCurrentFriendRequests makes of the list.
Appended(rs, found) == [w \in Uuid |-> IF w \in found THEN rs[w] + 1 ELSE rs[w]]

\* Mutants: the call is left out; the other user is given the own document.
SaveUserOmitted(u, v, new, old) == <<>>
SaveUserWrongObject(u, v, new, old) == <<ProfileWrite(v, me[u], old)>>

\* saveUser: the whole document of v, from the snapshot that device u was
\* given; a snapshot holds no requests.
SaveUser(u, v, new, old) == <<ProfileWrite(v, new, old)>>

\* Mutant: the object is saved before it is changed.
SaveDataBeforeChange(u, new, old, rs) == <<ProfileWrite(u, old, old)>>

\* saveData: the own profile, then every listed request again.  Only the owner
\* of an inbox reads it, and sees all these writes at once, so the request
\* documents of one save are one write here.
SaveData(u, new, old, rs) ==
    <<ProfileWrite(u, new, old)>> \o
    (IF Listed(rs) = {} THEN <<>>
     ELSE <<RequestWrite("setRequests", u, Listed(rs), 0)>>)

-----------------------------------------------------------------------------
(* What a device sees: the server under its own pending writes. *)

\* The greatest index of S, as a set: empty when S is.
Last(S) == {i \in S : \A j \in S : j <= i}

ProfileView(u, v) ==
    LET last == Last({i \in DOMAIN queue[u] :
                        queue[u][i].kind = "profile" /\ queue[u][i].of = v})
    IN  IF last = {} THEN docs[v] ELSE queue[u][CHOOSE i \in last : TRUE].val

InboxView(u) ==
    {w \in Uuid :
       LET last == Last({i \in DOMAIN queue[u] :
                           /\ queue[u][i].kind # "profile"
                           /\ queue[u][i].of = u
                           /\ w \in queue[u][i].who})
       IN  IF last = {} THEN w \in inbox[u]
           ELSE \E i \in last : queue[u][i].kind = "setRequests"}

\* The listener has an event to deliver wherever the inbox looks different.
NoticeInboxes ==
    due' = due \cup {u \in loggedIn : InboxView(u)' # InboxView(u)}

-----------------------------------------------------------------------------
(* Asynchronous calls *)

FreeSlots(u) == {s \in 1..MaxCalls : ~ \E c \in calls : c.dev = u /\ c.slot = s}

NewCall(u, op, v) ==
    [dev |-> u, slot |-> CHOOSE s \in FreeSlots(u) : TRUE, op |-> op, peer |-> v,
     phase |-> "asked", snap |-> Blank, found |-> {}]

Begin(u, op, v) ==
    /\ FreeSlots(u) # {}
    /\ calls' = calls \cup {NewCall(u, op, v)}

Becomes(c, d) == calls' = (calls \ {c}) \cup {d}
Ends(c)       == calls' = calls \ {c}

\* A tap on the friends screen.
Tap(u, op, v) ==
    /\ u \in loggedIn
    /\ taps < MaxTaps
    /\ taps' = taps + 1
    /\ Begin(u, op, v)
    /\ UNCHANGED <<server, queue, device, due, faults, history, causes>>

\* dbContainsUsername and then grabUserFromUsername: users never cease to exist
\* here, so the first lookup finds v, and only the answer of the second is used.
AddUserButtonPressed(u, v) == Tap(u, "send", v)
UnfriendSwiped(u, v) == me[u].friends[v] > 0 /\ Tap(u, "unfriend", v)
BlockSwiped(u, v)    == me[u].friends[v] > 0 /\ Tap(u, "block", v)
IgnoreSwiped(u, v)   == requests[u][v] > 0 /\ Tap(u, "ignore", v)
RequestBlockSwiped(u, v) == requests[u][v] > 0 /\ Tap(u, "decline", v)
AddFwen(u, v)        == requests[u][v] > 0 /\ Tap(u, "accept", v)

\* The login button, again after a login that failed.  A tap while a login is
\* under way is left out; after one that succeeded the tab bar covers the button.
LogInButtonTapped(u) ==
    /\ u \notin loggedIn
    /\ ~ \E c \in calls : c.dev = u
    /\ Begin(u, "login", u)
    /\ UNCHANGED <<server, queue, device, due, budget, history, causes>>

\* The server answers a lookup or a load.
Answer(c) ==
    /\ c.phase = "asked"
    /\ \/ /\ c.op # "load"
          /\ Becomes(c, [c EXCEPT !.phase = "answered",
                                  !.snap = ProfileView(c.dev, c.peer)])
       \/ /\ c.op = "load"
          /\ Becomes(c, [c EXCEPT !.phase = "answered",
                                  !.found = InboxView(c.dev)])
    /\ UNCHANGED <<server, queue, device, due, budget, history, causes>>

\* The lookup fails: the completion only presents or prints the error.
LookupFails(c) ==
    /\ c.phase = "asked"
    /\ faults < MaxFaults
    /\ faults' = faults + 1
    /\ Ends(c)
    /\ UNCHANGED <<server, queue, device, due, taps, history, causes>>

-----------------------------------------------------------------------------
(* Completions, on the device's main queue *)

Answered(c, op) == c.op = op /\ c.phase = "answered"

\* currentUser is set, which attaches the snapshot listener.
LoggedIn(c) ==
    /\ Answered(c, "login")
    /\ loggedIn' = loggedIn \cup {c.dev}
    /\ me' = [me EXCEPT ![c.dev] = c.snap]
    /\ base' = [base EXCEPT ![c.dev] = c.snap]
    /\ requests' = [requests EXCEPT ![c.dev] = NoFriends]
    /\ due' = due \cup {c.dev}
    /\ Ends(c)
    /\ UNCHANGED <<server, queue, budget, history, causes>>

\* The listener: loadCurrentFriendRequests when the snapshot is not empty.
ListenerFires(u) ==
    /\ u \in due \cap loggedIn
    /\ due' = due \ {u}
    /\ IF InboxView(u) = {} THEN UNCHANGED calls ELSE Begin(u, "load", u)
    /\ UNCHANGED <<server, queue, device, budget, history, causes>>

\* loadCurrentFriendRequests appends what it found to what is listed already.
RequestsLoaded(c) ==
    /\ Answered(c, "load")
    /\ requests' = [requests EXCEPT ![c.dev] = Appended(@, c.found)]
    /\ Ends(c)
    /\ UNCHANGED <<server, queue, loggedIn, me, base, due, budget, history, causes>>

SendFriendRequest(c) ==
    LET u == c.dev IN
    /\ Answered(c, "send")
    /\ IF me[u].friends[c.peer] > 0 THEN UNCHANGED <<queue, sent>>
       ELSE /\ queue' = [queue EXCEPT ![u] =
                   Append(@, RequestDoc(u, c.peer))]
            /\ sent' = sent \cup {<<u, c.peer>>}
    /\ Ends(c)
    /\ UNCHANGED <<server, device, budget, accepted, blockedBy, dropped, causes>>
    /\ NoticeInboxes

\* Mutant: no guard on firstIndex(of:).
UnlistedNever(c) == FALSE

\* The peer's request is not, or no longer, in currentUser.friendRequests.
Unlisted(c) == requests[c.dev][c.peer] = 0

IgnoreFriendRequest(c) ==
    LET u == c.dev
        rest == [requests[u] EXCEPT ![c.peer] = @ - 1]
    IN
    /\ Answered(c, "ignore")
    /\ IF Unlisted(c) THEN UNCHANGED <<queue, requests, base, dropped>>
       ELSE /\ dropped' = dropped \cup {<<c.peer, u>>}
            /\ requests' = [requests EXCEPT ![u] = rest]
            /\ queue' = [queue EXCEPT ![u] = @ \o
                   <<RequestWrite("deleteRequest", u, {c.peer}, 0)>> \o
                   SaveData(u, me[u], base[u], rest)]
            /\ base' = [base EXCEPT ![u] = me[u]]
    /\ Ends(c)
    /\ UNCHANGED <<server, loggedIn, me, budget, sent, accepted, blockedBy, causes>>
    /\ NoticeInboxes

\* unfriendUser: what it leaves of currentUser, the writes it starts, and
\* whether it returned between the removal and the saves.
UnfriendUser(c) ==
    LET u == c.dev
        mine == RemoveFriend(me[u], c.peer)
        theirs == RemoveFriend(c.snap, u)
    IN  IF me[u].friends[c.peer] = 0 THEN
            [me |-> me[u], base |-> base[u], writes |-> <<>>, cause |-> {}]
        ELSE IF c.snap.friends[u] = 0 THEN
            [me |-> mine, base |-> base[u], writes |-> <<>>,
             cause |-> {<<"halfUnfriend", u>>}]
        ELSE
            [me |-> mine, base |-> mine, cause |-> {},
             writes |-> SaveUser(u, c.peer, theirs, c.snap) \o
                        SaveData(u, mine, base[u], requests[u])]

\* Both the unfriend action of a friend row and the block action of a request
\* row end here.
Unfriended(c) ==
    LET u == c.dev
        r == UnfriendUser(c)
    IN
    /\ Answered(c, "unfriend") \/ Answered(c, "decline")
    /\ me' = [me EXCEPT ![u] = r.me]
    /\ base' = [base EXCEPT ![u] = r.base]
    /\ queue' = [queue EXCEPT ![u] = @ \o r.writes]
    /\ causes' = causes \cup r.cause
    /\ Ends(c)
    /\ UNCHANGED <<server, loggedIn, requests, budget, history>>
    /\ NoticeInboxes

\* blockUser: unfriendUser, then the block and another save.
BlockUser(c) ==
    LET u == c.dev
        r == UnfriendUser(c)
        mine == [r.me EXCEPT !.blocked = @ \cup {c.peer}]
    IN
    /\ Answered(c, "block")
    /\ me' = [me EXCEPT ![u] = mine]
    /\ base' = [base EXCEPT ![u] = mine]
    /\ queue' = [queue EXCEPT ![u] = @ \o r.writes \o
                    SaveData(u, mine, r.base, requests[u])]
    /\ causes' = causes \cup r.cause
    /\ blockedBy' = blockedBy \cup {<<u, c.peer>>}
    /\ Ends(c)
    /\ UNCHANGED <<server, loggedIn, requests, budget, sent, accepted, dropped>>
    /\ NoticeInboxes

\* acceptFriendRequest first deletes the request and waits for the server.
AcceptFriendRequest(c) ==
    LET u == c.dev IN
    /\ Answered(c, "accept")
    /\ queue' = [queue EXCEPT ![u] =
           Append(@, RequestWrite("deleteRequest", u, {c.peer}, c.slot))]
    /\ Becomes(c, [c EXCEPT !.phase = "deleting"])
    /\ UNCHANGED <<server, device, budget, history, causes>>
    /\ NoticeInboxes

\* Mutants: the originator is appended without looking; the guard is inverted.
AlreadyFriendsNever(c) == FALSE
AlreadyFriendsInverted(c) == me[c.dev].friends[c.peer] = 0

AlreadyFriends(c) == me[c.dev].friends[c.peer] > 0

\* The completion of that deletion, on the snapshot taken before it.
RequestDeleted(c) ==
    LET u == c.dev
        mine == AddFriend(me[u], c.peer)
        theirs == SaveUser(u, c.peer, AddFriend(c.snap, u), c.snap)
        rest == [requests[u] EXCEPT ![c.peer] = @ - 1]
    IN
    /\ c.phase = "deleted"
    /\ \/ /\ AlreadyFriends(c)
          /\ UNCHANGED <<queue, me, requests, base, accepted, causes>>
       \/ /\ ~ AlreadyFriends(c)
          /\ me' = [me EXCEPT ![u] = mine]
          /\ accepted' = accepted \cup {<<c.peer, u>>}
          /\ \/ /\ Unlisted(c)
                /\ queue' = [queue EXCEPT ![u] = @ \o theirs]
                /\ causes' = causes \cup {<<"halfAccept", u>>}
                /\ UNCHANGED <<requests, base>>
             \/ /\ ~ Unlisted(c)
                /\ requests' = [requests EXCEPT ![u] = rest]
                /\ base' = [base EXCEPT ![u] = mine]
                /\ queue' = [queue EXCEPT ![u] =
                       @ \o theirs \o SaveData(u, mine, base[u], rest)]
                /\ UNCHANGED causes
    /\ Ends(c)
    /\ UNCHANGED <<server, loggedIn, budget, sent, blockedBy, dropped>>
    /\ NoticeInboxes

-----------------------------------------------------------------------------
(* Firestore and the process *)

\* The call on device u that waits for write e, if it is still there.
Waiting(u, e) == {c \in calls : c.dev = u /\ c.slot = e.slot /\ c.phase = "deleting"}

\* The server commits the device's oldest pending write.  A profile replaces
\* the document; the loss of what changed since the writer knew it is recorded.
Commit(u) ==
    LET e == Head(queue[u]) IN
    /\ queue[u] # <<>>
    /\ queue' = [queue EXCEPT ![u] = Tail(@)]
    /\ \/ /\ e.kind = "profile"
          /\ docs' = [docs EXCEPT ![e.of] = e.val]
          /\ causes' = causes \cup
                 (IF docs[e.of] = e.prev THEN {} ELSE {<<"overwrite", e.of>>})
          /\ UNCHANGED <<inbox, calls>>
       \/ /\ e.kind = "setRequests"
          /\ inbox' = [inbox EXCEPT ![e.of] = @ \cup e.who]
          /\ UNCHANGED <<docs, causes, calls>>
       \/ /\ e.kind = "deleteRequest"
          /\ inbox' = [inbox EXCEPT ![e.of] = @ \ e.who]
          /\ calls' = (calls \ Waiting(u, e)) \cup
                      {[c EXCEPT !.phase = "deleted"] : c \in Waiting(u, e)}
          /\ UNCHANGED <<docs, causes>>
    /\ UNCHANGED <<device, budget, history>>
    /\ NoticeInboxes

\* The server refuses the write: no handler but accept's looks at the error.
Refuse(u) ==
    LET e == Head(queue[u]) IN
    /\ queue[u] # <<>>
    /\ faults < MaxFaults
    /\ faults' = faults + 1
    /\ queue' = [queue EXCEPT ![u] = Tail(@)]
    /\ calls' = calls \ Waiting(u, e)
    /\ causes' = causes \cup {<<"refused", e.of>>}
    /\ UNCHANGED <<server, device, taps, history>>
    /\ NoticeInboxes

\* The process dies.  Pending writes are on disk and survive it; currentUser,
\* the listener and every completion do not.
Relaunch(u) ==
    /\ faults < MaxFaults
    /\ u \in loggedIn
    /\ faults' = faults + 1
    /\ loggedIn' = loggedIn \ {u}
    /\ me' = [me EXCEPT ![u] = Blank]
    /\ base' = [base EXCEPT ![u] = Blank]
    /\ requests' = [requests EXCEPT ![u] = NoFriends]
    /\ queue' = [queue EXCEPT ![u] = [i \in DOMAIN @ |-> [@[i] EXCEPT !.slot = 0]]]
    /\ due' = due \ {u}
    /\ calls' = {c \in calls : c.dev # u}
    /\ dropped' = dropped \cup
           {<<c.peer, u>> : c \in {d \in calls : d.dev = u /\ d.phase \in {"deleting", "deleted"}}}
    /\ UNCHANGED <<server, taps, sent, accepted, blockedBy, causes>>

-----------------------------------------------------------------------------
FriendsAtStart(u) ==
    [friends |-> [v \in Uuid |-> IF <<u, v>> \in InitialFriends THEN 1 ELSE 0],
     blocked |-> {}]

Init ==
    /\ docs = [u \in Uuid |-> FriendsAtStart(u)]
    /\ inbox = [u \in Uuid |-> {}]
    /\ queue = [u \in Uuid |-> <<>>]
    /\ loggedIn = {}
    /\ me = [u \in Uuid |-> Blank]
    /\ requests = [u \in Uuid |-> NoFriends]
    /\ due = {}
    /\ calls = {}
    /\ taps = 0
    /\ faults = 0
    /\ base = [u \in Uuid |-> Blank]
    /\ sent = InitialFriends
    /\ accepted = InitialFriends
    /\ blockedBy = {}
    /\ dropped = {}
    /\ causes = {}

Taps(u) ==
    \E v \in Uuid :
        \/ AddUserButtonPressed(u, v)
        \/ UnfriendSwiped(u, v)
        \/ BlockSwiped(u, v)
        \/ IgnoreSwiped(u, v)
        \/ RequestBlockSwiped(u, v)
        \/ AddFwen(u, v)

Completion(c) ==
    \/ LoggedIn(c)
    \/ RequestsLoaded(c)
    \/ SendFriendRequest(c)
    \/ IgnoreFriendRequest(c)
    \/ Unfriended(c)
    \/ BlockUser(c)
    \/ AcceptFriendRequest(c)
    \/ RequestDeleted(c)

Next ==
    \/ \E u \in Uuid : \/ LogInButtonTapped(u)
                       \/ Taps(u)
                       \/ ListenerFires(u)
                       \/ Commit(u)
                       \/ Refuse(u)
                       \/ Relaunch(u)
    \/ \E c \in calls : Answer(c) \/ LookupFails(c) \/ Completion(c)

Spec == Init /\ [][Next]_vars

\* A connected device's lookups are answered and its writes committed, its main
\* queue runs the completions and the listener; nobody has to tap.
Fairness ==
    \A u \in Uuid :
        /\ WF_vars(Commit(u))
        /\ WF_vars(ListenerFires(u))
        /\ WF_vars(\E c \in calls : c.dev = u /\ Answer(c))
        /\ WF_vars(\E c \in calls : c.dev = u /\ Completion(c))

FairSpec == Spec /\ Fairness

-----------------------------------------------------------------------------
(* Properties *)

\* Every variable keeps its type (saveData and toFireObj write what User holds).
TypeOK ==
    /\ docs \in [Uuid -> Profile]
    /\ inbox \in [Uuid -> SUBSET Uuid]
    /\ queue \in [Uuid -> Seq(Write)]
    /\ loggedIn \in SUBSET Uuid
    /\ me \in [Uuid -> Profile]
    /\ requests \in [Uuid -> [Uuid -> Nat]]
    /\ due \in SUBSET Uuid
    /\ calls \in SUBSET Call
    /\ taps \in 0..MaxTaps
    /\ faults \in 0..MaxFaults
    /\ base \in [Uuid -> Profile]
    /\ sent \in SUBSET (Uuid \X Uuid)
    /\ accepted \in SUBSET (Uuid \X Uuid)
    /\ blockedBy \in SUBSET (Uuid \X Uuid)
    /\ dropped \in SUBSET (Uuid \X Uuid)
    /\ causes \in SUBSET ({"overwrite", "halfAccept", "halfUnfriend", "refused"} \X Uuid)

\* Two users who shook hands: one asked, the other accepted.
Met(u, v) == <<u, v>> \in accepted \/ <<v, u>> \in accepted

\* p may be the profile of u as far as its friends list goes.
FriendsMet(u, p) == \A v \in Uuid : p.friends[v] > 0 => Met(u, v)

\* A friend that the document of u lists is one who asked u or whom u asked, with
\* the request accepted: saveUser writing another user's document from a snapshot
\* never invents a friend.
FriendsMetInDocs == \A u \in Uuid : FriendsMet(u, docs[u])

\* A request is on the server or in a device's list only if its sender has pressed
\* the add button for that receiver: saveData writing the listed requests again
\* and loadCurrentFriendRequests appending what it found never invent one; and
\* nobody is accepted who did not ask.
RequestsWereSent ==
    /\ \A u \in Uuid : \A w \in inbox[u] \cup Listed(requests[u]) : <<w, u>> \in sent
    /\ accepted \subseteq sent

\* The friends a document lists, as a set.
ListedFriends(u) == {v \in Uuid : docs[u].friends[v] > 0}

Promise == INSTANCE Handshake WITH
    asked <- sent, agreed <- accepted, lists <- [u \in Uuid |-> ListedFriends(u)]

\* The documents implement the handshake: a request precedes every acceptance,
\* an acceptance every listing, and each commit rewrites one user's list.
ImplementsHandshake == Promise!Spec

\* The blocked list of a document holds only users its owner has blocked,
\* whichever device wrote the document.
BlockedByOwner ==
    \A u \in Uuid : \A v \in docs[u].blocked : <<u, v>> \in blockedBy

\* No write pending, no call in flight.
Quiet == calls = {} /\ \A u \in Uuid : queue[u] = <<>>

\* When everything has settled, a friendship is on both documents or on neither,
\* unless a save overwrote a document that had changed since its writer knew it,
\* a guard returned between the two halves of an accept or an unfriend, or the
\* server refused a write.
AsymmetryHasCause ==
    Quiet /\ causes = {} =>
        \A u, v \in Uuid : docs[u].friends[v] > 0 <=> docs[v].friends[u] > 0

\* When everything has settled, a block its owner's device has saved is in the
\* owner's document, unless the document was overwritten or a write refused.
BlockLossHasCause ==
    Quiet => \A p \in blockedBy :
        \/ p[2] \in docs[p[1]].blocked
        \/ <<"overwrite", p[1]>> \in causes
        \/ <<"refused", p[1]>> \in causes

\* When everything has settled, a request whose sender's phone has written it is
\* in the receiver's inbox, or has made the two friends, unless the receiver has
\* ignored it, the receiver's process died in acceptFriendRequest between deleting
\* the request and saving the friendship, or the server refused a write: no order
\* of deletions, repeated requests and saveData loses one.
RequestGoneHasCause ==
    Quiet => \A p \in sent :
        \/ p[1] \in inbox[p[2]]
        \/ Met(p[1], p[2])
        \/ p \in dropped
        \/ <<"refused", p[2]>> \in causes

\* No document lists a friend twice (unfriendUser removes one entry only), with
\* the same exceptions: acceptFriendRequest appends to the originator's snapshot
\* without looking whether it lists the receiver already.
DuplicateHasCause ==
    Quiet /\ causes = {} => \A u, v \in Uuid : docs[u].friends[v] <= 1

\* A request in the inbox of a user who is logged in is shown by that device, or
\* leaves the inbox: the listener's events reach loadCurrentFriendRequests and
\* its answers reach currentUser.
RequestShown ==
    \A u, w \in Uuid :
        (w \in inbox[u] /\ u \in loggedIn) ~> (requests[u][w] > 0 \/ w \notin inbox[u])

\* Accepting a request puts the receiver on the originator's document, whatever
\* else both devices do meanwhile: lookup, deletion, acknowledgement and saveUser
\* are all gone through.
AcceptReachesOriginator ==
    \A u, w \in Uuid :
        (me[u].friends[w] = 0 /\ \E c \in calls : c.dev = u /\ c.op = "accept" /\ c.peer = w)
            ~> docs[w].friends[u] > 0

\* The block action of a row leaves the user of that row blocked.
BlockActionBlocks ==
    [][\A c \in calls : c \notin calls' /\ (Answered(c, "block") \/ Answered(c, "decline"))
            => c.peer \in me'[c.dev].blocked]_vars

\* README.md:5: "Any info that user inputs into the app is saved in Firebase".
BlocksAreSaved == Quiet => \A p \in blockedBy : p[2] \in docs[p[1]].blocked
=============================================================================
