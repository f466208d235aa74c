-------------------------------- MODULE Chats --------------------------------
(***************************************************************************)
(* Chats: MenTableViewController (the list and its plus button), FriendCell   *)
(* (the message button of a friend), ChatsController and the chat screen      *)
(* NoChatViewController, against the Chats collection, whose documents name   *)
(* two users and own a thread of messages.                                   *)
(*                                                                         *)
(* A screen is opened from the friend list, or from the row of a chat its      *)
(* user has made; the row of a chat made by the other one ends the process,   *)
(* for want of a view controller "ppchat" in the storyboard.                  *)
(*                                                                         *)
(* The storyboard names ChatViewController, whose file is not in the           *)
(* repository; NoChatViewController is the version of it that is.  No line of  *)
(* the source makes its first call of loadChat (viewDidLoad, lines 20-24, does *)
(* not, and the comment at line 137 says it will): LoadRequested stands for    *)
(* that file.  It is external, at no particular time and without fairness.    *)
(*                                                                         *)
(* Nothing ties a pair of users to one document: a chat is made by           *)
(* addDocument, and a screen takes the first document that names its target.  *)
(* Documents come ordered by their random ids, here numbers.  Pending writes  *)
(* are as in FriendGraph: visible to their device at once, committed in order.*)
(***************************************************************************)
EXTENDS Naturals, Sequences

CONSTANTS
    Uuid,       \* the users, each with one device
    Nobody,     \* no user
    MaxCalls,   \* bound: calls in flight per device, besides the list's
    MaxTaps,    \* bound: taps and sent messages, all devices together
    MaxFaults   \* bound: relaunches, failed lookups and refused writes

ASSUME ChatsAssumption ==
    /\ Nobody \notin Uuid
    /\ MaxCalls \in Nat \ {0}
    /\ MaxTaps \in Nat
    /\ MaxFaults \in Nat

VARIABLES
    chats,      \* Chats on the server: pairs <<id, users>>
    threads,    \* the messages of each chat on the server: pairs <<id, message>>
    queue,      \* the device's pending writes, oldest first
    opened,     \* devices whose chat list has been shown: ChatsController exists
    list,       \* ChatsController.chats: the users of each chat
    screen,     \* the chat screen: target user, docReference and messages
    due,        \* devices whose thread listener has an event to deliver
    calls,      \* lookups whose completion has not run
    taps,       \* taps used
    faults,     \* faults used
    sent,       \* history: messages typed and sent
    unattached, \* history: messages sent before docReference was set
    refused,    \* history: refused writes
    blind,      \* history: sets of users who were given another chat
    stuck       \* history: devices whose screen met a failed lookup or refused chat
                \*          since the process began

vars == <<chats, threads, queue, opened, list, screen, due, calls, taps, faults,
          sent, unattached, refused, blind, stuck>>

server  == <<chats, threads>>
budget  == <<taps, faults>>
history == <<sent, unattached, refused, blind, stuck>>

-----------------------------------------------------------------------------
(* Data *)

\* A tap makes at most one chat, so there are ids enough.
ChatId == 1..MaxTaps

\* The users array of a chat, the one who made it first.
Users == Uuid \X Uuid

\* A message, told from others by the number of the tap that sent it.
Message == [from : Uuid, to : Uuid, no : 0..MaxTaps]

\* found is the answer to a query for chats.  The list is queried once, in slot 0.
Call == [dev   : Uuid,
         slot  : 0..MaxCalls,
         op    : {"list", "plus", "row", "invited", "load"},
         peer  : Uuid,
         phase : {"asked", "answered"},
         found : SUBSET (ChatId \X Users)]

\* A pending addDocument: of a chat, whose completion goes on to loadChat when
\* the screen made it, or of a message.
Write == [kind : {"chat"}, id : ChatId, users : Users, load : BOOLEAN]
    \cup [kind : {"message"}, id : ChatId, msg : Message]

\* How often the array of a screen holds each message; its order is left out.
Shown == [Message -> Nat]

\* Each of these messages once.
Once(thread) == [m \in Message |-> IF m \in thread THEN 1 ELSE 0]

Screen == [target : Uuid \cup {Nobody}, doc : ChatId \cup {0}, messages : Shown]

NoScreen == [target |-> Nobody, doc |-> 0, messages |-> Once({})]

Pending(u, kind) == {queue[u][i] : i \in {j \in DOMAIN queue[u] : queue[u][j].kind = kind}}

\* Ids of chats that exist anywhere, or did.
Used == {c[1] : c \in chats} \cup {w.id : w \in refused}
            \cup UNION {{w.id : w \in Pending(u, "chat")} : u \in Uuid}

\* Two arrays of the same two users.
SamePair(p, q) == {p[1], p[2]} = {q[1], q[2]}

\* The users have a chat on the server or in a pending write.
HaveChat(p) ==
    \/ \E c \in chats : SamePair(c[2], p)
    \/ \E u \in Uuid : \E w \in Pending(u, "chat") : SamePair(w.users, p)

\* whereField("users", arrayContains: u), as device u sees it.
ChatsOf(u) ==
    {c \in chats \cup {<<w.id, w.users>> : w \in Pending(u, "chat")} :
        u \in {c[2][1], c[2][2]}}

\* The thread of a chat as device u sees it.
ThreadView(u, id) ==
    {t[2] : t \in {s \in threads : s[1] = id}}
        \cup {w.msg : w \in {x \in Pending(u, "message") : x.id = id}}

\* A listener has an event to deliver wherever its thread looks different.
NoticeThreads ==
    due' = due \cup {u \in Uuid : /\ screen[u].doc # 0
                                  /\ ThreadView(u, screen[u].doc)' # ThreadView(u, screen[u].doc)}

-----------------------------------------------------------------------------
(* Asynchronous calls *)

FreeSlots(u) == {s \in 1..MaxCalls : ~ \E c \in calls : c.dev = u /\ c.slot = s}

\* The call a device begins, given the calls that go on.
NewCall(u, op, v, slots) ==
    [dev |-> u, slot |-> CHOOSE s \in slots : TRUE, op |-> op, peer |-> v,
     phase |-> "asked", found |-> {}]

Begin(u, op, v) ==
    /\ FreeSlots(u) # {}
    /\ calls' = calls \cup {NewCall(u, op, v, FreeSlots(u))}

Ends(c) == calls' = calls \ {c}

\* The table is shown for the first time: ChatsController.init, getNumberofChats.
ChatListShown(u) ==
    /\ u \notin opened
    /\ screen[u] = NoScreen
    /\ opened' = opened \cup {u}
    /\ calls' = calls \cup {NewCall(u, "list", u, {0})}
    /\ UNCHANGED <<server, queue, list, screen, due, budget, history>>

\* A tap on the list, which a chat screen covers.
Tap(u, op, v) ==
    /\ u \in opened
    /\ screen[u] = NoScreen
    /\ taps < MaxTaps
    /\ taps' = taps + 1
    /\ Begin(u, op, v)
    /\ UNCHANGED <<server, queue, opened, list, screen, due, faults, history>>

plusPressed(u, v) == Tap(u, "plus", v)

\* The row of a chat: the other one of its two users is looked up.
didSelectRow(u, p) ==
    /\ p \in list[u]
    /\ IF p[1] = u THEN Tap(u, "row", p[2]) ELSE Tap(u, "invited", p[1])

\* The message button of a friend presents the chat screen at once.
messageTapped(u, v) ==
    /\ screen[u] = NoScreen
    /\ taps < MaxTaps
    /\ taps' = taps + 1
    /\ screen' = [screen EXCEPT ![u].target = v]
    /\ UNCHANGED <<server, queue, opened, list, due, calls, faults, history>>

\* A device is loading: a query for its screen is out, or a chat that its screen
\* has made is pending.
Loading(u) ==
    \/ \E c \in calls : c.dev = u /\ c.op = "load"
    \/ \E w \in Pending(u, "chat") : w.load

\* The screen calls loadChat, from the file that is not there; bound: not again
\* while it is loading, has loaded or has failed to.
LoadRequested(u) ==
    /\ screen[u] # NoScreen
    /\ screen[u].doc = 0
    /\ ~ Loading(u)
    /\ u \notin stuck
    /\ Begin(u, "load", screen[u].target)
    /\ UNCHANGED <<server, queue, opened, list, screen, due, budget, history>>

\* The server answers: of the user lookups only that they succeed matters.
Answer(c) ==
    /\ c.phase = "asked"
    /\ calls' = (calls \ {c}) \cup
           {[c EXCEPT !.phase = "answered",
                      !.found = IF c.op \in {"list", "load"} THEN ChatsOf(c.dev) ELSE {}]}
    /\ UNCHANGED <<server, queue, opened, list, screen, due, budget, history>>

\* All the completions print the error and return.
LookupFails(c) ==
    /\ c.phase = "asked"
    /\ faults < MaxFaults
    /\ faults' = faults + 1
    /\ Ends(c)
    /\ stuck' = IF c.op = "load" THEN stuck \cup {c.dev} ELSE stuck
    /\ UNCHANGED <<server, queue, opened, list, screen, due, taps,
                   sent, unattached, refused, blind>>

-----------------------------------------------------------------------------
(* Completions *)

Answered(c, op) == c.op = op /\ c.phase = "answered"

\* addDocument on Chats: some id that is not in use.
AddChat(u, p, load) ==
    \E id \in ChatId \ Used :
        /\ queue' = [queue EXCEPT ![u] =
               Append(@, [kind |-> "chat", id |-> id, users |-> p, load |-> load])]
        /\ blind' = IF HaveChat(p) THEN blind \cup {{p[1], p[2]}} ELSE blind

getNumberofChats(c) ==
    /\ Answered(c, "list")
    /\ list' = [list EXCEPT ![c.dev] = @ \cup {d[2] : d \in c.found}]
    /\ Ends(c)
    /\ UNCHANGED <<server, queue, opened, screen, due, budget, history>>

createNewChatWith(c) ==
    /\ Answered(c, "plus")
    /\ AddChat(c.dev, <<c.dev, c.peer>>, FALSE)
    /\ Ends(c)
    /\ UNCHANGED <<server, opened, list, screen, due, budget,
                   sent, unattached, refused, stuck>>

\* The process is gone, with the screen and all completions; pending writes stay.
Dies(u) ==
    /\ opened' = opened \ {u}
    /\ list' = [list EXCEPT ![u] = {}]
    /\ screen' = [screen EXCEPT ![u] = NoScreen]
    /\ due' = due \ {u}
    /\ calls' = {c \in calls : c.dev # u}
    /\ queue' = [queue EXCEPT ![u] =
           [i \in DOMAIN @ |-> IF @[i].kind = "chat" THEN [@[i] EXCEPT !.load = FALSE] ELSE @[i]]]
    /\ stuck' = stuck \ {u}

\* The row of a chat the user has made: its screen is presented, though not over
\* another one.
ChatPresented(c) ==
    /\ Answered(c, "row")
    /\ IF screen[c.dev] = NoScreen
       THEN screen' = [screen EXCEPT ![c.dev].target = c.peer]
       ELSE UNCHANGED screen
    /\ Ends(c)
    /\ UNCHANGED <<server, queue, opened, list, due, budget, history>>

\* The row of a chat the other user has made: there is no "ppchat" to instantiate.
ChatTraps(c) ==
    /\ Answered(c, "invited")
    /\ Dies(c.dev)
    /\ UNCHANGED <<server, budget, sent, unattached, refused, blind>>

\* Mutant: the completion does not call loadChat.
createNewChatOnly(u, v) == AddChat(u, <<u, v>>, FALSE)

\* createNewChat, whose completion calls loadChat again.
createNewChat(u, v) == AddChat(u, <<u, v>>, TRUE)

\* Mutant: every chat of the current user will do.
NamesAnyone(users, target) == TRUE

\* The test in the loop of loadChat.
Names(users, target) == target \in {users[1], users[2]}

\* loadChat: the first chat that names the target, or a new one.
loadChat(c) ==
    LET found == {d[1] : d \in {e \in c.found : Names(e[2], c.peer)}} IN
    /\ Answered(c, "load")
    /\ \/ /\ found = {}
          /\ createNewChat(c.dev, c.peer)
          /\ UNCHANGED <<screen, due>>
       \/ /\ found # {}
          /\ screen' = [screen EXCEPT ![c.dev].doc =
                 CHOOSE id \in found : \A other \in found : id <= other]
          /\ due' = due \cup {c.dev}
          /\ UNCHANGED <<queue, blind>>
    /\ Ends(c)
    /\ UNCHANGED <<server, opened, list, budget, sent, unattached, refused, stuck>>

\* Mutant: the list is not emptied before it is filled.
RefilledOnTop(old, thread) == [m \in Message |-> old[m] + Once(thread)[m]]

\* messages.removeAll, then one append per document of the thread.
Refilled(old, thread) == Once(thread)

ThreadListener(u) ==
    /\ u \in due
    /\ due' = due \ {u}
    /\ screen' = [screen EXCEPT ![u].messages = Refilled(@, ThreadView(u, screen[u].doc))]
    /\ UNCHANGED <<server, queue, opened, list, calls, budget, history>>

\* Mutant: docReference is not checked for nil.
saveUnguarded(u, m) == <<[kind |-> "message", id |-> screen[u].doc, msg |-> m]>>

\* Mutant: the message is only shown.
saveNothing(u, m) == <<>>

\* save: an addDocument on the thread, if there is a docReference.
save(u, m) ==
    IF screen[u].doc = 0 THEN <<>>
    ELSE <<[kind |-> "message", id |-> screen[u].doc, msg |-> m]>>

\* The send button: insertNewMessage, then save.
didPressSendButton(u) ==
    LET m == [from |-> u, to |-> screen[u].target, no |-> taps] IN
    /\ screen[u] # NoScreen
    /\ taps < MaxTaps
    /\ taps' = taps + 1
    /\ screen' = [screen EXCEPT ![u].messages[m] = @ + 1]
    /\ queue' = [queue EXCEPT ![u] = @ \o save(u, m)]
    /\ sent' = sent \cup {m}
    /\ unattached' = IF screen[u].doc = 0 THEN unattached \cup {m} ELSE unattached
    /\ UNCHANGED <<server, opened, list, calls, faults, refused, blind, stuck>>
    /\ NoticeThreads

-----------------------------------------------------------------------------
(* Firestore and the process *)

\* The server commits the oldest write; the completion of a chat that the screen
\* made calls loadChat.
Commit(u) ==
    LET e == Head(queue[u]) IN
    /\ queue[u] # <<>>
    /\ queue' = [queue EXCEPT ![u] = Tail(@)]
    /\ \/ /\ e.kind = "chat"
          /\ chats' = chats \cup {<<e.id, e.users>>}
          /\ IF e.load THEN Begin(u, "load", screen[u].target) ELSE UNCHANGED calls
          /\ UNCHANGED threads
       \/ /\ e.kind = "message"
          /\ threads' = threads \cup {<<e.id, e.msg>>}
          /\ UNCHANGED <<chats, calls>>
    /\ UNCHANGED <<opened, list, screen, budget, history>>
    /\ NoticeThreads

\* The server refuses it, which the completions print.
Refuse(u) ==
    LET e == Head(queue[u]) IN
    /\ queue[u] # <<>>
    /\ faults < MaxFaults
    /\ faults' = faults + 1
    /\ queue' = [queue EXCEPT ![u] = Tail(@)]
    /\ refused' = refused \cup {e}
    /\ stuck' = IF e.kind = "chat" /\ e.load THEN stuck \cup {u} ELSE stuck
    /\ UNCHANGED <<server, opened, list, screen, calls, taps, sent, unattached, blind>>
    /\ NoticeThreads

\* The process dies and is started again.
Relaunch(u) ==
    /\ faults < MaxFaults
    /\ u \in opened \/ screen[u] # NoScreen
    /\ faults' = faults + 1
    /\ Dies(u)
    /\ UNCHANGED <<server, taps, sent, unattached, refused, blind>>

-----------------------------------------------------------------------------
Init ==
    /\ chats = {}
    /\ threads = {}
    /\ queue = [u \in Uuid |-> <<>>]
    /\ opened = {}
    /\ list = [u \in Uuid |-> {}]
    /\ screen = [u \in Uuid |-> NoScreen]
    /\ due = {}
    /\ calls = {}
    /\ taps = 0
    /\ faults = 0
    /\ sent = {}
    /\ unattached = {}
    /\ refused = {}
    /\ blind = {}
    /\ stuck = {}

Completion(c) ==
    \/ getNumberofChats(c)
    \/ createNewChatWith(c)
    \/ ChatPresented(c)
    \/ ChatTraps(c)
    \/ loadChat(c)

Next ==
    \/ \E u \in Uuid : \/ ChatListShown(u)
                       \/ \E v \in Uuid : plusPressed(u, v) \/ messageTapped(u, v)
                       \/ \E p \in list[u] : didSelectRow(u, p)
                       \/ LoadRequested(u)
                       \/ didPressSendButton(u)
                       \/ ThreadListener(u)
                       \/ Commit(u)
                       \/ Refuse(u)
                       \/ Relaunch(u)
    \/ \E c \in calls : Answer(c) \/ LookupFails(c) \/ Completion(c)

Spec == Init /\ [][Next]_vars

\* As in FriendGraph: lookups are answered, writes committed, completions and
\* listeners run; nobody has to tap.
Fairness ==
    \A u \in Uuid :
        /\ WF_vars(Commit(u))
        /\ WF_vars(ThreadListener(u))
        /\ WF_vars(\E c \in calls : c.dev = u /\ Answer(c))
        /\ WF_vars(\E c \in calls : c.dev = u /\ Completion(c))

FairSpec == Spec /\ Fairness

-----------------------------------------------------------------------------
(* Properties *)

\* Every variable keeps its type (what ChatsController and the screen hold, and
\* what addDocument stores).
TypeOK ==
    /\ chats \in SUBSET (ChatId \X Users)
    /\ threads \in SUBSET (ChatId \X Message)
    /\ queue \in [Uuid -> Seq(Write)]
    /\ opened \in SUBSET Uuid
    /\ list \in [Uuid -> SUBSET Users]
    /\ screen \in [Uuid -> Screen]
    /\ due \in SUBSET Uuid
    /\ calls \in SUBSET Call
    /\ taps \in 0..MaxTaps
    /\ faults \in 0..MaxFaults
    /\ sent \in SUBSET Message
    /\ unattached \in SUBSET sent
    /\ refused \in SUBSET Write
    /\ blind \in SUBSET SUBSET Uuid
    /\ stuck \in SUBSET Uuid

\* A message reaches only a chat of its sender and of the user it was meant for,
\* so no third user reads it.  (A chat with oneself is the exception: the first
\* chat that names oneself may be one with somebody else.)
MessageStaysInPair ==
    \A c \in chats : \A t \in threads :
        c[1] = t[1] /\ t[2].from # t[2].to => SamePair(c[2], <<t[2].from, t[2].to>>)

\* Two users who have opened their chat with one another write to one thread,
\* unless a second chat was added for them or the first was refused after a
\* screen had taken it: "first document that names the target" is agreed upon
\* only as long as there is one.
SplitHasCause ==
    \A u, v \in Uuid :
        /\ u # v /\ screen[u].target = v /\ screen[v].target = u
        /\ screen[u].doc # 0 /\ screen[v].doc # 0
        /\ screen[u].doc # screen[v].doc
        => \/ {u, v} \in blind
           \/ \E w \in refused : w.kind = "chat" /\ SamePair(w.users, <<u, v>>)

\* No write pending, no lookup or listener event outstanding.
Quiet == calls = {} /\ due = {} /\ \A u \in Uuid : queue[u] = <<>>

\* When everything has settled, a message is in a thread, unless it was sent
\* before the screen had its docReference or its write was refused.
LostMessageHasCause ==
    Quiet => \A m \in sent :
        \/ \E t \in threads : t[2] = m
        \/ m \in unattached
        \/ \E w \in refused : w.kind = "message" /\ w.msg = m

\* When everything has settled, an open chat shows every message of its thread
\* once and nothing else: insertNewMessage, which appends locally, and the
\* listener, which refills, do not leave a message twice, too many or too few.
ScreenShowsThread ==
    Quiet => \A u \in Uuid : screen[u].doc # 0 =>
        screen[u].messages = Once(ThreadView(u, screen[u].doc))

\* Once loadChat is called, its screen gets a docReference, found or made (by way
\* of createNewChat, its completion and loadChat again), unless a lookup failed,
\* the chat was refused, or the process died.
ScreenLoads ==
    \A u \in Uuid : Loading(u) ~> (screen[u].doc # 0 \/ u \in stuck \/ screen[u] = NoScreen)

\* ChatViewController_possiblyBad.swift:29: "calling function to insert and save
\* message": when everything has settled, and the screen has its docReference, a
\* message sent is in a thread.
SentIsSaved ==
    Quiet /\ refused = {} => \A m \in sent :
        screen[m.from].doc # 0 => \E t \in threads : t[2] = m
=============================================================================
