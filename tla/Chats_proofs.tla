----------------------------- MODULE Chats_proofs -----------------------------
(***************************************************************************)
(* Theorems about Chats for every set of users and every bound.             *)
(*                                                                         *)
(* A chat, and a message, is in several places one after the other: pending  *)
(* on a device, on the server, refused, found by a lookup, shown.  The        *)
(* invariant speaks of all of them together: an id is given once, a screen    *)
(* and a message hold an id of their own pair, and a second chat for a pair   *)
(* is made only where one could be seen.                                     *)
(***************************************************************************)
EXTENDS Chats, QueueLemmas, WellFoundedInduction

-----------------------------------------------------------------------------
(* The inductive invariant *)

\* The chats that are there: on the server or pending on a device.
PendingChats(u) == {<<w.id, w.users>> : w \in Pending(u, "chat")}
Live == chats \cup UNION {PendingChats(u) : u \in Uuid}

RefusedChats == {<<w.id, w.users>> : w \in {x \in refused : x.kind = "chat"}}

\* The chats there ever were.
Known == Live \cup RefusedChats

\* The messages with their chats, on the server or pending on a device.
PendingMessages(u) == {<<w.id, w.msg>> : w \in Pending(u, "message")}
Stored == threads \cup UNION {PendingMessages(u) : u \in Uuid}

\* The chat is one of u and v.  Of a user's chat with oneself that cannot be said.
Between(c, u, v) == u # v => SamePair(c[2], <<u, v>>)

\* An id is given to one chat only.
IdsUnique == \A c, d \in Known : c[1] = d[1] => c = d

\* A second chat for two users has left its trace.
PairsMarked ==
    \A c, d \in Live : c[1] # d[1] /\ SamePair(c[2], d[2]) => {c[2][1], c[2][2]} \in blind

\* A lookup has found chats of its own user.
FoundOwn ==
    \A c \in calls : \A d \in c.found : d \in Known /\ c.dev \in {d[2][1], d[2][2]}

\* Whatever loads a chat, or will when its write is committed, does so for the
\* target of the screen that is there.
LoadsForScreen ==
    /\ \A c \in calls : c.op = "load" => screen[c.dev].target = c.peer
    /\ \A u \in Uuid : \A w \in Pending(u, "chat") : w.load => screen[u].target \in Uuid

\* A screen holds a chat of its user and its target.
ScreensOwn ==
    \A u \in Uuid :
        /\ screen[u].target = Nobody => screen[u] = NoScreen
        /\ screen[u].doc # 0 =>
               \E c \in Known : c[1] = screen[u].doc /\ Between(c, u, screen[u].target)
        /\ u \in due => screen[u].doc # 0

\* So does a message.
MessagesOwn ==
    \A t \in Stored : \E c \in Known : c[1] = t[1] /\ Between(c, t[2].from, t[2].to)

\* A message sent is in a thread, pending, unattached or refused.
SentSomewhere ==
    \A m \in sent : \/ \E t \in Stored : t[2] = m
                    \/ m \in unattached
                    \/ \E w \in refused : w.kind = "message" /\ w.msg = m

\* A message that is stored was sent by an earlier tap, so the next one is new.
StoredEarlier == \A t \in Stored : t[2].no < taps

\* A screen that has no event to come shows each message of its thread once.
ShownUnlessDue ==
    \A u \in Uuid : screen[u].doc # 0 /\ u \notin due =>
        screen[u].messages = Once(ThreadView(u, screen[u].doc))

IInv ==
    /\ TypeOK
    /\ IdsUnique
    /\ PairsMarked
    /\ FoundOwn
    /\ LoadsForScreen
    /\ ScreensOwn
    /\ MessagesOwn
    /\ SentSomewhere
    /\ StoredEarlier
    /\ ShownUnlessDue

-----------------------------------------------------------------------------
(* Queues *)

\* What is pending are the elements of the queue, by kind.
LEMMA PendingElements ==
    ASSUME NEW u, NEW kind
    PROVE  Pending(u, kind) = {w \in Elements(queue[u]) : w.kind = kind}
BY DEF Pending, Elements

\* The pending writes of a kind, in the next state.
LEMMA PendingElementsNext ==
    ASSUME NEW u, NEW kind
    PROVE  Pending(u, kind)' = {w \in Elements(queue'[u]) : w.kind = kind}
BY DEF Pending, Elements

\* A pending write is a write of its kind.
LEMMA PendingTyped ==
    ASSUME TypeOK, NEW u \in Uuid, NEW kind, NEW w \in Pending(u, kind)
    PROVE  w \in Write /\ w.kind = kind
<1>1. queue[u] \in Seq(Write)
  BY DEF TypeOK
<1>2. QED
  BY <1>1, LenProperties DEF Pending

\* A write added to a queue.
Adds(u, w) == queue' = [queue EXCEPT ![u] = Append(@, w)]

\* A write that is added is pending with its kind, and nothing else changes.
LEMMA PendingAdded ==
    ASSUME TypeOK, NEW u \in Uuid, NEW w \in Write, Adds(u, w)
    PROVE  /\ queue' \in [Uuid -> Seq(Write)]
           /\ \A v \in Uuid, kind \in {"chat", "message"} :
                 Pending(v, kind)' = IF v = u /\ w.kind = kind THEN Pending(v, kind) \cup {w}
                                                               ELSE Pending(v, kind)
<1>1. queue[u] \in Seq(Write)
  BY DEF TypeOK
<1>2. /\ Append(queue[u], w) \in Seq(Write)
      /\ Elements(Append(queue[u], w)) = Elements(queue[u]) \cup {w}
  BY <1>1, AppendElements
<1>3. queue' \in [Uuid -> Seq(Write)]
  BY <1>2 DEF Adds, TypeOK
<1>4. \A v \in Uuid : queue'[v] = IF v = u THEN Append(queue[u], w) ELSE queue[v]
  BY DEF Adds, TypeOK
<1>5. \A v \in Uuid : Elements(queue'[v]) = IF v = u THEN Elements(queue[v]) \cup {w}
                                                    ELSE Elements(queue[v])
  BY <1>2, <1>4
<1>6. QED
  BY <1>3, <1>5, PendingElements, PendingElementsNext

\* The oldest write leaves a queue.
Shortens(u) == queue[u] # <<>> /\ queue' = [queue EXCEPT ![u] = Tail(@)]

\* Only the oldest write of one device stops being pending.
LEMMA PendingShortened ==
    ASSUME TypeOK, NEW u \in Uuid, Shortens(u)
    PROVE  LET e == Head(queue[u]) IN
           /\ queue' \in [Uuid -> Seq(Write)]
           /\ e \in Write /\ e.kind \in {"chat", "message"} /\ e \in Pending(u, e.kind)
           /\ \A v \in Uuid : \A kind : Pending(v, kind)' \subseteq Pending(v, kind)
           /\ \A v \in Uuid : \A kind : \A w \in Pending(v, kind) :
                 w \in Pending(v, kind)' \/ (v = u /\ w = e)
<1> DEFINE e == Head(queue[u])
<1>1. queue[u] \in Seq(Write) /\ queue[u] # <<>>
  BY DEF TypeOK, Shortens
<1>2. /\ e \in Write /\ Tail(queue[u]) \in Seq(Write)
      /\ Elements(queue[u]) = {e} \cup Elements(Tail(queue[u]))
  BY <1>1, HeadTailElements
<1> HIDE DEF e
<1>3. queue' \in [Uuid -> Seq(Write)]
  BY <1>2 DEF Shortens, TypeOK
<1>4. \A v \in Uuid : queue'[v] = IF v = u THEN Tail(queue[u]) ELSE queue[v]
  BY DEF Shortens, TypeOK
<1>5. \A v \in Uuid : /\ Elements(queue'[v]) \subseteq Elements(queue[v])
                      /\ \A w \in Elements(queue[v]) :
                            w \in Elements(queue'[v]) \/ (v = u /\ w = e)
  BY <1>2, <1>4
<1>6. e.kind \in {"chat", "message"} /\ e \in Pending(u, e.kind)
  BY <1>2, PendingElements DEF Write
<1>7. \A v \in Uuid : \A kind : Pending(v, kind)' \subseteq Pending(v, kind)
  BY <1>5, PendingElements, PendingElementsNext
<1>8. \A v \in Uuid : \A kind : \A w \in Pending(v, kind) :
          w \in Pending(v, kind)' \/ (v = u /\ w = e)
  BY <1>5, PendingElements, PendingElementsNext
<1>9. QED
  BY <1>2, <1>3, <1>6, <1>7, <1>8 DEF e

\* A dead process forgets that a chat it is making was for its screen.
Forgets(u) ==
    queue' = [queue EXCEPT ![u] =
        [i \in DOMAIN @ |-> IF @[i].kind = "chat" THEN [@[i] EXCEPT !.load = FALSE] ELSE @[i]]]

\* A relaunch takes the completion from the pending chats of the device, and no write.
LEMMA PendingForgotten ==
    ASSUME TypeOK, NEW u \in Uuid, Forgets(u)
    PROVE  /\ queue' \in [Uuid -> Seq(Write)]
           /\ \A v \in Uuid : Pending(v, "message")' = Pending(v, "message")
           /\ \A v \in Uuid : PendingChats(v)' = PendingChats(v)
           /\ \A v \in Uuid : \A w \in Pending(v, "chat")' :
                 w.load => v # u /\ w \in Pending(v, "chat")
<1> DEFINE q == queue[u]
           t == [i \in DOMAIN q |-> IF q[i].kind = "chat" THEN [q[i] EXCEPT !.load = FALSE]
                                                          ELSE q[i]]
<1>1. q \in Seq(Write) /\ \A i \in DOMAIN q : q[i] \in Write
  <2>1. q \in Seq(Write)
    BY DEF TypeOK
  <2>2. QED
    BY <2>1, LenProperties
<1>2. \A v \in Uuid : queue'[v] = IF v = u THEN t ELSE queue[v]
  BY DEF Forgets, TypeOK
<1>3. \A i \in DOMAIN q :
          /\ t[i] \in Write /\ t[i].kind = q[i].kind /\ t[i].id = q[i].id
          /\ q[i].kind = "chat" => t[i].users = q[i].users /\ t[i].load = FALSE
          /\ q[i].kind = "message" => t[i] = q[i]
  BY <1>1 DEF Write
<1>4. DOMAIN t = DOMAIN q
  OBVIOUS
<1>5. t \in Seq(Write)
  BY <1>1, <1>3, <1>4, MapElements
<1>6. queue' \in [Uuid -> Seq(Write)]
  BY <1>5 DEF Forgets, TypeOK
<1> HIDE DEF t
<1>7. \A v \in Uuid : \A kind : v # u => Pending(v, kind)' = Pending(v, kind)
  BY <1>2, PendingElements, PendingElementsNext
<1>8. \A kind, w : w \in Pending(u, kind)' <=> \E i \in DOMAIN q : w = t[i] /\ q[i].kind = kind
  BY <1>2, <1>3, <1>4, PendingElementsNext DEF Elements
<1>9. \A kind, w : w \in Pending(u, kind) <=> \E i \in DOMAIN q : w = q[i] /\ q[i].kind = kind
  BY PendingElements DEF Elements
<1>10. Pending(u, "message")' = Pending(u, "message")
  <2>1. \A i \in DOMAIN q : q[i].kind = "message" => t[i] = q[i]
    BY <1>3
  <2>2. \A w : w \in Pending(u, "message")' <=> w \in Pending(u, "message")
    BY <1>8, <1>9, <2>1
  <2>3. QED
    BY <2>2
<1>11. PendingChats(u)' = PendingChats(u)
  <2>1. \A c : c \in PendingChats(u)' <=>
            \E i \in DOMAIN q : q[i].kind = "chat" /\ c = <<t[i].id, t[i].users>>
    BY <1>8 DEF PendingChats
  <2>2. \A c : c \in PendingChats(u) <=>
            \E i \in DOMAIN q : q[i].kind = "chat" /\ c = <<q[i].id, q[i].users>>
    BY <1>9 DEF PendingChats
  <2>3. \A i \in DOMAIN q : q[i].kind = "chat" =>
            <<t[i].id, t[i].users>> = <<q[i].id, q[i].users>>
    BY <1>3
  <2>4. \A c : c \in PendingChats(u)' <=> c \in PendingChats(u)
    BY <2>1, <2>2, <2>3
  <2>5. QED
    BY <2>4
<1>12. \A v \in Uuid : v # u => PendingChats(v)' = PendingChats(v)
  BY <1>7 DEF PendingChats
<1>13. \A w \in Pending(u, "chat")' : ~ w.load
  BY <1>3, <1>8
<1>14. QED
  BY <1>6, <1>7, <1>10, <1>11, <1>12, <1>13

-----------------------------------------------------------------------------
(* Chats and threads *)

\* Every chat there ever was has an id in use, and two users.
LEMMA KnownUsed ==
    ASSUME TypeOK, NEW c \in Known
    PROVE  c[1] \in Used /\ c \in ChatId \X Users /\ c = <<c[1], c[2]>>
<1>1. CASE c \in chats
  BY <1>1 DEF Used, TypeOK
<1>2. ASSUME NEW u \in Uuid, NEW w \in Pending(u, "chat"), c = <<w.id, w.users>>
      PROVE  c[1] \in Used /\ c \in ChatId \X Users
  <2>1. w \in Write /\ w.kind = "chat"
    BY PendingTyped
  <2>2. QED
    BY <1>2, <2>1 DEF Used, Write
<1>3. ASSUME NEW w \in refused, w.kind = "chat", c = <<w.id, w.users>>
      PROVE  c[1] \in Used /\ c \in ChatId \X Users
  BY <1>3 DEF Used, TypeOK, Write
<1>4. c[1] \in Used /\ c \in ChatId \X Users
  BY <1>1, <1>2, <1>3 DEF Known, Live, PendingChats, RefusedChats
<1>5. QED
  BY <1>4

\* What is stored are messages with numbers of taps.
LEMMA StoredTyped ==
    ASSUME TypeOK, NEW t \in Stored
    PROVE  t = <<t[1], t[2]>> /\ t[2] \in Message /\ t[2].no \in Nat
<1>1. ASSUME NEW u \in Uuid, NEW w \in Pending(u, "message"), t = <<w.id, w.msg>>
      PROVE  t[2] \in Message
  <2>1. w \in Write /\ w.kind = "message"
    BY PendingTyped
  <2>2. QED
    BY <1>1, <2>1 DEF Write
<1>2. t = <<t[1], t[2]>> /\ t[2] \in Message
  BY <1>1 DEF Stored, PendingMessages, TypeOK
<1>3. QED
  BY <1>2, ChatsAssumption DEF Message

\* Whatever is shown once is a content of the array of a screen.
LEMMA OnceShown ==
    ASSUME NEW thread
    PROVE  Once(thread) \in Shown
BY DEF Once, Shown

\* The empty screen is a screen.
LEMMA NoScreenIsScreen ==
    NoScreen \in Screen /\ NoScreen.doc = 0 /\ NoScreen.target = Nobody
BY OnceShown DEF NoScreen, Screen

\* A thread as a device sees it: what is stored on the server or pending there.
LEMMA ThreadViewMembers ==
    ASSUME TypeOK, NEW u \in Uuid, NEW id, NEW m
    PROVE  m \in ThreadView(u, id) <=> <<id, m>> \in threads \cup PendingMessages(u)
<1>1. \A s \in threads : s = <<s[1], s[2]>>
  BY DEF TypeOK
<1>2. m \in {t[2] : t \in {s \in threads : s[1] = id}} <=> <<id, m>> \in threads
  BY <1>1
<1>3. m \in {w.msg : w \in {x \in Pending(u, "message") : x.id = id}}
      <=> <<id, m>> \in PendingMessages(u)
  BY DEF PendingMessages
<1>4. QED
  BY <1>2, <1>3 DEF ThreadView

\* What a device sees of a thread, in the next state.
LEMMA ThreadViewMembersNext ==
    ASSUME TypeOK', NEW u \in Uuid, NEW id, NEW m
    PROVE  m \in ThreadView(u, id)' <=> <<id, m>> \in threads' \cup PendingMessages(u)'
<1>1. \A s \in threads' : s = <<s[1], s[2]>>
  BY DEF TypeOK
<1>2. m \in {t[2] : t \in {s \in threads' : s[1] = id}} <=> <<id, m>> \in threads'
  BY <1>1
<1>3. m \in {w.msg : w \in {x \in Pending(u, "message")' : x.id = id}}
      <=> <<id, m>> \in PendingMessages(u)'
  BY DEF PendingMessages
<1>4. QED
  BY <1>2, <1>3 DEF ThreadView

\* Where NoticeThreads notices nothing, the screen is as good as it was.
LEMMA Unnoticed ==
    ASSUME IInv, NoticeThreads, NEW v \in Uuid, screen'[v] = screen[v],
           screen[v].doc # 0, v \notin due'
    PROVE  screen'[v].messages = Once(ThreadView(v, screen[v].doc)')
<1>1. v \notin due /\ ThreadView(v, screen[v].doc)' = ThreadView(v, screen[v].doc)
  BY DEF NoticeThreads
<1>2. screen[v].messages = Once(ThreadView(v, screen[v].doc))
  BY <1>1 DEF IInv, ShownUnlessDue
<1>3. QED
  BY <1>1, <1>2

-----------------------------------------------------------------------------
(* Steps that write nothing *)

Calm ==
    /\ UNCHANGED <<chats, threads, queue, refused, blind, sent, unattached>>
    /\ taps' \in {taps, taps + 1}

\* A step that leaves server, queues and histories alone keeps what is said of them.
LEMMA CalmKeeps ==
    ASSUME IInv, Calm
    PROVE  /\ Known' = Known
           /\ \A u, kind : Pending(u, kind)' = Pending(u, kind)
           /\ \A u, id : ThreadView(u, id)' = ThreadView(u, id)
           /\ IdsUnique' /\ PairsMarked' /\ MessagesOwn' /\ SentSomewhere' /\ StoredEarlier'
<1>1. \A u, kind : Pending(u, kind)' = Pending(u, kind)
  BY DEF Calm, Pending
<1>2. Live' = Live /\ RefusedChats' = RefusedChats /\ Stored' = Stored
  BY <1>1 DEF Calm, Live, PendingChats, RefusedChats, Stored, PendingMessages
<1>3. Known' = Known
  BY <1>2 DEF Known
<1>4. \A u, id : ThreadView(u, id)' = ThreadView(u, id)
  BY <1>1 DEF Calm, ThreadView
<1>5. IdsUnique' /\ PairsMarked' /\ MessagesOwn' /\ SentSomewhere'
  BY <1>2, <1>3 DEF Calm, IInv, IdsUnique, PairsMarked, MessagesOwn, SentSomewhere
<1>6. StoredEarlier'
  <2>1. taps \in Nat
    BY ChatsAssumption DEF IInv, TypeOK
  <2>2. \A t \in Stored : t[2].no \in Nat
    BY StoredTyped DEF IInv
  <2>3. QED
    BY <1>2, <2>1, <2>2 DEF Calm, IInv, StoredEarlier
<1>7. QED
  BY <1>1, <1>3, <1>4, <1>5, <1>6

\* A call that has found chats of its user, if any.
GoodCall(g) ==
    /\ g \in Call
    /\ \A d \in g.found : d \in Known /\ g.dev \in {d[2][1], d[2][2]}

ForScreen(g) == g.op = "load" => screen[g.dev].target = g.peer

\* What the invariant says of each call that is on its way.
LEMMA OldCallsGood ==
    ASSUME IInv, NEW g \in calls
    PROVE  /\ GoodCall(g) /\ ForScreen(g)
           /\ g.dev \in Uuid /\ g.peer \in Uuid /\ g.slot \in 0..MaxCalls
           /\ g.op \in {"list", "plus", "row", "invited", "load"}
           /\ g.op = "load" => screen[g.dev].target = g.peer /\ screen[g.dev] # NoScreen
<1>1. g \in Call
  BY DEF IInv, TypeOK
<1>2. GoodCall(g) /\ ForScreen(g)
  BY <1>1 DEF IInv, FoundOwn, LoadsForScreen, GoodCall, ForScreen
<1>3. /\ g.dev \in Uuid /\ g.peer \in Uuid /\ g.slot \in 0..MaxCalls
      /\ g.op \in {"list", "plus", "row", "invited", "load"}
  BY <1>1 DEF Call
<1>4. NoScreen.target = Nobody /\ g.peer # Nobody
  BY <1>3, ChatsAssumption DEF NoScreen
<1>5. QED
  BY <1>2, <1>3, <1>4 DEF ForScreen

\* A call that begins has found nothing yet.
LEMMA NewCallGood ==
    ASSUME NEW u \in Uuid, NEW op \in {"list", "plus", "row", "invited", "load"}, NEW v \in Uuid,
           NEW slots \in SUBSET (0..MaxCalls), slots # {}
    PROVE  LET g == NewCall(u, op, v, slots) IN
           GoodCall(g) /\ g.dev = u /\ g.op = op /\ g.peer = v
<1> DEFINE s == CHOOSE s \in slots : TRUE
<1>1. s \in 0..MaxCalls
  OBVIOUS
<1> HIDE DEF s
<1>2. [dev |-> u, slot |-> s, op |-> op, peer |-> v, phase |-> "asked", found |-> {}] \in Call
  BY <1>1 DEF Call
<1>3. NewCall(u, op, v, slots)
          = [dev |-> u, slot |-> s, op |-> op, peer |-> v, phase |-> "asked", found |-> {}]
  BY DEF NewCall, s
<1>4. QED
  BY <1>2, <1>3 DEF GoodCall

\* The slot of a call is one of the device's, the list's or a free one.
LEMMA SlotsAreSlots ==
    ASSUME NEW u
    PROVE  FreeSlots(u) \in SUBSET (0..MaxCalls) /\ {0} \in SUBSET (0..MaxCalls)
BY ChatsAssumption DEF FreeSlots

\* Calls begin and end; the screens stay as they are.
LEMMA CallsStep ==
    ASSUME IInv, Calm, UNCHANGED <<screen, due>>,
           \A g \in calls' : GoodCall(g) /\ ForScreen(g),
           opened' \in SUBSET Uuid, list' \in [Uuid -> SUBSET Users],
           taps' \in 0..MaxTaps, faults' \in 0..MaxFaults, stuck' \in SUBSET Uuid
    PROVE  IInv'
<1>1. TypeOK'
  BY DEF IInv, TypeOK, Calm, GoodCall
<1>2. FoundOwn'
  BY CalmKeeps DEF FoundOwn, GoodCall
<1>3. LoadsForScreen'
  BY CalmKeeps DEF IInv, LoadsForScreen, ForScreen
<1>4. ScreensOwn'
  BY CalmKeeps DEF IInv, ScreensOwn
<1>5. ShownUnlessDue'
  BY CalmKeeps DEF IInv, ShownUnlessDue
<1>6. QED
  BY <1>1, <1>2, <1>3, <1>4, <1>5, CalmKeeps DEF IInv

\* Opening the list only asks for the chats.
LEMMA ChatListShownInv ==
    ASSUME IInv, NEW u \in Uuid, ChatListShown(u)
    PROVE  IInv'
<1> DEFINE h == NewCall(u, "list", u, {0})
<1>1. GoodCall(h) /\ h.op = "list"
  BY NewCallGood, SlotsAreSlots
<1>2. calls' = calls \cup {h}
  BY DEF ChatListShown
<1> HIDE DEF h
<1>3. \A g \in calls' : GoodCall(g) /\ ForScreen(g)
  BY <1>1, <1>2, OldCallsGood DEF ForScreen
<1>4. /\ Calm /\ UNCHANGED <<screen, due, list, taps, faults, stuck>>
      /\ opened' \in SUBSET Uuid
  BY DEF ChatListShown, Calm, server, history, budget, IInv, TypeOK
<1>5. QED
  BY <1>3, <1>4, CallsStep DEF IInv, TypeOK

\* A tap only begins a lookup.
LEMMA TapInv ==
    ASSUME IInv, NEW u \in Uuid, NEW op \in {"plus", "row", "invited"}, NEW v \in Uuid, Tap(u, op, v)
    PROVE  IInv'
<1> DEFINE h == NewCall(u, op, v, FreeSlots(u))
<1>1. GoodCall(h) /\ h.op = op
  BY NewCallGood, SlotsAreSlots DEF Tap, Begin
<1>2. calls' = calls \cup {h}
  BY DEF Tap, Begin
<1> HIDE DEF h
<1>3. \A g \in calls' : GoodCall(g) /\ ForScreen(g)
  BY <1>1, <1>2, OldCallsGood DEF ForScreen
<1>4. Calm /\ UNCHANGED <<screen, due, list, opened, faults, stuck>>
  BY DEF Tap, Calm, server, history
<1>5. taps' \in 0..MaxTaps
  BY ChatsAssumption DEF Tap, IInv, TypeOK
<1>6. QED
  BY <1>3, <1>4, <1>5, CallsStep DEF IInv, TypeOK

\* A tapped row looks up the other one of its two users.
LEMMA DidSelectRowInv ==
    ASSUME IInv, NEW u \in Uuid, NEW p \in list[u], didSelectRow(u, p)
    PROVE  IInv'
<1>1. p[1] \in Uuid /\ p[2] \in Uuid
  BY DEF IInv, TypeOK, Users
<1>2. Tap(u, "row", p[2]) \/ Tap(u, "invited", p[1])
  BY DEF didSelectRow
<1>3. QED
  BY <1>1, <1>2, TapInv

\* A screen that calls loadChat asks for its own target.
LEMMA LoadRequestedInv ==
    ASSUME IInv, NEW u \in Uuid, LoadRequested(u)
    PROVE  IInv'
<1> DEFINE h == NewCall(u, "load", screen[u].target, FreeSlots(u))
<1>1. screen[u].target \in Uuid
  BY DEF LoadRequested, IInv, TypeOK, Screen, ScreensOwn
<1>2. GoodCall(h) /\ h.dev = u /\ h.peer = screen[u].target
  BY <1>1, NewCallGood, SlotsAreSlots DEF LoadRequested, Begin
<1>3. calls' = calls \cup {h}
  BY DEF LoadRequested, Begin
<1> HIDE DEF h
<1>4. \A g \in calls' : GoodCall(g) /\ ForScreen(g)
  BY <1>2, <1>3, OldCallsGood DEF ForScreen
<1>5. Calm /\ UNCHANGED <<screen, due, list, opened, taps, faults, stuck>>
  BY DEF LoadRequested, Calm, server, budget, history
<1>6. QED
  BY <1>4, <1>5, CallsStep DEF IInv, TypeOK

\* What a query finds is there, and names the one who asked.
LEMMA ChatsOfKnown ==
    ASSUME TypeOK, NEW u \in Uuid
    PROVE  /\ ChatsOf(u) \in SUBSET (ChatId \X Users)
           /\ \A d \in ChatsOf(u) : d \in Known /\ u \in {d[2][1], d[2][2]}
<1>1. \A d \in ChatsOf(u) : d \in Known /\ u \in {d[2][1], d[2][2]}
  BY DEF ChatsOf, Known, Live, PendingChats
<1>2. QED
  BY <1>1, KnownUsed

\* An answer is what the device sees at that moment.
LEMMA AnswerInv ==
    ASSUME IInv, NEW c \in calls, Answer(c)
    PROVE  IInv'
<1> DEFINE F == IF c.op \in {"list", "load"} THEN ChatsOf(c.dev) ELSE {}
           h == [c EXCEPT !.phase = "answered", !.found = F]
<1>1. c \in Call /\ c.dev \in Uuid
  BY OldCallsGood DEF GoodCall
<1>2. F \in SUBSET (ChatId \X Users) /\ \A d \in F : d \in Known /\ c.dev \in {d[2][1], d[2][2]}
  BY <1>1, ChatsOfKnown DEF IInv
<1>3. calls' = (calls \ {c}) \cup {h}
  BY DEF Answer
<1> HIDE DEF F
<1>4. h \in Call /\ h.found = F /\ h.dev = c.dev /\ h.op = c.op /\ h.peer = c.peer
  BY <1>1, <1>2 DEF Call
<1> HIDE DEF h
<1>5. GoodCall(h) /\ ForScreen(h)
  BY <1>2, <1>4, OldCallsGood DEF GoodCall, ForScreen
<1>6. \A g \in calls' : GoodCall(g) /\ ForScreen(g)
  BY <1>3, <1>5, OldCallsGood
<1>7. Calm /\ UNCHANGED <<screen, due, list, opened, taps, faults, stuck>>
  BY DEF Answer, Calm, server, history, budget
<1>8. QED
  BY <1>6, <1>7, CallsStep DEF IInv, TypeOK

\* A lookup that fails leaves nothing behind.
LEMMA LookupFailsInv ==
    ASSUME IInv, NEW c \in calls, LookupFails(c)
    PROVE  IInv'
<1>1. calls' \subseteq calls /\ Calm /\ UNCHANGED <<screen, due, list, opened, taps>>
  BY DEF LookupFails, Ends, Calm, server
<1>2. faults' \in 0..MaxFaults /\ stuck' \in SUBSET Uuid
  BY ChatsAssumption, OldCallsGood DEF LookupFails, IInv, TypeOK
<1>3. \A g \in calls' : GoodCall(g) /\ ForScreen(g)
  BY <1>1, OldCallsGood
<1>4. QED
  BY <1>1, <1>2, <1>3, CallsStep DEF IInv, TypeOK

\* The list is what the query has found.
LEMMA GetNumberofChatsInv ==
    ASSUME IInv, NEW c \in calls, getNumberofChats(c)
    PROVE  IInv'
<1>1. /\ calls' \subseteq calls /\ Calm
      /\ UNCHANGED <<screen, due, opened, taps, faults, stuck>>
  BY DEF getNumberofChats, Ends, Calm, server, history, budget
<1>2. {d[2] : d \in c.found} \in SUBSET Users
  BY OldCallsGood DEF GoodCall, Call
<1>3. list' \in [Uuid -> SUBSET Users]
  <2>1. list \in [Uuid -> SUBSET Users]
    BY DEF IInv, TypeOK
  <2>2. list' = [list EXCEPT ![c.dev] = @ \cup {d[2] : d \in c.found}]
    BY DEF getNumberofChats
  <2>3. QED
    BY <1>2, <2>1, <2>2
<1>4. \A g \in calls' : GoodCall(g) /\ ForScreen(g)
  BY <1>1, OldCallsGood
<1>5. QED
  BY <1>1, <1>3, <1>4, CallsStep DEF IInv, TypeOK

-----------------------------------------------------------------------------
(* Steps of a screen *)

\* A screen appears, for a target and without a chat.
LEMMA ScreenAppears ==
    ASSUME IInv, Calm, NEW u \in Uuid, NEW v \in Uuid,
           screen[u] = NoScreen, screen' = [screen EXCEPT ![u].target = v],
           calls' \subseteq calls, taps' \in 0..MaxTaps,
           UNCHANGED <<due, opened, list, faults, stuck>>
    PROVE  IInv'
<1>1. /\ screen'[u].target = v /\ screen'[u].doc = 0
      /\ screen' \in [Uuid -> Screen]
      /\ \A x \in Uuid : x # u => screen'[x] = screen[x]
  <2>1. screen \in [Uuid -> Screen]
    BY DEF IInv, TypeOK
  <2>2. [screen[u] EXCEPT !.target = v] \in Screen
    BY <2>1 DEF Screen
  <2>3. QED
    BY <2>1, <2>2, NoScreenIsScreen DEF Screen
<1>2. TypeOK'
  BY <1>1 DEF IInv, TypeOK, Calm
<1>3. FoundOwn'
  BY CalmKeeps DEF IInv, FoundOwn
<1>4. LoadsForScreen'
  <2>1. ASSUME NEW g \in calls', g.op = "load"
        PROVE  screen'[g.dev].target = g.peer
    <3>1. g \in calls
      OBVIOUS
    <3>2. /\ g.dev \in Uuid /\ screen[g.dev].target = g.peer
          /\ screen[g.dev] # NoScreen
      BY <2>1, <3>1, OldCallsGood
    <3>3. g.dev # u
      BY <3>2
    <3>4. QED
      BY <1>1, <3>2, <3>3
  <2>2. ASSUME NEW x \in Uuid, NEW w \in Pending(x, "chat")', w.load
        PROVE  screen'[x].target \in Uuid
    <3>1. w \in Pending(x, "chat")
      BY <2>2, CalmKeeps
    <3>2. screen[x].target \in Uuid
      BY <2>2, <3>1 DEF IInv, LoadsForScreen
    <3>3. QED
      BY <1>1, <3>2
  <2>3. QED
    BY <2>1, <2>2 DEF LoadsForScreen
<1>5. ScreensOwn'
  <2>1. u \notin due
    BY NoScreenIsScreen DEF IInv, ScreensOwn
  <2>2. v # Nobody
    BY ChatsAssumption
  <2>3. QED
    BY <1>1, <2>1, <2>2, CalmKeeps DEF IInv, ScreensOwn
<1>6. ShownUnlessDue'
  BY <1>1, CalmKeeps DEF IInv, ShownUnlessDue
<1>7. QED
  BY <1>2, <1>3, <1>4, <1>5, <1>6, CalmKeeps DEF IInv

\* A friend's message button opens a screen.
LEMMA MessageTappedInv ==
    ASSUME IInv, NEW u \in Uuid, NEW v \in Uuid, messageTapped(u, v)
    PROVE  IInv'
<1>1. Calm /\ UNCHANGED <<due, opened, list, calls, faults, stuck>>
  BY DEF messageTapped, Calm, server, history
<1>2. taps' \in 0..MaxTaps
  BY ChatsAssumption DEF messageTapped, IInv, TypeOK
<1>3. screen[u] = NoScreen /\ screen' = [screen EXCEPT ![u].target = v]
  BY DEF messageTapped
<1>4. QED
  BY <1>1, <1>2, <1>3, ScreenAppears

\* So does the row of a chat of one's own, where no screen is in the way.
LEMMA ChatPresentedInv ==
    ASSUME IInv, NEW c \in calls, ChatPresented(c)
    PROVE  IInv'
<1>1. Calm /\ calls' \subseteq calls /\ UNCHANGED <<due, opened, list, taps, faults, stuck>>
  BY DEF ChatPresented, Ends, Calm, server, budget, history
<1>2. c.dev \in Uuid /\ c.peer \in Uuid
  BY OldCallsGood
<1>3. CASE UNCHANGED screen
  <2>1. \A g \in calls' : GoodCall(g) /\ ForScreen(g)
    BY <1>1, OldCallsGood
  <2>2. QED
    BY <1>1, <1>3, <2>1, CallsStep DEF IInv, TypeOK
<1>4. CASE screen[c.dev] = NoScreen /\ screen' = [screen EXCEPT ![c.dev].target = c.peer]
  BY <1>1, <1>2, <1>4, ScreenAppears DEF IInv, TypeOK
<1>5. QED
  BY <1>3, <1>4 DEF ChatPresented

\* The listener refills the messages of a screen.
LEMMA ThreadListenerInv ==
    ASSUME IInv, NEW u \in Uuid, ThreadListener(u)
    PROVE  IInv'
<1>1. /\ Calm /\ UNCHANGED <<calls, opened, list, taps, faults, stuck>>
      /\ due' = due \ {u} /\ u \in due
      /\ screen' = [screen EXCEPT ![u].messages = Once(ThreadView(u, screen[u].doc))]
  BY DEF ThreadListener, Refilled, Calm, server, budget, history
<1>2. Once(ThreadView(u, screen[u].doc)) \in Shown
  BY OnceShown
<1>3. screen \in [Uuid -> Screen]
  BY DEF IInv, TypeOK
<1>4. /\ screen' \in [Uuid -> Screen]
      /\ \A v \in Uuid : v # u => screen'[v] = screen[v]
      /\ screen'[u].target = screen[u].target /\ screen'[u].doc = screen[u].doc
      /\ screen'[u].messages = Once(ThreadView(u, screen[u].doc))
  BY <1>1, <1>2, <1>3 DEF Screen
<1>5. TypeOK'
  BY <1>1, <1>4 DEF IInv, TypeOK, Calm
<1>6. FoundOwn'
  BY <1>1, CalmKeeps DEF IInv, FoundOwn
<1>7. LoadsForScreen'
  <2>1. \A v \in Uuid : screen'[v].target = screen[v].target
    BY <1>4
  <2>2. \A g \in calls : g.dev \in Uuid
    BY OldCallsGood
  <2>3. QED
    BY <1>1, <2>1, <2>2, CalmKeeps DEF IInv, LoadsForScreen
<1>8. ScreensOwn'
  <2>1. screen[u].doc # 0 /\ screen[u].target # Nobody
    BY <1>1 DEF IInv, ScreensOwn, NoScreen
  <2>2. QED
    BY <1>1, <1>4, <2>1, CalmKeeps DEF IInv, ScreensOwn
<1>9. ShownUnlessDue'
  BY <1>1, <1>4, CalmKeeps DEF IInv, ShownUnlessDue
<1>10. QED
  BY <1>1, <1>5, <1>6, <1>7, <1>8, <1>9, CalmKeeps DEF IInv

\* The smallest number of a set of numbers exists; so does the first chat.
LEMMA SmallestExists ==
    ASSUME NEW T \in SUBSET Nat, T # {}
    PROVE  \E x \in T : \A y \in T : x <= y
<1> DEFINE R == {ss \in Nat \X Nat : ss[1] < ss[2]}
<1>1. IsWellFoundedOn(R, Nat)
  BY NatLessThanWellFounded DEF OpToRel
<1>2. \A x, y \in Nat : <<y, x>> \in R <=> y < x
  OBVIOUS
<1> HIDE DEF R
<1>3. PICK x \in T : \A y \in T : <<y, x>> \notin R
  BY <1>1, WFMin
<1>4. ASSUME NEW y \in T
      PROVE  x <= y
  <2>1. x \in Nat /\ y \in Nat
    OBVIOUS
  <2>2. ~ (y < x)
    BY <1>2, <1>3, <2>1
  <2>3. QED
    BY <2>1, <2>2
<1>5. QED
  BY <1>4

\* The other branch of loadChat: the screen takes the first chat that was found.
TakesChat(c) ==
    LET found == {d[1] : d \in {e \in c.found : Names(e[2], c.peer)}} IN
    /\ c.op = "load"
    /\ found # {}
    /\ screen' = [screen EXCEPT ![c.dev].doc =
           CHOOSE id \in found : \A other \in found : id <= other]
    /\ due' = due \cup {c.dev}
    /\ UNCHANGED <<queue, blind>>
    /\ Ends(c)
    /\ UNCHANGED <<server, opened, list, budget, sent, unattached, refused, stuck>>

\* It is a chat of the screen's user and target.
LEMMA TakenIsOwn ==
    ASSUME IInv, NEW c \in calls, TakesChat(c)
    PROVE  \E d \in Known : /\ d[1] \in ChatId
                            /\ Between(d, c.dev, c.peer)
                            /\ screen' = [screen EXCEPT ![c.dev].doc = d[1]]
<1> DEFINE found == {d[1] : d \in {e \in c.found : Names(e[2], c.peer)}}
           first == CHOOSE id \in found : \A other \in found : id <= other
<1>1. \A d \in c.found : d \in Known /\ c.dev \in {d[2][1], d[2][2]}
  BY OldCallsGood DEF GoodCall
<1>2. \A d \in c.found : d[1] \in ChatId
  BY OldCallsGood DEF GoodCall, Call
<1>3. found \in SUBSET Nat
  BY <1>2, ChatsAssumption DEF ChatId
<1>4. found # {}
  BY DEF TakesChat
<1>5. screen' = [screen EXCEPT ![c.dev].doc = first]
  BY DEF TakesChat
<1>6. first \in found
  <2>1. \E x \in found : \A y \in found : x <= y
    BY <1>3, <1>4, SmallestExists
  <2> HIDE DEF found
  <2>2. QED
    BY <2>1
<1> HIDE DEF first
<1>7. PICK d \in c.found : Names(d[2], c.peer) /\ first = d[1]
  BY <1>6
<1>8. Between(d, c.dev, c.peer)
  BY <1>1, <1>7 DEF Names, Between, SamePair
<1>9. QED
  BY <1>1, <1>2, <1>5, <1>7, <1>8

\* A load that has found chats opens one of the two users of its screen.
LEMMA TakesChatInv ==
    ASSUME IInv, NEW c \in calls, TakesChat(c)
    PROVE  IInv'
<1>1. /\ Calm /\ UNCHANGED <<opened, list, taps, faults, stuck>>
      /\ due' = due \cup {c.dev}
      /\ calls' \subseteq calls
  BY DEF TakesChat, Ends, Calm, server, budget
<1>2. c.dev \in Uuid /\ screen[c.dev].target = c.peer /\ c.peer \in Uuid /\ c.peer # Nobody
  BY OldCallsGood, ChatsAssumption DEF TakesChat
<1>3. PICK d \in Known : /\ d[1] \in ChatId
                         /\ Between(d, c.dev, c.peer)
                         /\ screen' = [screen EXCEPT ![c.dev].doc = d[1]]
  BY TakenIsOwn
<1>4. screen \in [Uuid -> Screen]
  BY DEF IInv, TypeOK
<1>5. /\ screen' \in [Uuid -> Screen]
      /\ \A v \in Uuid : v # c.dev => screen'[v] = screen[v]
      /\ screen'[c.dev].target = c.peer /\ screen'[c.dev].doc = d[1]
  BY <1>2, <1>3, <1>4 DEF Screen
<1>6. d[1] # 0
  BY <1>3, ChatsAssumption DEF ChatId
<1>7. TypeOK'
  BY <1>1, <1>2, <1>5 DEF IInv, TypeOK, Calm
<1>8. FoundOwn'
  BY <1>1, CalmKeeps DEF IInv, FoundOwn
<1>9. LoadsForScreen'
  <2>1. \A v \in Uuid : screen'[v].target = screen[v].target
    BY <1>2, <1>5
  <2>2. \A g \in calls' : g.dev \in Uuid
    BY <1>1, OldCallsGood
  <2>3. QED
    BY <1>1, <2>1, <2>2, CalmKeeps DEF IInv, LoadsForScreen
<1>10. ScreensOwn'
  BY <1>1, <1>2, <1>3, <1>5, <1>6, CalmKeeps DEF IInv, ScreensOwn
<1>11. ShownUnlessDue'
  BY <1>1, <1>5, CalmKeeps DEF IInv, ShownUnlessDue
<1>12. QED
  BY <1>1, <1>7, <1>8, <1>9, <1>10, <1>11, CalmKeeps DEF IInv

-----------------------------------------------------------------------------
(* Steps that add a write *)

\* A chat gets an id of its own; if the two have one already, that is marked.
LEMMA AddChatInv ==
    ASSUME IInv, NEW u \in Uuid, NEW p \in Users, NEW load \in BOOLEAN,
           AddChat(u, p, load),
           load => screen[u].target \in Uuid,
           calls' \subseteq calls,
           UNCHANGED <<chats, threads, opened, list, screen, due, taps, faults,
                       sent, unattached, refused, stuck>>
    PROVE  IInv'
<1>1. PICK id \in ChatId \ Used :
          /\ Adds(u, [kind |-> "chat", id |-> id, users |-> p, load |-> load])
          /\ blind' = IF HaveChat(p) THEN blind \cup {{p[1], p[2]}} ELSE blind
  BY DEF AddChat, Adds
<1> DEFINE w == [kind |-> "chat", id |-> id, users |-> p, load |-> load]
           new == <<id, p>>
<1>2. w \in Write /\ w.kind = "chat" /\ w.load = load /\ <<w.id, w.users>> = new
  BY DEF Write
<1>3. Adds(u, w)
  BY <1>1
<1> HIDE DEF w
<1>4. /\ queue' \in [Uuid -> Seq(Write)]
      /\ \A v \in Uuid, kind \in {"chat", "message"} :
            Pending(v, kind)' = IF v = u /\ w.kind = kind THEN Pending(v, kind) \cup {w}
                                                          ELSE Pending(v, kind)
  BY <1>2, <1>3, PendingAdded DEF IInv
<1>5. /\ \A v \in Uuid : Pending(v, "message")' = Pending(v, "message")
      /\ \A v \in Uuid : Pending(v, "chat")' = IF v = u THEN Pending(v, "chat") \cup {w}
                                                       ELSE Pending(v, "chat")
  BY <1>2, <1>4
<1>6. Live' = Live \cup {new}
  <2>1. \A v \in Uuid : PendingChats(v)' = IF v = u THEN PendingChats(v) \cup {new}
                                                    ELSE PendingChats(v)
    BY <1>2, <1>5 DEF PendingChats
  <2>2. QED
    BY <2>1 DEF Live
<1>7. Known' = Known \cup {new}
  BY <1>6 DEF Known, RefusedChats
<1>8. Stored' = Stored
  BY <1>5 DEF Stored, PendingMessages
<1>9. TypeOK'
  <2>1. {p[1], p[2]} \in SUBSET Uuid
    BY DEF Users
  <2>2. blind' \in SUBSET SUBSET Uuid
    BY <1>1, <2>1 DEF IInv, TypeOK
  <2>3. QED
    BY <1>4, <2>2 DEF IInv, TypeOK
<1>10. IdsUnique'
  <2>1. \A c \in Known : c[1] # new[1]
    BY KnownUsed DEF IInv
  <2>2. QED
    BY <1>7, <2>1 DEF IInv, IdsUnique
<1>11. PairsMarked'
  <2>1. ASSUME NEW c \in Live, SamePair(c[2], p)
        PROVE  {p[1], p[2]} \in blind'
    <3>1. HaveChat(p)
      <4>1. CASE c \in chats
        BY <2>1, <4>1 DEF HaveChat
      <4>2. ASSUME NEW v \in Uuid, c \in PendingChats(v)
            PROVE  HaveChat(p)
        BY <2>1, <4>2 DEF HaveChat, PendingChats
      <4>3. QED
        BY <4>1, <4>2 DEF Live
    <3>2. QED
      BY <1>1, <3>1
  <2>2. \A c \in Live, d \in Live :
            c[1] # d[1] /\ SamePair(c[2], d[2]) => {c[2][1], c[2][2]} \in blind'
    BY <1>1 DEF IInv, PairsMarked
  <2>3. new[2] = p
    OBVIOUS
  <2>4. ASSUME NEW c \in Live, SamePair(c[2], p)
        PROVE  {c[2][1], c[2][2]} \in blind' /\ {p[1], p[2]} \in blind'
    BY <2>1, <2>4 DEF SamePair
  <2>5. ASSUME NEW c \in Live', NEW d \in Live', c[1] # d[1], SamePair(c[2], d[2])
        PROVE  {c[2][1], c[2][2]} \in blind'
    <3>1. CASE c \in Live /\ d \in Live
      BY <2>2, <2>5, <3>1
    <3>2. CASE c \in Live /\ d = new
      BY <2>3, <2>4, <2>5, <3>2
    <3>3. CASE c = new /\ d \in Live
      BY <2>3, <2>4, <2>5, <3>3 DEF SamePair
    <3>4. QED
      BY <1>6, <2>5, <3>1, <3>2, <3>3
  <2>6. QED
    BY <2>5 DEF PairsMarked
<1>12. FoundOwn'
  BY <1>7 DEF IInv, FoundOwn
<1>13. LoadsForScreen'
  BY <1>2, <1>5 DEF IInv, LoadsForScreen
<1>14. ScreensOwn'
  BY <1>7 DEF IInv, ScreensOwn
<1>15. MessagesOwn' /\ SentSomewhere' /\ StoredEarlier'
  BY <1>7, <1>8 DEF IInv, MessagesOwn, SentSomewhere, StoredEarlier
<1>16. ShownUnlessDue'
  <2>1. \A v \in Uuid : ThreadView(v, screen[v].doc)' = ThreadView(v, screen[v].doc)
    BY <1>5 DEF ThreadView
  <2>2. QED
    BY <2>1 DEF IInv, ShownUnlessDue
<1>17. QED
  BY <1>9, <1>10, <1>11, <1>12, <1>13, <1>14, <1>15, <1>16 DEF IInv

\* The plus button makes a chat without looking for one; blind records a second one.
LEMMA CreateNewChatWithInv ==
    ASSUME IInv, NEW c \in calls, createNewChatWith(c)
    PROVE  IInv'
<1>1. <<c.dev, c.peer>> \in Users /\ c.dev \in Uuid
  BY OldCallsGood DEF Users
<1>2. /\ AddChat(c.dev, <<c.dev, c.peer>>, FALSE)
      /\ calls' \subseteq calls
      /\ UNCHANGED <<chats, threads, opened, list, screen, due, taps, faults,
                     sent, unattached, refused, stuck>>
  BY DEF createNewChatWith, Ends, server, budget
<1>3. QED
  BY <1>1, <1>2, AddChatInv

\* loadChat takes a chat that it has found, or makes one and is called again.
LEMMA LoadChatInv ==
    ASSUME IInv, NEW c \in calls, loadChat(c)
    PROVE  IInv'
<1>1. c.op = "load" /\ c.dev \in Uuid /\ screen[c.dev].target \in Uuid
      /\ <<c.dev, c.peer>> \in Users
  BY OldCallsGood DEF loadChat, Answered, Users
<1>2. CASE createNewChat(c.dev, c.peer) /\ UNCHANGED <<screen, due>>
  <2>1. /\ AddChat(c.dev, <<c.dev, c.peer>>, TRUE)
        /\ calls' \subseteq calls
        /\ UNCHANGED <<chats, threads, opened, list, screen, due, taps, faults,
                       sent, unattached, refused, stuck>>
    BY <1>2 DEF loadChat, createNewChat, Ends, server, budget
  <2>2. QED
    BY <1>1, <2>1, AddChatInv
<1>3. CASE TakesChat(c)
  BY <1>3, TakesChatInv
<1>4. QED
  BY <1>1, <1>2, <1>3 DEF loadChat, TakesChat

\* save adds one write to the thread of the screen's chat, or nothing.
LEMMA SaveAdds ==
    ASSUME IInv, NEW u \in Uuid, NEW m \in Message,
           queue' = [queue EXCEPT ![u] = @ \o save(u, m)]
    PROVE  LET w == [kind |-> "message", id |-> screen[u].doc, msg |-> m] IN
           /\ screen[u].doc = 0 => queue' = queue
           /\ screen[u].doc # 0 => w \in Write /\ w.kind = "message" /\ Adds(u, w)
<1> DEFINE w == [kind |-> "message", id |-> screen[u].doc, msg |-> m]
<1>1. queue \in [Uuid -> Seq(Write)] /\ queue[u] \in Seq(Write)
  BY DEF IInv, TypeOK
<1>2. CASE screen[u].doc = 0
  <2>1. queue[u] \o save(u, m) = queue[u]
    BY <1>1, <1>2, ConcatEmptySeq DEF save
  <2>2. queue' = queue
    BY <1>1, <2>1
  <2>3. QED
    BY <1>2, <2>2
<1>3. CASE screen[u].doc # 0
  <2>1. w \in Write /\ w.kind = "message"
    BY <1>3 DEF IInv, TypeOK, Screen, Write
  <2> HIDE DEF w
  <2>2. queue[u] \o <<w>> = Append(queue[u], w)
    BY <1>1, <2>1, AppendIsConcat
  <2>3. save(u, m) = <<w>>
    BY <1>3 DEF save, w
  <2>4. Adds(u, w)
    BY <2>2, <2>3 DEF Adds
  <2>5. QED
    BY <1>3, <2>1, <2>4 DEF w
<1>4. QED
  BY <1>2, <1>3

\* What a message changes: its thread, if it has one, and no chat.
LEMMA SentMessageIsStored ==
    ASSUME IInv, NEW u \in Uuid, NEW m \in Message,
           queue' = [queue EXCEPT ![u] = @ \o save(u, m)],
           UNCHANGED <<chats, threads, refused>>
    PROVE  /\ queue' \in [Uuid -> Seq(Write)]
           /\ \A v \in Uuid : Pending(v, "chat")' = Pending(v, "chat")
           /\ Live' = Live /\ Known' = Known
           /\ screen[u].doc = 0 => Stored' = Stored
           /\ screen[u].doc # 0 => Stored' = Stored \cup {<<screen[u].doc, m>>}
           /\ \A id : id = screen[u].doc /\ id # 0 =>
                  ThreadView(u, id)' = ThreadView(u, id) \cup {m}
<1> DEFINE w == [kind |-> "message", id |-> screen[u].doc, msg |-> m]
<1>1. /\ screen[u].doc = 0 => queue' = queue
      /\ screen[u].doc # 0 => w \in Write /\ w.kind = "message" /\ Adds(u, w)
  BY SaveAdds
<1>2. w.id = screen[u].doc /\ w.msg = m
  OBVIOUS
<1> HIDE DEF w
<1>3. CASE screen[u].doc = 0
  <2>1. \A v, kind : Pending(v, kind)' = Pending(v, kind)
    BY <1>1, <1>3 DEF Pending
  <2>2. queue' \in [Uuid -> Seq(Write)]
    BY <1>1, <1>3 DEF IInv, TypeOK
  <2>3. Live' = Live /\ RefusedChats' = RefusedChats /\ Stored' = Stored
    BY <2>1 DEF Live, PendingChats, RefusedChats, Stored, PendingMessages
  <2>4. QED
    BY <1>3, <2>1, <2>2, <2>3 DEF Known
<1>4. CASE screen[u].doc # 0
  <2>1. /\ queue' \in [Uuid -> Seq(Write)]
        /\ \A v \in Uuid, kind \in {"chat", "message"} :
              Pending(v, kind)' = IF v = u /\ w.kind = kind THEN Pending(v, kind) \cup {w}
                                                            ELSE Pending(v, kind)
    BY <1>1, <1>4, PendingAdded DEF IInv
  <2>2. /\ \A v \in Uuid : Pending(v, "chat")' = Pending(v, "chat")
        /\ \A v \in Uuid : Pending(v, "message")'
              = IF v = u THEN Pending(v, "message") \cup {w} ELSE Pending(v, "message")
    BY <1>1, <1>4, <2>1
  <2>3. Live' = Live /\ RefusedChats' = RefusedChats
    BY <2>2 DEF Live, PendingChats, RefusedChats
  <2>4. Stored' = Stored \cup {<<screen[u].doc, m>>}
    <3>1. \A v \in Uuid : PendingMessages(v)'
              = IF v = u THEN PendingMessages(v) \cup {<<screen[u].doc, m>>}
                         ELSE PendingMessages(v)
      BY <1>2, <2>2 DEF PendingMessages
    <3>2. QED
      BY <3>1 DEF Stored
  <2>5. ASSUME NEW id, id = screen[u].doc
        PROVE  ThreadView(u, id)' = ThreadView(u, id) \cup {m}
    <3>1. Pending(u, "message")' = Pending(u, "message") \cup {w}
      BY <2>2
    <3>2. QED
      BY <1>2, <2>5, <3>1 DEF ThreadView
  <2>6. QED
    BY <1>4, <2>1, <2>2, <2>3, <2>4, <2>5 DEF Known
<1>5. QED
  BY <1>3, <1>4

\* A message goes into the thread that the screen has opened; without one it is
\* recorded in unattached.
LEMMA DidPressSendButtonInv ==
    ASSUME IInv, NEW u \in Uuid, didPressSendButton(u)
    PROVE  IInv'
<1> DEFINE m == [from |-> u, to |-> screen[u].target, no |-> taps]
           doc == screen[u].doc
<1>1. /\ screen[u] # NoScreen /\ taps' = taps + 1 /\ taps < MaxTaps
      /\ screen' = [screen EXCEPT ![u].messages[m] = @ + 1]
      /\ queue' = [queue EXCEPT ![u] = @ \o save(u, m)]
      /\ sent' = sent \cup {m}
      /\ unattached' = IF doc = 0 THEN unattached \cup {m} ELSE unattached
      /\ UNCHANGED <<chats, threads, opened, list, calls, faults, refused, blind, stuck>>
      /\ NoticeThreads
  BY DEF didPressSendButton, server
<1>2. m \in Message /\ m.from = u /\ m.to = screen[u].target /\ m.no = taps
  <2>1. screen[u].target \in Uuid
    BY <1>1 DEF IInv, TypeOK, Screen, ScreensOwn
  <2>2. taps \in 0..MaxTaps
    BY DEF IInv, TypeOK
  <2>3. QED
    BY <2>1, <2>2 DEF Message
<1> HIDE DEF m
<1>3. screen \in [Uuid -> Screen]
  BY DEF IInv, TypeOK
<1>4. /\ screen' \in [Uuid -> Screen]
      /\ \A v \in Uuid : v # u => screen'[v] = screen[v]
      /\ screen'[u].target = screen[u].target /\ screen'[u].doc = doc
  <2>1. screen[u] \in Screen /\ screen[u].messages \in Shown
    BY <1>3 DEF Screen
  <2>2. [screen[u].messages EXCEPT ![m] = @ + 1] \in Shown
    BY <1>2, <2>1 DEF Shown
  <2>3. screen' = [screen EXCEPT ![u].messages = [screen[u].messages EXCEPT ![m] = @ + 1]]
    BY <1>1, <1>3
  <2>4. QED
    BY <1>3, <2>1, <2>2, <2>3 DEF Screen
<1>5. /\ queue' \in [Uuid -> Seq(Write)]
      /\ \A v \in Uuid : Pending(v, "chat")' = Pending(v, "chat")
      /\ Live' = Live /\ Known' = Known
      /\ doc = 0 => Stored' = Stored
      /\ doc # 0 => Stored' = Stored \cup {<<doc, m>>}
      /\ \A id : id = doc /\ id # 0 => ThreadView(u, id)' = ThreadView(u, id) \cup {m}
  BY <1>1, <1>2, SentMessageIsStored
<1>6. due' \in SUBSET Uuid /\ \A v \in due' : v \in Uuid /\ screen[v].doc # 0
  BY <1>1 DEF IInv, TypeOK, ScreensOwn, NoticeThreads
<1>7. sent' \in SUBSET Message /\ unattached' \in SUBSET sent'
  BY <1>1, <1>2 DEF IInv, TypeOK
<1>8. TypeOK'
  <2>1. taps' \in 0..MaxTaps
    BY <1>1, ChatsAssumption DEF IInv, TypeOK
  <2>2. QED
    BY <1>1, <1>4, <1>5, <1>6, <1>7, <2>1 DEF IInv, TypeOK
<1>9. IdsUnique' /\ PairsMarked' /\ FoundOwn'
  BY <1>1, <1>5 DEF IInv, IdsUnique, PairsMarked, FoundOwn
<1>10. LoadsForScreen'
  <2>1. \A v \in Uuid : screen'[v].target = screen[v].target
    BY <1>4
  <2>2. \A g \in calls : g.dev \in Uuid
    BY OldCallsGood
  <2>3. QED
    BY <1>1, <1>5, <2>1, <2>2 DEF IInv, LoadsForScreen
<1>11. ScreensOwn'
  <2>1. screen[u].target # Nobody
    BY <1>1 DEF IInv, ScreensOwn
  <2>2. QED
    BY <1>4, <1>5, <1>6, <2>1 DEF IInv, ScreensOwn
<1>12. MessagesOwn'
  <2>1. doc # 0 => \E c \in Known : c[1] = doc /\ Between(c, u, screen[u].target)
    BY DEF IInv, ScreensOwn
  <2>2. \A t \in Stored : \E c \in Known : c[1] = t[1] /\ Between(c, t[2].from, t[2].to)
    BY DEF IInv, MessagesOwn
  <2>3. \A t \in Stored' : t \in Stored \/ (doc # 0 /\ t = <<doc, m>>)
    BY <1>5
  <2> HIDE DEF doc
  <2>4. \A t \in Stored' : \E c \in Known : c[1] = t[1] /\ Between(c, t[2].from, t[2].to)
    BY <1>2, <2>1, <2>2, <2>3
  <2>5. QED
    BY <1>5, <2>4 DEF MessagesOwn
<1>13. SentSomewhere'
  <2>1. m \in unattached' \/ \E t \in Stored' : t[2] = m
    <3>1. <<doc, m>>[2] = m
      OBVIOUS
    <3>2. doc # 0 => <<doc, m>> \in Stored'
      BY <1>5
    <3>3. doc = 0 => m \in unattached'
      BY <1>1
    <3>4. QED
      BY <3>1, <3>2, <3>3
  <2>2. Stored \subseteq Stored' /\ unattached \subseteq unattached'
    BY <1>1, <1>5
  <2>3. ASSUME NEW n \in sent, n \notin unattached', ~ \E t \in Stored' : t[2] = n
        PROVE  \E w \in refused' : w.kind = "message" /\ w.msg = n
    BY <1>1, <2>2, <2>3 DEF IInv, SentSomewhere
  <2>4. QED
    BY <1>1, <2>1, <2>3 DEF SentSomewhere
<1>14. StoredEarlier'
  <2>1. taps \in Nat /\ taps' = taps + 1
    BY <1>1, ChatsAssumption DEF IInv, TypeOK
  <2>2. \A t \in Stored : t[2].no \in Nat /\ t[2].no < taps
    BY StoredTyped DEF IInv, StoredEarlier
  <2>3. \A t \in Stored' : t \in Stored \/ t[2] = m
    BY <1>5
  <2>4. QED
    BY <1>2, <2>1, <2>2, <2>3 DEF StoredEarlier
<1>15. ShownUnlessDue'
  <2>1. ASSUME NEW v \in Uuid, screen'[v].doc # 0, v \notin due', v # u
        PROVE  screen'[v].messages = Once(ThreadView(v, screen[v].doc)')
    BY <1>1, <1>4, <2>1, Unnoticed
  <2>2. ASSUME doc # 0
        PROVE  u \in due'
    <3>1. m \notin ThreadView(u, doc)
      <4>1. ASSUME <<doc, m>> \in Stored
            PROVE  FALSE
        <5>1. m.no < taps /\ m.no \in Nat
          BY <4>1, StoredTyped DEF IInv, StoredEarlier
        <5>2. QED
          BY <1>2, <5>1
      <4>2. QED
        BY <4>1, ThreadViewMembers DEF IInv, Stored
    <3>2. ThreadView(u, screen[u].doc)' # ThreadView(u, doc)
      <4>1. PICK id : id = doc
        OBVIOUS
      <4>2. ThreadView(u, screen[u].doc)' = ThreadView(u, id)'
        BY <1>4, <4>1 DEF ThreadView
      <4>3. ThreadView(u, id)' = ThreadView(u, id) \cup {m}
        BY <1>5, <2>2, <4>1
      <4>4. QED
        BY <3>1, <4>1, <4>2, <4>3
    <3>3. QED
      BY <1>1, <2>2, <3>2 DEF NoticeThreads
  <2>3. \A v \in Uuid : screen'[v].doc = screen[v].doc
    BY <1>4
  <2>4. QED
    BY <2>1, <2>2, <2>3 DEF ShownUnlessDue
<1>16. QED
  BY <1>8, <1>9, <1>10, <1>11, <1>12, <1>13, <1>14, <1>15 DEF IInv

-----------------------------------------------------------------------------
(* Steps that take a write off a queue *)

\* The oldest write goes to the server or is refused.
WriteGoes(u) ==
    LET e == Head(queue[u]) IN
    /\ Shortens(u)
    /\ \/ /\ e.kind = "chat"
          /\ chats' = chats \cup {<<e.id, e.users>>}
          /\ UNCHANGED <<threads, refused>>
       \/ /\ e.kind = "message"
          /\ threads' = threads \cup {<<e.id, e.msg>>}
          /\ UNCHANGED <<chats, refused>>
       \/ /\ refused' = refused \cup {e}
          /\ UNCHANGED <<chats, threads>>

\* Every chat is still known, and a message no longer stored has been refused.
LEMMA WriteGoesFar ==
    ASSUME IInv, NEW u \in Uuid, WriteGoes(u)
    PROVE  /\ queue' \in [Uuid -> Seq(Write)]
           /\ chats' \in SUBSET (ChatId \X Users)
           /\ threads' \in SUBSET (ChatId \X Message)
           /\ refused' \in SUBSET Write /\ refused \subseteq refused'
           /\ \A v \in Uuid : \A kind : Pending(v, kind)' \subseteq Pending(v, kind)
           /\ Known' = Known /\ Live' \subseteq Live /\ Stored' \subseteq Stored
           /\ \A t \in Stored : \/ t \in Stored'
                                \/ \E w \in refused' : w.kind = "message" /\ w.msg = t[2]
<1> DEFINE e == Head(queue[u])
<1>1. /\ queue' \in [Uuid -> Seq(Write)]
      /\ e \in Write /\ e.kind \in {"chat", "message"} /\ e \in Pending(u, e.kind)
      /\ \A v \in Uuid : \A kind : Pending(v, kind)' \subseteq Pending(v, kind)
      /\ \A v \in Uuid : \A kind : \A w \in Pending(v, kind) :
            w \in Pending(v, kind)' \/ (v = u /\ w = e)
  BY PendingShortened DEF WriteGoes, IInv
<1>2. \/ /\ e.kind = "chat"
         /\ chats' = chats \cup {<<e.id, e.users>>}
         /\ UNCHANGED <<threads, refused>>
      \/ /\ e.kind = "message"
         /\ threads' = threads \cup {<<e.id, e.msg>>}
         /\ UNCHANGED <<chats, refused>>
      \/ /\ refused' = refused \cup {e}
         /\ UNCHANGED <<chats, threads>>
  BY DEF WriteGoes
<1> HIDE DEF e
<1>3. /\ e.kind = "chat" => e.id \in ChatId /\ e.users \in Users
      /\ e.kind = "message" => e.id \in ChatId /\ e.msg \in Message
  BY <1>1 DEF Write
<1>4. /\ chats' \in SUBSET (ChatId \X Users)
      /\ threads' \in SUBSET (ChatId \X Message)
      /\ refused' \in SUBSET Write /\ refused \subseteq refused'
  BY <1>1, <1>2, <1>3 DEF IInv, TypeOK
<1>5. \A w \in Pending(u, "chat") : w.kind = "chat"
  BY PendingTyped DEF IInv
<1>6. \A w \in Pending(u, "message") : w.kind = "message"
  BY PendingTyped DEF IInv
<1>7. /\ e.kind = "chat" => <<e.id, e.users>> \in Live
      /\ e.kind = "message" => <<e.id, e.msg>> \in Stored
  BY <1>1 DEF Live, PendingChats, Stored, PendingMessages
<1>8. Live' \subseteq Live
  <2>1. chats' \subseteq Live
    BY <1>2, <1>7 DEF Live
  <2>2. \A v \in Uuid : PendingChats(v)' \subseteq PendingChats(v)
    BY <1>1 DEF PendingChats
  <2>3. QED
    BY <2>1, <2>2 DEF Live
<1>9. Stored' \subseteq Stored
  <2>1. threads' \subseteq Stored
    BY <1>2, <1>7 DEF Stored
  <2>2. \A v \in Uuid : PendingMessages(v)' \subseteq PendingMessages(v)
    BY <1>1 DEF PendingMessages
  <2>3. QED
    BY <2>1, <2>2 DEF Stored
<1>10. RefusedChats' \subseteq Known
  <2>1. \A w \in refused' : w \in refused \/ w = e
    BY <1>2
  <2>2. \A w \in refused' : w.kind = "chat" => <<w.id, w.users>> \in Known
    BY <1>7, <2>1 DEF Known, RefusedChats
  <2>3. QED
    BY <2>2 DEF RefusedChats
<1>11. Known \subseteq Known'
  <2>1. chats \subseteq Known' /\ RefusedChats \subseteq Known'
    BY <1>2 DEF Known, Live, RefusedChats
  <2>2. e.kind = "chat" => <<e.id, e.users>> \in Known'
    BY <1>2 DEF Known, Live, RefusedChats
  <2>3. ASSUME NEW v \in Uuid, NEW w \in Pending(v, "chat")
        PROVE  <<w.id, w.users>> \in Known'
    <3>1. CASE w \in Pending(v, "chat")'
      BY <3>1 DEF Known, Live, PendingChats
    <3>2. CASE v = u /\ w = e
      BY <1>5, <2>2, <2>3, <3>2
    <3>3. QED
      BY <1>1, <3>1, <3>2
  <2>4. QED
    BY <2>1, <2>3 DEF Known, Live, PendingChats
<1>12. Known' = Known
  BY <1>8, <1>10, <1>11 DEF Known
<1>13. ASSUME NEW t \in Stored, t \notin Stored'
       PROVE  \E w \in refused' : w.kind = "message" /\ w.msg = t[2]
  <2>1. threads \subseteq Stored'
    BY <1>2 DEF Stored
  <2>2. PICK v \in Uuid : t \in PendingMessages(v)
    BY <1>13, <2>1 DEF Stored
  <2>3. PICK w \in Pending(v, "message") : t = <<w.id, w.msg>>
    BY <2>2 DEF PendingMessages
  <2>4. w \notin Pending(v, "message")'
    BY <1>13, <2>3 DEF Stored, PendingMessages
  <2>5. w = e /\ e.kind = "message"
    BY <1>1, <1>6, <2>3, <2>4
  <2>6. threads' # threads \cup {<<e.id, e.msg>>}
    BY <1>13, <2>3, <2>5 DEF Stored
  <2>7. e \in refused'
    BY <1>2, <2>5, <2>6
  <2>8. QED
    BY <2>3, <2>5, <2>7
<1>14. QED
  BY <1>1, <1>4, <1>8, <1>9, <1>12, <1>13

\* What commits and refusals have in common: one write is no longer pending.
LEMMA WriteGoesInv ==
    ASSUME IInv, NEW u \in Uuid, WriteGoes(u), NoticeThreads,
           \A g \in calls' : GoodCall(g) /\ ForScreen(g),
           UNCHANGED <<screen, opened, list, taps, sent, unattached, blind>>,
           faults' \in 0..MaxFaults, stuck' \in SUBSET Uuid
    PROVE  IInv'
<1>1. /\ queue' \in [Uuid -> Seq(Write)]
      /\ chats' \in SUBSET (ChatId \X Users)
      /\ threads' \in SUBSET (ChatId \X Message)
      /\ refused' \in SUBSET Write /\ refused \subseteq refused'
      /\ \A v \in Uuid : \A kind : Pending(v, kind)' \subseteq Pending(v, kind)
      /\ Known' = Known /\ Live' \subseteq Live /\ Stored' \subseteq Stored
      /\ \A t \in Stored : \/ t \in Stored'
                           \/ \E w \in refused' : w.kind = "message" /\ w.msg = t[2]
  BY WriteGoesFar
<1>2. due' \in SUBSET Uuid /\ \A v \in due' : v \in Uuid /\ screen[v].doc # 0
  BY DEF IInv, TypeOK, ScreensOwn, NoticeThreads
<1>3. TypeOK'
  BY <1>1, <1>2 DEF IInv, TypeOK, GoodCall
<1>4. IdsUnique' /\ PairsMarked'
  BY <1>1 DEF IInv, IdsUnique, PairsMarked
<1>5. FoundOwn'
  BY <1>1 DEF FoundOwn, GoodCall
<1>6. LoadsForScreen'
  BY <1>1 DEF IInv, LoadsForScreen, ForScreen
<1>7. ScreensOwn'
  BY <1>1, <1>2 DEF IInv, ScreensOwn
<1>8. MessagesOwn'
  BY <1>1 DEF IInv, MessagesOwn
<1>9. SentSomewhere' /\ StoredEarlier'
  <2>1. SentSomewhere'
    BY <1>1 DEF IInv, SentSomewhere
  <2>2. StoredEarlier'
    BY <1>1 DEF IInv, StoredEarlier
  <2>3. QED
    BY <2>1, <2>2
<1>10. ShownUnlessDue'
  <2>1. ASSUME NEW v \in Uuid, screen'[v].doc # 0, v \notin due'
        PROVE  screen'[v].messages = Once(ThreadView(v, screen[v].doc)')
    BY <2>1, Unnoticed
  <2>2. QED
    BY <2>1 DEF ShownUnlessDue
<1>11. QED
  BY <1>3, <1>4, <1>5, <1>6, <1>7, <1>8, <1>9, <1>10 DEF IInv

\* A commit puts what was pending on the server.
LEMMA CommitInv ==
    ASSUME IInv, NEW u \in Uuid, Commit(u)
    PROVE  IInv'
<1> DEFINE e == Head(queue[u])
           h == NewCall(u, "load", screen[u].target, FreeSlots(u))
<1>1. WriteGoes(u)
  BY DEF Commit, WriteGoes, Shortens, history
<1>2. NoticeThreads /\ UNCHANGED <<screen, opened, list, taps, faults, sent, unattached, blind, stuck>>
  BY DEF Commit, budget, history
<1>3. CASE UNCHANGED calls
  <2>1. \A g \in calls' : GoodCall(g) /\ ForScreen(g)
    BY <1>3, OldCallsGood
  <2>2. QED
    BY <1>1, <1>2, <2>1, WriteGoesInv DEF IInv, TypeOK
<1>4. CASE e.kind = "chat" /\ e.load /\ Begin(u, "load", screen[u].target)
  <2>1. e \in Pending(u, e.kind)
    BY <1>1, PendingShortened DEF WriteGoes, IInv
  <2>2. screen[u].target \in Uuid
    BY <1>4, <2>1 DEF IInv, LoadsForScreen
  <2>3. GoodCall(h) /\ h.dev = u /\ h.op = "load" /\ h.peer = screen[u].target
    BY <1>4, <2>2, NewCallGood, SlotsAreSlots DEF Begin
  <2>4. calls' = calls \cup {h}
    BY <1>4 DEF Begin
  <2> HIDE DEF h
  <2>5. \A g \in calls' : GoodCall(g) /\ ForScreen(g)
    BY <2>3, <2>4, OldCallsGood DEF ForScreen
  <2>6. QED
    BY <1>1, <1>2, <2>5, WriteGoesInv DEF IInv, TypeOK
<1>5. QED
  BY <1>3, <1>4 DEF Commit

\* A refused write is recorded, and so is the screen whose chat it was.
LEMMA RefuseInv ==
    ASSUME IInv, NEW u \in Uuid, Refuse(u)
    PROVE  IInv'
<1>1. WriteGoes(u)
  BY DEF Refuse, WriteGoes, Shortens, server
<1>2. NoticeThreads /\ UNCHANGED <<screen, opened, list, calls, taps, sent, unattached, blind>>
  BY DEF Refuse
<1>3. faults' \in 0..MaxFaults /\ stuck' \in SUBSET Uuid
  BY ChatsAssumption DEF Refuse, IInv, TypeOK
<1>4. \A g \in calls' : GoodCall(g) /\ ForScreen(g)
  BY <1>2, OldCallsGood
<1>5. QED
  BY <1>1, <1>2, <1>3, <1>4, WriteGoesInv

\* A dead process takes the screen and its calls along; the pending writes stay.
LEMMA DiesInv ==
    ASSUME IInv, NEW u \in Uuid, Dies(u), faults' \in 0..MaxFaults,
           UNCHANGED <<chats, threads, taps, sent, unattached, refused, blind>>
    PROVE  IInv'
<1>1. /\ Forgets(u)
      /\ screen' = [screen EXCEPT ![u] = NoScreen]
      /\ list' = [list EXCEPT ![u] = {}]
      /\ opened' = opened \ {u} /\ due' = due \ {u} /\ stuck' = stuck \ {u}
      /\ calls' = {c \in calls : c.dev # u}
  BY DEF Dies, Forgets
<1>2. /\ queue' \in [Uuid -> Seq(Write)]
      /\ \A v \in Uuid : Pending(v, "message")' = Pending(v, "message")
      /\ \A v \in Uuid : PendingChats(v)' = PendingChats(v)
      /\ \A v \in Uuid : \A w \in Pending(v, "chat")' :
            w.load => v # u /\ w \in Pending(v, "chat")
  BY <1>1, PendingForgotten DEF IInv
<1>3. Live' = Live /\ RefusedChats' = RefusedChats /\ Stored' = Stored
  BY <1>1, <1>2 DEF Live, RefusedChats, Stored, PendingMessages
<1>4. Known' = Known
  BY <1>3 DEF Known
<1>5. /\ screen' \in [Uuid -> Screen]
      /\ screen'[u] = NoScreen /\ NoScreen.doc = 0
      /\ \A v \in Uuid : v # u => screen'[v] = screen[v]
  BY <1>1, NoScreenIsScreen DEF IInv, TypeOK
<1>6. TypeOK'
  <2>1. list' \in [Uuid -> SUBSET Users]
    BY <1>1 DEF IInv, TypeOK
  <2>2. QED
    BY <1>1, <1>2, <1>5, <2>1 DEF IInv, TypeOK
<1>7. /\ IdsUnique' /\ PairsMarked' /\ FoundOwn' /\ MessagesOwn' /\ SentSomewhere'
      /\ StoredEarlier'
  BY <1>1, <1>3, <1>4
     DEF IInv, IdsUnique, PairsMarked, FoundOwn, MessagesOwn, SentSomewhere, StoredEarlier
<1>8. LoadsForScreen'
  <2>1. \A g \in calls' : g \in calls /\ g.dev \in Uuid /\ g.dev # u
    BY <1>1, OldCallsGood
  <2>2. \A g \in calls' : g.op = "load" => screen'[g.dev].target = g.peer
    BY <1>5, <2>1 DEF IInv, LoadsForScreen
  <2>3. \A v \in Uuid : \A w \in Pending(v, "chat")' : w.load => screen'[v].target \in Uuid
    BY <1>2, <1>5 DEF IInv, LoadsForScreen
  <2>4. QED
    BY <2>2, <2>3 DEF LoadsForScreen
<1>9. ScreensOwn'
  BY <1>1, <1>4, <1>5 DEF IInv, ScreensOwn
<1>10. ShownUnlessDue'
  <2>1. ASSUME NEW v \in Uuid, screen'[v].doc # 0, v \notin due'
        PROVE  screen'[v].messages = Once(ThreadView(v, screen[v].doc)')
    <3>1. v # u /\ v \notin due
      BY <1>1, <1>5, <2>1
    <3>2. screen[v].messages = Once(ThreadView(v, screen[v].doc))
      BY <1>5, <2>1, <3>1 DEF IInv, ShownUnlessDue
    <3>3. ThreadView(v, screen[v].doc)' = ThreadView(v, screen[v].doc)
      BY <1>1, <1>2, <1>5, <3>1 DEF ThreadView
    <3>4. QED
      BY <1>5, <3>1, <3>2, <3>3
  <2>2. QED
    BY <2>1 DEF ShownUnlessDue
<1>11. QED
  BY <1>6, <1>7, <1>8, <1>9, <1>10 DEF IInv

\* The system ends a process, and it starts again.
LEMMA RelaunchInv ==
    ASSUME IInv, NEW u \in Uuid, Relaunch(u)
    PROVE  IInv'
<1>1. faults' \in 0..MaxFaults
  BY ChatsAssumption DEF Relaunch, IInv, TypeOK
<1>2. QED
  BY <1>1, DiesInv DEF Relaunch, server

\* The row of a chat that the other user has made ends it.
LEMMA ChatTrapsInv ==
    ASSUME IInv, NEW c \in calls, ChatTraps(c)
    PROVE  IInv'
<1>1. c.dev \in Uuid
  BY OldCallsGood
<1>2. faults' \in 0..MaxFaults
  BY DEF ChatTraps, budget, IInv, TypeOK
<1>3. QED
  BY <1>1, <1>2, DiesInv DEF ChatTraps, server, budget

-----------------------------------------------------------------------------
(* The theorems *)

\* No chat, no message and no screen at the start.
LEMMA InitInv ==
    ASSUME Init
    PROVE  IInv
<1>1. \A u \in Uuid : queue[u] = <<>> /\ screen[u] = NoScreen
  BY DEF Init
<1>2. \A u \in Uuid : \A kind : Pending(u, kind) = {}
  BY <1>1 DEF Pending
<1>3. chats = {} /\ threads = {} /\ refused = {} /\ calls = {} /\ due = {} /\ sent = {}
  BY DEF Init
<1>4. Known = {} /\ Live = {} /\ Stored = {}
  BY <1>2, <1>3 DEF Known, Live, PendingChats, RefusedChats, Stored, PendingMessages
<1>5. TypeOK
  <2>1. <<>> \in Seq(Write) /\ NoScreen \in Screen
    BY EmptySeq, NoScreenIsScreen
  <2>2. QED
    BY <2>1, ChatsAssumption DEF Init, TypeOK
<1>6. IdsUnique /\ PairsMarked /\ FoundOwn /\ MessagesOwn /\ SentSomewhere /\ StoredEarlier
  BY <1>3, <1>4
     DEF IdsUnique, PairsMarked, FoundOwn, MessagesOwn, SentSomewhere, StoredEarlier
<1>7. LoadsForScreen
  BY <1>2, <1>3 DEF LoadsForScreen
<1>8. ScreensOwn /\ ShownUnlessDue
  BY <1>1, <1>3 DEF ScreensOwn, ShownUnlessDue, NoScreen
<1>9. QED
  BY <1>5, <1>6, <1>7, <1>8 DEF IInv

\* No step at all changes nothing.
LEMMA StutterInv ==
    ASSUME IInv, UNCHANGED vars
    PROVE  IInv'
<1>1. Calm /\ UNCHANGED <<screen, due, calls, opened, list, taps, faults, stuck>>
  BY DEF vars, Calm
<1>2. \A g \in calls' : GoodCall(g) /\ ForScreen(g)
  BY <1>1, OldCallsGood
<1>3. QED
  BY <1>1, <1>2, CallsStep DEF IInv, TypeOK

\* Every step keeps the invariant.
LEMMA NextInv ==
    ASSUME IInv, Next
    PROVE  IInv'
<1>1. ASSUME NEW u \in Uuid, ChatListShown(u)
      PROVE  IInv'
  BY <1>1, ChatListShownInv
<1>2. ASSUME NEW u \in Uuid, NEW v \in Uuid, plusPressed(u, v)
      PROVE  IInv'
  BY <1>2, TapInv DEF plusPressed
<1>3. ASSUME NEW u \in Uuid, NEW p \in list[u], didSelectRow(u, p)
      PROVE  IInv'
  BY <1>3, DidSelectRowInv
<1>4. ASSUME NEW u \in Uuid, didPressSendButton(u)
      PROVE  IInv'
  BY <1>4, DidPressSendButtonInv
<1>5. ASSUME NEW u \in Uuid, ThreadListener(u)
      PROVE  IInv'
  BY <1>5, ThreadListenerInv
<1>6. ASSUME NEW u \in Uuid, Commit(u) \/ Refuse(u) \/ Relaunch(u)
      PROVE  IInv'
  BY <1>6, CommitInv, RefuseInv, RelaunchInv
<1>7. ASSUME NEW c \in calls, Answer(c) \/ LookupFails(c)
      PROVE  IInv'
  BY <1>7, AnswerInv, LookupFailsInv
<1>8. ASSUME NEW c \in calls, Completion(c)
      PROVE  IInv'
  BY <1>8, GetNumberofChatsInv, CreateNewChatWithInv, ChatPresentedInv, ChatTrapsInv,
     LoadChatInv
     DEF Completion
<1>9. ASSUME NEW u \in Uuid, LoadRequested(u)
      PROVE  IInv'
  BY <1>9, LoadRequestedInv
<1>10. ASSUME NEW u \in Uuid, NEW v \in Uuid, messageTapped(u, v)
       PROVE  IInv'
  BY <1>10, MessageTappedInv
<1>11. QED
  BY <1>1, <1>2, <1>3, <1>4, <1>5, <1>6, <1>7, <1>8, <1>9, <1>10 DEF Next

\* IInv holds in every state the chats reach.
THEOREM Invariance == Spec => []IInv
<1>1. Init => IInv
  BY InitInv
<1>2. IInv /\ [Next]_vars => IInv'
  BY NextInv, StutterInv
<1>3. QED
  BY <1>1, <1>2, PTL DEF Spec

\* What ChatsController and the chat screen hold, and what addDocument stores,
\* keeps its type.
THEOREM TypeCorrect == Spec => []TypeOK
<1>1. IInv => TypeOK
  BY DEF IInv
<1>2. QED
  BY <1>1, Invariance, PTL

\* A message sent on the chat screen reaches only a chat of its sender and of the
\* user it was meant for.
THEOREM MessagesStayInPair == Spec => []MessageStaysInPair
<1>1. ASSUME IInv, NEW c \in chats, NEW t \in threads, c[1] = t[1], t[2].from # t[2].to
      PROVE  SamePair(c[2], <<t[2].from, t[2].to>>)
  <2>1. c \in Known /\ t \in Stored
    BY DEF Known, Live, Stored
  <2>2. PICK d \in Known : d[1] = t[1] /\ Between(d, t[2].from, t[2].to)
    BY <1>1, <2>1 DEF IInv, MessagesOwn
  <2>3. c = d
    BY <1>1, <2>1, <2>2 DEF IInv, IdsUnique
  <2>4. QED
    BY <1>1, <2>2, <2>3 DEF Between
<1>2. IInv => MessageStaysInPair
  BY <1>1 DEF MessageStaysInPair
<1>3. QED
  BY <1>2, Invariance, PTL

\* Two users who are in their chat with one another write to one thread, unless
\* loadChat or the plus button made a second chat where one could be seen, or the
\* write of a chat that a screen had taken was refused.
THEOREM SplitsHaveCause == Spec => []SplitHasCause
<1>1. ASSUME IInv, NEW u \in Uuid, NEW v \in Uuid, u # v,
             screen[u].target = v, screen[v].target = u,
             screen[u].doc # 0, screen[v].doc # 0, screen[u].doc # screen[v].doc
      PROVE  \/ {u, v} \in blind
             \/ \E w \in refused : w.kind = "chat" /\ SamePair(w.users, <<u, v>>)
  <2>1. PICK c \in Known : c[1] = screen[u].doc /\ SamePair(c[2], <<u, v>>)
    BY <1>1 DEF IInv, ScreensOwn, Between
  <2>2. PICK d \in Known : d[1] = screen[v].doc /\ SamePair(d[2], <<v, u>>)
    BY <1>1 DEF IInv, ScreensOwn, Between
  <2>3. SamePair(d[2], <<u, v>>) /\ SamePair(c[2], d[2]) /\ c[1] # d[1]
    BY <1>1, <2>1, <2>2 DEF SamePair
  <2>4. ASSUME NEW b \in RefusedChats, SamePair(b[2], <<u, v>>)
        PROVE  \E w \in refused : w.kind = "chat" /\ SamePair(w.users, <<u, v>>)
    BY <2>4 DEF RefusedChats
  <2>5. CASE c \in RefusedChats \/ d \in RefusedChats
    BY <2>1, <2>3, <2>4, <2>5
  <2>6. CASE c \in Live /\ d \in Live
    <3>1. {c[2][1], c[2][2]} \in blind
      BY <1>1, <2>3, <2>6 DEF IInv, PairsMarked
    <3>2. QED
      BY <2>1, <3>1 DEF SamePair
  <2>7. QED
    BY <2>5, <2>6 DEF Known
<1>2. IInv => SplitHasCause
  BY <1>1 DEF SplitHasCause
<1>3. QED
  BY <1>2, Invariance, PTL

\* In a quiet state nothing is pending.
LEMMA NothingPending ==
    ASSUME Quiet
    PROVE  \A u \in Uuid : \A kind : Pending(u, kind) = {}
BY DEF Quiet, Pending

\* When everything has settled, a message is in a thread, unless save had no
\* docReference for it or its write was refused.
THEOREM LostMessagesHaveCause == Spec => []LostMessageHasCause
<1>1. ASSUME IInv, Quiet, NEW m \in sent
      PROVE  \/ \E t \in threads : t[2] = m
             \/ m \in unattached
             \/ \E w \in refused : w.kind = "message" /\ w.msg = m
  <2>1. Stored = threads
    BY <1>1, NothingPending DEF Stored, PendingMessages
  <2>2. QED
    BY <1>1, <2>1 DEF IInv, SentSomewhere
<1>2. IInv => LostMessageHasCause
  BY <1>1 DEF LostMessageHasCause
<1>3. QED
  BY <1>2, Invariance, PTL

\* When everything has settled, an open chat shows each message of its thread once
\* and nothing else: what insertNewMessage appends and the listener refills comes
\* out the same.
THEOREM ScreensShowThread == Spec => []ScreenShowsThread
<1>1. IInv => ScreenShowsThread
  BY DEF IInv, ShownUnlessDue, ScreenShowsThread, Quiet
<1>2. QED
  BY <1>1, Invariance, PTL
=============================================================================
