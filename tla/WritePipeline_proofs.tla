------------------------- MODULE WritePipeline_proofs -------------------------
(***************************************************************************)
(* Proofs about WritePipeline: the inductive invariant IInv, that every     *)
(* action keeps it, the safety properties that follow, and the refinement   *)
(* of WriteQueue.                                                           *)
(*                                                                         *)
(* IInv has two halves.  Good speaks of RemoteStore, its stream and the     *)
(* call, given the mutation queue of the current user: the helpers of       *)
(* WritePipeline keep it, one lemma each.  Ledger speaks of what is on      *)
(* disk, on the server, and known to the app.                               *)
(***************************************************************************)
EXTENDS WritePipeline, SequenceTheorems, TLAPS

-----------------------------------------------------------------------------
(* The inductive invariant *)

Prefix(p, q) == Len(p) <= Len(q) /\ \A i \in 1..Len(p) : p[i] = q[i]

\* A mutation queue is in the order of its batch ids and of its writes.
InOrder(q) ==
    \A i, j \in 1..Len(q) : i < j => q[i].id < q[j].id /\ q[i].write < q[j].write

\* The stream: what its state says of the other fields.
Stream(r) ==
    /\ r.state # "open" => r.up = <<>> /\ r.down = <<>> /\ ~ r.handshaken
    /\ "current" \in r.asking => r.state = "starting"
    /\ ~ r.enabled => r.pipeline = <<>> /\ ~ Started(r)
    /\ r.idle => r.handshaken /\ r.pipeline = <<>>
    /\ Started(r) /\ ~ r.handshaken => r.pipeline # <<>>

\* What is under way: the handshake alone, or what was sent of the pipeline, in
\* its order, answered up to some place, and refused at most at that place.
Transit(r) ==
    /\ r.state = "open" /\ ~ r.handshaken =>
           \/ r.up = <<Handshake>> /\ r.down = <<>>
           \/ r.up = <<>> /\ r.down = <<Handshake>>
    /\ r.handshaken =>
           /\ Len(r.down) + Len(r.up) = Len(r.pipeline)
           /\ \A i \in 1..Len(r.down) :
                  \/ r.down[i] = Result(r.pipeline[i])
                  \/ r.down[i] = Refusal(r.pipeline[i]) /\ i = Len(r.down)
           /\ \A i \in 1..Len(r.up) : r.up[i] = Request(r.pipeline[Len(r.down) + i])

Loaded(r, q) == Prefix(r.pipeline, q) /\ Len(r.pipeline) <= MaxPendingWrites

\* The pipeline holds all it can, and a stream that is needed is running.
Filled(r, q) ==
    /\ Len(r.pipeline) = IF ~ r.enabled THEN 0
                         ELSE IF Len(q) < MaxPendingWrites THEN Len(q) ELSE MaxPendingWrites
    /\ r.enabled /\ r.pipeline # <<>> => Started(r)

\* What FillWritePipeline needs, and what it makes of it.
Fillable(r, q) == r \in Net /\ Stream(r) /\ Transit(r) /\ Loaded(r, q)
Good(r, q) == Fillable(r, q) /\ Filled(r, q)

\* What is on disk belongs to its user, has an id that is not given out again, and
\* was applied in its order.
Disk ==
    \A u \in User :
        /\ InOrder(queue[u])
        /\ \A i \in 1..Len(queue[u]) :
               /\ queue[u][i].id < nextId
               /\ queue[u][i].write <= Len(issued)
               /\ issued[queue[u][i].write] = u
               /\ queue[u][i].write \in applied =>
                      \A j \in 1..(i - 1) : queue[u][j].write \in applied

\* Nothing is known of a write that was not made yet.
Unmade ==
    /\ Len(issued) <= MaxWrites
    /\ applied \subseteq 1..Len(issued)
    /\ \A w \in 1..MaxWrites : w > Len(issued) => told[w] = "no"

\* What the app has been, or can still be, told of a write on disk.
Unsettled(w) == told[w] = "no" \/ (told[w] = "ok" /\ w \in cut /\ w \in applied)

Knowledge ==
    /\ \A u \in User : \A c \in callbacks[u] :
           told[c.write] = "no" /\ \E i \in 1..Len(queue[u]) : queue[u][i] = c
    /\ \A u \in User : \A i \in 1..Len(queue[u]) :
           Unsettled(queue[u][i].write)

\* An applied write that is still on disk has its result on the way, or had.
Answers ==
    /\ Results(net) \subseteq applied
    /\ \A u \in User : \A i \in 1..Len(queue[u]) :
           queue[u][i].write \in applied => queue[u][i].write \in unheard \cup Results(net)

Ledger == Disk /\ Unmade /\ Knowledge /\ Answers /\ FailureHasCause

IInv == TypeOK /\ Good(net, queue[user]) /\ Ledger

-----------------------------------------------------------------------------
(* FillWritePipeline *)

\* The batches after the last one of the pipeline begin where the pipeline ends.
LEMMA FirstAfterPrefix ==
    ASSUME NEW q \in Seq(Batch), InOrder(q), NEW p \in Seq(Batch), Prefix(p, q)
    PROVE  FirstAfter(q, LastId(p)) = Len(p) + 1
<1> DEFINE n == Len(p)
           last == LastId(p)
           F(k) == /\ \A i \in 1..(k - 1) : q[i].id <= last
                   /\ k <= Len(q) => q[k].id > last
<1>1. n \in Nat /\ Len(q) \in Nat /\ n <= Len(q)
  BY LenProperties DEF Prefix
<1>2. \A i \in 1..Len(q) : q[i].id \in Nat \ {0}
  <2>1. \A i \in 1..Len(q) : q[i] \in Batch
    BY ElementOfSeq
  <2>2. QED
    BY <2>1 DEF Batch
<1>3. n = 0 => last = 0
  BY EmptySeq, LenProperties DEF LastId
<1>4. n # 0 => last = q[n].id
  <2>1. n # 0 => p # <<>>
    BY EmptySeq
  <2>2. QED
    BY <1>1, <2>1 DEF LastId, Prefix
<1>5. \A i \in 1..n : q[i].id <= last
  BY <1>1, <1>2, <1>4 DEF InOrder
<1>6. \A i \in 1..Len(q) : i > n => q[i].id > last
  BY <1>1, <1>2, <1>3, <1>4 DEF InOrder
<1> HIDE DEF n, last
<1>7. n + 1 \in 1..(Len(q) + 1) /\ F(n + 1)
  BY <1>1, <1>5, <1>6
<1>8. \A k \in 1..(Len(q) + 1) : F(k) => k = n + 1
  <2> SUFFICES ASSUME NEW k \in 1..(Len(q) + 1), F(k) PROVE k = n + 1
    OBVIOUS
  <2>1. CASE k < n + 1
    <3>1. k \in 1..n /\ k <= Len(q)
      BY <1>1, <2>1
    <3>2. q[k].id <= last /\ q[k].id > last
      BY <1>5, <3>1
    <3>3. last \in Nat /\ q[k].id \in Nat
      BY <1>1, <1>2, <1>3, <1>4, <3>1
    <3>4. QED
      BY <3>2, <3>3
  <2>2. CASE k > n + 1
    <3>1. n + 1 \in 1..(k - 1) /\ n + 1 \in 1..Len(q)
      BY <1>1, <2>2
    <3>2. q[n + 1].id <= last /\ q[n + 1].id > last
      BY <1>1, <1>6, <3>1
    <3>3. last \in Nat /\ q[n + 1].id \in Nat
      BY <1>1, <1>2, <1>3, <1>4, <3>1
    <3>4. QED
      BY <3>2, <3>3
  <2>3. QED
    BY <1>1, <2>1, <2>2
<1>9. FirstAfter(q, last) = CHOOSE k \in 1..(Len(q) + 1) : F(k)
  BY DEF FirstAfter
<1>10. QED
  BY <1>7, <1>8, <1>9 DEF n, last

\* So the pipeline and what follows it are the beginning of the queue, as long as
\* the pipeline may be.
LEMMA FollowingFills ==
    ASSUME NEW q \in Seq(Batch), InOrder(q), NEW p \in Seq(Batch), Prefix(p, q),
           Len(p) <= MaxPendingWrites
    PROVE  /\ Following(p, q) \in Seq(Batch)
           /\ Len(p) + Len(Following(p, q)) =
                  IF Len(q) < MaxPendingWrites THEN Len(q) ELSE MaxPendingWrites
           /\ \A i \in 1..Len(Following(p, q)) : Following(p, q)[i] = q[Len(p) + i]
<1> DEFINE to == IF Len(q) < MaxPendingWrites THEN Len(q) ELSE MaxPendingWrites
<1>1. /\ Len(p) \in Nat /\ Len(q) \in Nat /\ Len(p) <= Len(q)
      /\ MaxPendingWrites \in Nat \ {0}
  BY LenProperties, PipelineAssumption DEF Prefix, PipelineAssumption
<1>2. Following(p, q) = SubSeq(q, Len(p) + 1, to)
  <2> DEFINE k == FirstAfter(q, LastId(p))
             room == k + MaxPendingWrites - Len(p) - 1
  <2>1. k = Len(p) + 1
    BY FirstAfterPrefix
  <2>2. Following(p, q) = SubSeq(q, k, IF room < Len(q) THEN room ELSE Len(q))
    BY DEF Following
  <2> HIDE DEF k
  <2>3. room = MaxPendingWrites
    BY <1>1, <2>1
  <2> HIDE DEF room
  <2>4. (IF room < Len(q) THEN room ELSE Len(q)) = to
    BY <1>1, <2>3
  <2>5. QED
    BY <2>1, <2>2, <2>4
<1>3. to \in Nat /\ Len(p) <= to /\ to <= Len(q)
  BY <1>1
<1> HIDE DEF to
<1>4. /\ SubSeq(q, Len(p) + 1, to) \in Seq(Batch)
      /\ Len(SubSeq(q, Len(p) + 1, to)) = to - Len(p)
      /\ \A i \in 1..(to - Len(p)) : SubSeq(q, Len(p) + 1, to)[i] = q[Len(p) + i]
  <2>1. to - (Len(p) + 1) + 1 = to - Len(p)
    BY <1>1, <1>3
  <2>2. \A i \in (Len(p) + 1)..to : q[i] \in Batch
    BY <1>1, <1>3, ElementOfSeq
  <2>3. \A i \in 1..(to - Len(p)) : Len(p) + 1 + i - 1 = Len(p) + i
    BY <1>1, <1>3
  <2>4. QED
    BY <1>1, <1>3, <2>1, <2>2, <2>3, SubSeqProperties
<1>5. QED
  BY <1>1, <1>2, <1>3, <1>4 DEF to

-----------------------------------------------------------------------------
(* The other helpers *)

\* StartIfNeeded touches two fields.
LEMMA StartFields ==
    ASSUME NEW r \in Net
    PROVE  /\ Start(r) \in Net
           /\ Start(r).state \in {"starting", "backoff"}
           /\ "current" \in Start(r).asking =>
                  Start(r).state = "starting" \/ "current" \in r.asking
           /\ Start(r).enabled = r.enabled /\ Start(r).pipeline = r.pipeline
           /\ Start(r).handshaken = r.handshaken /\ Start(r).idle = r.idle
           /\ Start(r).up = r.up /\ Start(r).down = r.down
BY DEF Start, Net

\* Closed leaves the network and the pipeline alone.
LEMMA ClosedFields ==
    ASSUME NEW r \in Net, NEW s \in {"initial", "error"}
    PROVE  /\ Closed(r, s) \in Net
           /\ Closed(r, s).state = s /\ "current" \notin Closed(r, s).asking
           /\ Closed(r, s).enabled = r.enabled /\ Closed(r, s).pipeline = r.pipeline
           /\ ~ Closed(r, s).handshaken /\ ~ Closed(r, s).idle
           /\ Closed(r, s).up = <<>> /\ Closed(r, s).down = <<>>
<1>1. <<>> \in Seq(Message)
  BY EmptySeq
<1>2. QED
  BY <1>1 DEF Closed, Net

\* Starting what is not running makes a loaded pipeline filled.
LEMMA StartIfNeededIsGood ==
    ASSUME NEW q, NEW r, Fillable(r, q),
           Len(r.pipeline) = IF ~ r.enabled THEN 0
                             ELSE IF Len(q) < MaxPendingWrites THEN Len(q) ELSE MaxPendingWrites
    PROVE  Good(StartIfNeeded(r), q) /\ StartIfNeeded(r).down = r.down
<1>1. r \in Net
  BY DEF Fillable
<1>2. CASE r.enabled /\ ~ Started(r) /\ r.pipeline # <<>>
  <2>1. StartIfNeeded(r) = Start(r)
    BY <1>2 DEF StartIfNeeded
  <2>2. r.state # "open" /\ "current" \notin r.asking
    BY <1>2 DEF Fillable, Stream, Started
  <2>3. Stream(Start(r)) /\ Started(Start(r))
    BY <1>1, <1>2, <2>2, StartFields DEF Fillable, Stream, Started
  <2>4. Transit(Start(r))
    BY <1>1, <2>2, StartFields DEF Fillable, Stream, Transit
  <2>5. QED
    BY <1>1, <2>1, <2>3, <2>4, StartFields DEF Good, Fillable, Filled, Loaded
<1>3. CASE ~ (r.enabled /\ ~ Started(r) /\ r.pipeline # <<>>)
  BY <1>3 DEF StartIfNeeded, Good, Fillable, Filled
<1>4. QED
  BY <1>2, <1>3

\* Requests(p) are the requests of p in its order.
LEMMA RequestsFields ==
    ASSUME NEW p \in Seq(Batch)
    PROVE  /\ Requests(p) \in Seq(Message)
           /\ Len(Requests(p)) = Len(p)
           /\ \A i \in 1..Len(p) : Requests(p)[i] = Request(p[i])
<1>1. Len(p) \in Nat /\ DOMAIN p = 1..Len(p)
  BY LenProperties
<1>2. \A i \in 1..Len(p) : Request(p[i]) \in Message
  BY ElementOfSeq DEF Request, Message
<1>3. Requests(p) = [i \in 1..Len(p) |-> Request(p[i])]
  BY <1>1 DEF Requests
<1>4. QED
  BY <1>1, <1>2, <1>3, IsASeq

\* What a concatenation holds, by its parts.
LEMMA ConcatParts ==
    ASSUME NEW S, NEW s \in Seq(S), NEW t \in Seq(S)
    PROVE  /\ s \o t \in Seq(S) /\ Len(s \o t) = Len(s) + Len(t)
           /\ \A i \in 1..Len(s) : (s \o t)[i] = s[i]
           /\ \A i \in 1..Len(t) : (s \o t)[Len(s) + i] = t[i]
<1>1. Len(s) \in Nat /\ Len(t) \in Nat
  BY LenProperties
<1>2. /\ s \o t \in Seq(S) /\ Len(s \o t) = Len(s) + Len(t)
      /\ \A i \in 1..(Len(s) + Len(t)) :
             (s \o t)[i] = IF i <= Len(s) THEN s[i] ELSE t[i - Len(s)]
  BY ConcatProperties
<1>3. \A i \in 1..Len(s) : i \in 1..(Len(s) + Len(t)) /\ i <= Len(s)
  BY <1>1
<1>4. \A i \in 1..Len(t) : /\ Len(s) + i \in 1..(Len(s) + Len(t)) /\ ~ (Len(s) + i <= Len(s))
                           /\ Len(s) + i - Len(s) = i
  BY <1>1
<1>5. QED
  BY <1>2, <1>3, <1>4

\* FillWritePipeline fills.
LEMMA FillIsGood ==
    ASSUME NEW q \in Seq(Batch), InOrder(q), NEW r, Fillable(r, q)
    PROVE  Good(FillWritePipeline(r, q), q) /\ FillWritePipeline(r, q).down = r.down
<1> DEFINE p == r.pipeline
           u == r.up
           d == r.down
           more == IF r.enabled THEN Following(p, q) ELSE <<>>
           sends == r.state = "open" /\ r.handshaken /\ more # <<>>
           idles == r.state = "open" /\ r.enabled /\ more = <<>> /\ p = <<>>
           new == p \o more
           sent == IF sends THEN u \o Requests(more) ELSE u
           r1 == [r EXCEPT !.pipeline = new, !.up = sent, !.idle = (@ /\ ~ sends) \/ idles]
<1>1. /\ r \in Net /\ p \in Seq(Batch) /\ Len(p) \in Nat /\ Len(q) \in Nat
      /\ u \in Seq(Message) /\ d \in Seq(Message) /\ Len(u) \in Nat /\ Len(d) \in Nat
      /\ Prefix(p, q) /\ Len(p) <= MaxPendingWrites
  BY LenProperties DEF Fillable, Loaded, Net
<1>2. /\ r.state # "open" => u = <<>> /\ d = <<>> /\ ~ r.handshaken
      /\ "current" \in r.asking => r.state = "starting"
      /\ ~ r.enabled => p = <<>> /\ ~ Started(r)
      /\ r.idle => r.handshaken /\ p = <<>>
      /\ Started(r) /\ ~ r.handshaken => p # <<>>
      /\ r.state = "open" => Started(r)
  BY DEF Fillable, Stream, Started
<1>3. /\ r.state = "open" /\ ~ r.handshaken =>
             \/ u = <<Handshake>> /\ d = <<>>
             \/ u = <<>> /\ d = <<Handshake>>
      /\ r.handshaken =>
             /\ Len(d) + Len(u) = Len(p)
             /\ \A i \in 1..Len(d) : d[i] = Result(p[i]) \/ (d[i] = Refusal(p[i]) /\ i = Len(d))
             /\ \A i \in 1..Len(u) : u[i] = Request(p[Len(d) + i])
  BY DEF Fillable, Transit
<1>4. /\ more \in Seq(Batch) /\ Len(more) \in Nat
      /\ \A i \in 1..Len(more) : more[i] = q[Len(p) + i]
      /\ Len(p) + Len(more) =
             IF ~ r.enabled THEN 0
             ELSE IF Len(q) < MaxPendingWrites THEN Len(q) ELSE MaxPendingWrites
  <2> HIDE DEF p
  <2>1. CASE r.enabled
    BY <1>1, <2>1, FollowingFills, LenProperties
  <2>2. CASE ~ r.enabled
    BY <1>2, <2>2, EmptySeq
  <2>3. QED
    BY <2>1, <2>2
<1> HIDE DEF p, u, d, more
<1>lengths. /\ Len(p) \in Nat /\ Len(q) \in Nat /\ Len(u) \in Nat
            /\ Len(d) \in Nat /\ Len(more) \in Nat
  BY <1>1, <1>4
<1>5. /\ new \in Seq(Batch) /\ Len(new) = Len(p) + Len(more)
      /\ \A i \in 1..Len(p) : new[i] = p[i]
      /\ \A i \in 1..Len(more) : new[Len(p) + i] = more[i]
  BY <1>1, <1>4, ConcatParts
<1>6. /\ more = <<>> <=> Len(more) = 0
      /\ p = <<>> <=> Len(p) = 0
      /\ new = <<>> <=> Len(p) + Len(more) = 0
  BY <1>1, <1>4, <1>5, EmptySeq
<1>7. /\ sent \in Seq(Message) /\ Len(sent) \in Nat
      /\ r.handshaken =>
             /\ Len(sent) = Len(u) + Len(more)
             /\ \A i \in 1..Len(u) : sent[i] = u[i]
             /\ \A i \in 1..Len(more) : sent[Len(u) + i] = Request(more[i])
      /\ ~ r.handshaken => sent = u
  <2>1. CASE sends
    <3>1. /\ Requests(more) \in Seq(Message) /\ Len(Requests(more)) = Len(more)
          /\ \A i \in 1..Len(more) : Requests(more)[i] = Request(more[i])
      BY <1>4, RequestsFields
    <3>2. sent = u \o Requests(more)
      BY <2>1
    <3> HIDE DEF sent
    <3>3. /\ sent \in Seq(Message) /\ Len(sent) = Len(u) + Len(more)
          /\ \A i \in 1..Len(u) : sent[i] = u[i]
          /\ \A i \in 1..Len(more) : sent[Len(u) + i] = Requests(more)[i]
      <4>1. u \in Seq(Message)
        BY <1>1
      <4>2. Requests(more) \in Seq(Message) /\ Len(Requests(more)) = Len(more)
        BY <3>1
      <4> DEFINE t == Requests(more)
      <4>3. t \in Seq(Message)
        BY <4>2
      <4> HIDE DEF t
      <4>4. /\ u \o t \in Seq(Message) /\ Len(u \o t) = Len(u) + Len(t)
            /\ \A i \in 1..Len(u) : (u \o t)[i] = u[i]
            /\ \A i \in 1..Len(t) : (u \o t)[Len(u) + i] = t[i]
        BY <4>1, <4>3, ConcatParts
      <4>5. QED
        BY <3>2, <4>2, <4>4 DEF t
    <3>4. Len(sent) \in Nat
      BY <1>lengths, <3>3
    <3>5. \A i \in 1..Len(more) : sent[Len(u) + i] = Request(more[i])
      BY <3>1, <3>3
    <3>6. r.handshaken
      BY <2>1
    <3>7. QED
      BY <3>3, <3>4, <3>5, <3>6
  <2>2. CASE ~ sends
    <3>1. sent = u
      BY <2>2
    <3>2. r.handshaken => more = <<>>
      BY <1>2, <2>2
    <3> HIDE DEF sent
    <3>3. QED
      BY <1>1, <1>4, <1>6, <3>1, <3>2
  <2>3. QED
    BY <2>1, <2>2
<1>8. r.idle /\ ~ sends => more = <<>>
  BY <1>2
<1> HIDE DEF new, sent
<1>9. /\ r1 \in Net /\ r1.pipeline = new /\ r1.up = sent /\ r1.down = d
      /\ r1.state = r.state /\ r1.enabled = r.enabled /\ r1.handshaken = r.handshaken
      /\ r1.asking = r.asking /\ r1.idle = ((r.idle /\ ~ sends) \/ idles)
  BY <1>1, <1>5, <1>7 DEF Net, d
<1> HIDE DEF r1
<1>10. Stream(r1)
  <2>1. r1.idle => r1.handshaken /\ r1.pipeline = <<>>
    <3>1. p = <<>> /\ more = <<>> => new = <<>>
      BY <1>1, <1>4, <1>6
    <3>2. r.idle /\ ~ sends => r.handshaken /\ new = <<>>
      BY <1>2, <1>8, <3>1
    <3>3. idles => r.handshaken /\ new = <<>>
      BY <1>2, <3>1
    <3>4. QED
      BY <1>9, <3>2, <3>3
  <2>2. r1.state # "open" => r1.up = <<>> /\ r1.down = <<>> /\ ~ r1.handshaken
    BY <1>2, <1>7, <1>9
  <2>3. "current" \in r1.asking => r1.state = "starting"
    BY <1>2, <1>9
  <2>4. ~ r1.enabled => r1.pipeline = <<>> /\ ~ Started(r1)
    BY <1>2, <1>4, <1>6, <1>9 DEF Started
  <2>5. Started(r1) /\ ~ r1.handshaken => r1.pipeline # <<>>
    BY <1>1, <1>2, <1>4, <1>6, <1>9 DEF Started
  <2>6. QED
    BY <2>1, <2>2, <2>3, <2>4, <2>5 DEF Stream
<1>11. Transit(r1)
  <2>1. CASE ~ r.handshaken
    BY <1>3, <1>7, <1>9, <2>1 DEF Transit
  <2>2. CASE r.handshaken
    <3>1. Len(d) + Len(sent) = Len(new)
      <4>1. Len(d) + Len(u) = Len(p) /\ Len(sent) = Len(u) + Len(more) /\ Len(new) = Len(p) + Len(more)
        BY <1>3, <1>5, <1>7, <2>2
      <4>2. QED
        BY <1>lengths, <4>1
    <3>2. \A i \in 1..Len(d) : d[i] = Result(new[i]) \/ (d[i] = Refusal(new[i]) /\ i = Len(d))
      <4>1. \A i \in 1..Len(d) : i \in 1..Len(p)
        BY <1>1, <1>3, <2>2
      <4>2. QED
        BY <1>3, <1>5, <2>2, <4>1
    <3>3. \A i \in 1..Len(sent) : sent[i] = Request(new[Len(d) + i])
      <4> SUFFICES ASSUME NEW i \in 1..Len(sent) PROVE sent[i] = Request(new[Len(d) + i])
        OBVIOUS
      <4>1. Len(d) + Len(u) = Len(p)
        BY <1>3, <2>2
      <4>2. CASE i <= Len(u)
        <5>1. i \in 1..Len(u) /\ Len(d) + i \in 1..Len(p)
          BY <1>1, <1>7, <4>1, <4>2
        <5>2. QED
          BY <1>3, <1>5, <1>7, <2>2, <5>1
      <4>3. CASE i > Len(u)
        <5>1. PICK k \in 1..Len(more) : i = Len(u) + k
          <6>1. i - Len(u) \in 1..Len(more) /\ i = Len(u) + (i - Len(u))
            BY <1>1, <1>4, <1>7, <2>2, <4>3
          <6>2. QED
            BY <6>1
        <5>2. Len(d) + i = Len(p) + k
          BY <1>lengths, <4>1, <5>1
        <5>3. QED
          BY <1>5, <1>7, <2>2, <5>1, <5>2
      <4>4. QED
        BY <1>1, <1>7, <4>2, <4>3
    <3>4. QED
      BY <1>9, <2>2, <3>1, <3>2, <3>3 DEF Transit
  <2>3. QED
    BY <2>1, <2>2
<1>12. Loaded(r1, q)
  <2>1. Len(new) <= Len(q) /\ Len(new) <= MaxPendingWrites
    BY <1>1, <1>4, <1>5, PipelineAssumption DEF PipelineAssumption
  <2>2. \A i \in 1..Len(new) : new[i] = q[i]
    <3> SUFFICES ASSUME NEW i \in 1..(Len(p) + Len(more)) PROVE new[i] = q[i]
      BY <1>5
    <3>1. CASE i <= Len(p)
      BY <1>1, <1>5, <3>1 DEF Prefix
    <3>2. CASE i > Len(p)
      <4>1. PICK k \in 1..Len(more) : i = Len(p) + k
        <5>1. i - Len(p) \in 1..Len(more) /\ i = Len(p) + (i - Len(p))
          BY <1>1, <1>4, <3>2
        <5>2. QED
          BY <5>1
      <4>2. QED
        BY <1>4, <1>5, <4>1
    <3>3. QED
      BY <1>1, <1>4, <3>1, <3>2
  <2>3. QED
    BY <1>9, <2>1, <2>2 DEF Loaded, Prefix
<1>13. Fillable(r1, q)
  BY <1>9, <1>10, <1>11, <1>12 DEF Fillable
<1>14. FillWritePipeline(r, q) = StartIfNeeded(r1)
  BY DEF FillWritePipeline, r1, new, sent, more, p, u
<1>15. Len(r1.pipeline) = IF ~ r1.enabled THEN 0
                          ELSE IF Len(q) < MaxPendingWrites THEN Len(q) ELSE MaxPendingWrites
  BY <1>4, <1>5, <1>9
<1>16. QED
  BY <1>9, <1>13, <1>14, <1>15, StartIfNeededIsGood DEF d

\* What is left of a sequence without its first.
LEMMA TailParts ==
    ASSUME NEW S, NEW s \in Seq(S), s # <<>>
    PROVE  /\ Head(s) = s[1] /\ Head(s) \in S /\ 1 \in 1..Len(s)
           /\ Tail(s) \in Seq(S) /\ Len(Tail(s)) \in Nat /\ Len(s) = Len(Tail(s)) + 1
           /\ \A i \in 1..Len(Tail(s)) : i + 1 \in 1..Len(s) /\ Tail(s)[i] = s[i + 1]
<1>1. /\ Head(s) \in S /\ Tail(s) \in Seq(S) /\ Len(Tail(s)) = Len(s) - 1
      /\ \A i \in 1..Len(Tail(s)) : Tail(s)[i] = s[i + 1]
  BY HeadTailProperties
<1>2. Len(s) \in Nat /\ Len(s) # 0
  BY EmptySeq, LenProperties
<1>3. Head(s) = s[1]
  OBVIOUS
<1>4. QED
  BY <1>1, <1>2, <1>3

\* A queue without its first batch is in order.
LEMMA TailInOrder ==
    ASSUME NEW q \in Seq(Batch), InOrder(q), q # <<>>
    PROVE  InOrder(Tail(q))
<1>1. \A i \in 1..Len(Tail(q)) : i + 1 \in 1..Len(q) /\ Tail(q)[i] = q[i + 1]
  BY TailParts
<1>2. \A i, j \in 1..Len(Tail(q)) : i < j => i + 1 < j + 1
  BY LenProperties
<1>3. QED
  BY <1>1, <1>2 DEF InOrder

\* Pipeline and queue lose their first together.
LEMMA TailPrefix ==
    ASSUME NEW q \in Seq(Batch), NEW p \in Seq(Batch), Prefix(p, q), p # <<>>
    PROVE  q # <<>> /\ Head(q) = Head(p) /\ Prefix(Tail(p), Tail(q))
<1>1. Len(p) \in Nat /\ Len(q) \in Nat /\ Len(p) # 0 /\ Len(p) <= Len(q)
  BY EmptySeq, LenProperties DEF Prefix
<1>2. q # <<>>
  BY <1>1, EmptySeq
<1>3. /\ Len(Tail(p)) <= Len(Tail(q))
      /\ \A i \in 1..Len(Tail(p)) : i \in 1..Len(Tail(q))
  BY <1>1, <1>2, TailParts
<1>4. \A i \in 1..Len(Tail(p)) : Tail(p)[i] = Tail(q)[i]
  <2>1. \A i \in 1..Len(Tail(p)) : i + 1 \in 1..Len(p) /\ Tail(p)[i] = p[i + 1]
    BY TailParts
  <2>2. \A i \in 1..Len(Tail(q)) : Tail(q)[i] = q[i + 1]
    BY <1>2, TailParts
  <2>3. QED
    BY <1>3, <2>1, <2>2 DEF Prefix
<1>5. Head(q) = Head(p)
  <2>1. Head(q) = q[1] /\ Head(p) = p[1] /\ 1 \in 1..Len(p)
    BY <1>2, TailParts
  <2>2. QED
    BY <2>1 DEF Prefix
<1>6. QED
  BY <1>2, <1>3, <1>4, <1>5 DEF Prefix

\* A closed stream can be filled from any queue its pipeline is a prefix of.
LEMMA ClosedIsFillable ==
    ASSUME NEW q, NEW r \in Net, NEW s \in {"initial", "error"}, Loaded(r, q),
           ~ r.enabled => r.pipeline = <<>>
    PROVE  Fillable(Closed(r, s), q) /\ ~ Started(Closed(r, s))
BY ClosedFields DEF Fillable, Stream, Transit, Loaded, Started

\* Closing and starting again leaves a filled pipeline filled.
LEMMA ReopenedIsGood ==
    ASSUME NEW q, NEW r \in Net, NEW s \in {"initial", "error"}, Loaded(r, q),
           ~ r.enabled => r.pipeline = <<>>,
           Len(r.pipeline) = IF ~ r.enabled THEN 0
                             ELSE IF Len(q) < MaxPendingWrites THEN Len(q) ELSE MaxPendingWrites
    PROVE  /\ Good(StartIfNeeded(Closed(r, s)), q)
           /\ StartIfNeeded(Closed(r, s)).down = <<>>
<1>1. Fillable(Closed(r, s), q)
  BY ClosedIsFillable
<1>2. /\ Closed(r, s).enabled = r.enabled /\ Closed(r, s).pipeline = r.pipeline
      /\ Closed(r, s).down = <<>>
  BY ClosedFields
<1> DEFINE c == Closed(r, s)
<1> HIDE DEF c
<1>3. QED
  BY <1>1, <1>2, StartIfNeededIsGood DEF c

\* Fail, also of a stream that waits for a token.
LEMMA FailIsGood ==
    ASSUME NEW q, NEW r, Good(r, q), NEW A \in SUBSET {"current", "stale"}
    PROVE  /\ Good(Fail([r EXCEPT !.asking = A]), q)
           /\ Fail([r EXCEPT !.asking = A]).down = <<>>
<1> DEFINE r1 == [r EXCEPT !.asking = A]
<1>1. r1 \in Net /\ r1.enabled = r.enabled /\ r1.pipeline = r.pipeline
  BY DEF Good, Fillable, Net
<1> HIDE DEF r1
<1>2. Loaded(r1, q) /\ (~ r1.enabled => r1.pipeline = <<>>)
  BY <1>1 DEF Good, Fillable, Stream, Loaded
<1>3. Len(r1.pipeline) = IF ~ r1.enabled THEN 0
                         ELSE IF Len(q) < MaxPendingWrites THEN Len(q) ELSE MaxPendingWrites
  BY <1>1 DEF Good, Filled
<1>4. Good(StartIfNeeded(Closed(r1, "error")), q) /\ StartIfNeeded(Closed(r1, "error")).down = <<>>
  BY <1>1, <1>2, <1>3, ReopenedIsGood
<1>5. QED
  BY <1>4 DEF Fail, r1

\* Stopping the stream keeps it good and leaves nothing to read.
LEMMA StopIsGood ==
    ASSUME NEW q, NEW r, Good(r, q)
    PROVE  Good(Stop(r), q) /\ Stop(r).down = <<>>
<1>1. r \in Net /\ Loaded(r, q) /\ (~ r.enabled => r.pipeline = <<>>)
  BY DEF Good, Fillable, Stream
<1>2. Len(r.pipeline) = IF ~ r.enabled THEN 0
                        ELSE IF Len(q) < MaxPendingWrites THEN Len(q) ELSE MaxPendingWrites
  BY DEF Good, Filled
<1>3. Good(StartIfNeeded(Closed(r, "initial")), q) /\ StartIfNeeded(Closed(r, "initial")).down = <<>>
  BY <1>1, <1>2, ReopenedIsGood
<1>4. ~ Started(r) => r.down = <<>>
  BY DEF Good, Fillable, Stream, Started
<1>5. QED
  BY <1>3, <1>4 DEF Stop

\* Blame, after the queue has lost the batch that is blamed.
LEMMA BlameIsGood ==
    ASSUME NEW q \in Seq(Batch), InOrder(q), NEW r, Good(r, q), r.pipeline # <<>>
    PROVE  Good(Blame(r, Tail(q)), Tail(q)) /\ Blame(r, Tail(q)).down = <<>>
<1> DEFINE c == Closed(r, "initial")
           r1 == [c EXCEPT !.pipeline = Tail(@)]
           p == r.pipeline
<1>1. r \in Net /\ Loaded(r, q) /\ p \in Seq(Batch) /\ r.enabled
  BY DEF Good, Fillable, Stream, Net
<1>2. /\ c \in Net /\ c.state = "initial" /\ "current" \notin c.asking
      /\ c.enabled = r.enabled /\ c.pipeline = p
      /\ ~ c.handshaken /\ ~ c.idle /\ c.up = <<>> /\ c.down = <<>>
  BY <1>1, ClosedFields
<1> HIDE DEF c, p
<1>3. /\ Tail(p) \in Seq(Batch) /\ Len(Tail(p)) <= MaxPendingWrites
      /\ q # <<>> /\ Prefix(Tail(p), Tail(q)) /\ Tail(q) \in Seq(Batch) /\ InOrder(Tail(q))
  <2>1. p # <<>> /\ Prefix(p, q) /\ Len(p) <= MaxPendingWrites
    BY <1>1 DEF Loaded, p
  <2>2. q # <<>> /\ Prefix(Tail(p), Tail(q))
    BY <1>1, <2>1, TailPrefix
  <2>3. Tail(p) \in Seq(Batch) /\ Len(Tail(p)) \in Nat /\ Len(p) = Len(Tail(p)) + 1
    BY <1>1, <2>1, TailParts
  <2>4. Tail(q) \in Seq(Batch) /\ InOrder(Tail(q))
    BY <2>2, TailParts, TailInOrder
  <2>5. QED
    BY <2>1, <2>2, <2>3, <2>4, PipelineAssumption DEF PipelineAssumption
<1>4. /\ r1 \in Net /\ r1.state = "initial" /\ "current" \notin r1.asking
      /\ r1.enabled /\ r1.pipeline = Tail(p)
      /\ ~ r1.handshaken /\ ~ r1.idle /\ r1.up = <<>> /\ r1.down = <<>>
  BY <1>1, <1>2, <1>3 DEF Net
<1> HIDE DEF r1
<1>5. Fillable(r1, Tail(q))
  BY <1>3, <1>4 DEF Fillable, Stream, Transit, Loaded, Started
<1>6. Good(FillWritePipeline(r1, Tail(q)), Tail(q)) /\ FillWritePipeline(r1, Tail(q)).down = <<>>
  BY <1>3, <1>4, <1>5, FillIsGood
<1>7. QED
  BY <1>6 DEF Blame, r1, c

\* Without a network there is nothing to send, whatever the queue.
LEMMA DisabledIsGood ==
    ASSUME NEW q, NEW r, Good(r, q), NEW q2 \in Seq(Batch)
    PROVE  LET n == DisableNetworkInternal(r) IN
           Good(n, q2) /\ ~ n.enabled /\ n.down = <<>> /\ n.state # "open"
<1> DEFINE r1 == [r EXCEPT !.enabled = FALSE]
           s == Stop(r1)
           n == [s EXCEPT !.pipeline = <<>>]
<1>1. /\ r1 \in Net /\ ~ r1.enabled /\ r1.state = r.state /\ r1.handshaken = r.handshaken
      /\ r1.idle = r.idle /\ r1.asking = r.asking /\ r1.up = r.up /\ r1.down = r.down
      /\ <<>> \in Seq(Batch)
  BY EmptySeq DEF Good, Fillable, Net
<1> HIDE DEF r1
<1>2. /\ s \in Net /\ ~ s.enabled /\ ~ Started(s) /\ "current" \notin s.asking
      /\ ~ s.handshaken /\ ~ s.idle /\ s.up = <<>> /\ s.down = <<>>
  <2>1. CASE Started(r1)
    <3>1. s = Closed(r1, "initial")
      BY <1>1, <2>1, ClosedFields DEF Stop, StartIfNeeded
    <3>2. QED
      BY <1>1, <3>1, ClosedFields DEF Started
  <2>2. CASE ~ Started(r1)
    <3>1. s = r1
      BY <2>2 DEF Stop
    <3>2. Stream(r)
      BY DEF Good, Fillable
    <3>3. QED
      BY <1>1, <2>2, <3>1, <3>2 DEF Stream, Started
  <2>3. QED
    BY <2>1, <2>2
<1> HIDE DEF s
<1>3. /\ n \in Net /\ ~ n.enabled /\ ~ Started(n) /\ "current" \notin n.asking
      /\ ~ n.handshaken /\ ~ n.idle /\ n.up = <<>> /\ n.down = <<>> /\ n.pipeline = <<>>
  BY <1>1, <1>2 DEF Net, Started
<1>4. n = DisableNetworkInternal(r)
  BY DEF DisableNetworkInternal, n, s, r1
<1> HIDE DEF n
<1>5. Len(<<>>) = 0 /\ Len(q2) \in Nat
  BY EmptySeq, LenProperties
<1>6. Good(n, q2) /\ n.state # "open"
  BY <1>3, <1>5, PipelineAssumption
     DEF Good, Fillable, Stream, Transit, Loaded, Prefix, Filled, Started, PipelineAssumption
<1>7. QED
  BY <1>3, <1>4, <1>6

\* Enabling the network fills the pipeline and leaves what is to be read.
LEMMA EnabledIsGood ==
    ASSUME NEW q \in Seq(Batch), InOrder(q), NEW r, Fillable(r, q)
    PROVE  Good(EnableNetwork(r, q), q) /\ EnableNetwork(r, q).down = r.down
<1> DEFINE r1 == [r EXCEPT !.enabled = TRUE]
<1>1. /\ r1 \in Net /\ r1.enabled /\ r1.state = r.state /\ r1.handshaken = r.handshaken
      /\ r1.idle = r.idle /\ r1.asking = r.asking /\ r1.up = r.up /\ r1.down = r.down
      /\ r1.pipeline = r.pipeline
  BY DEF Fillable, Net
<1>2. EnableNetwork(r, q) = FillWritePipeline(r1, q)
  BY DEF EnableNetwork
<1> HIDE DEF r1
<1>3. Fillable(r1, q)
  BY <1>1 DEF Fillable, Stream, Transit, Loaded, Started
<1>4. QED
  BY <1>1, <1>2, <1>3, FillIsGood

\* RestartNetwork, perhaps on another user's queue.
LEMMA RestartedIsGood ==
    ASSUME NEW q, NEW r, Good(r, q), NEW q2 \in Seq(Batch), InOrder(q2)
    PROVE  Good(RestartNetwork(r, q2), q2) /\ RestartNetwork(r, q2).down = <<>>
<1> DEFINE n == DisableNetworkInternal(r)
           r1 == [n EXCEPT !.state = "initial"]
<1>1. Good(n, q2) /\ ~ n.enabled /\ n.down = <<>> /\ n.state # "open"
  BY DisabledIsGood
<1> HIDE DEF n
<1>2. /\ r1 \in Net /\ ~ r1.enabled /\ r1.state = "initial" /\ r1.handshaken = n.handshaken
      /\ r1.idle = n.idle /\ r1.asking = n.asking /\ r1.up = n.up /\ r1.down = n.down
      /\ r1.pipeline = n.pipeline
  BY <1>1 DEF Good, Fillable, Net
<1>3. RestartNetwork(r, q2) = EnableNetwork(r1, q2)
  BY DEF RestartNetwork, n
<1> HIDE DEF r1
<1>4. n.state # "starting"
  BY <1>1 DEF Good, Fillable, Stream, Started
<1>5. Fillable(r1, q2)
  BY <1>1, <1>2, <1>4 DEF Good, Fillable, Stream, Transit, Loaded, Started
<1>6. QED
  BY <1>1, <1>2, <1>3, <1>5, EnabledIsGood

\* The stream of a new process fits every queue it may find on disk.
LEMMA FreshIsFillable ==
    ASSUME NEW q \in Seq(Batch)
    PROVE  Fillable(FreshNet, q) /\ FreshNet.down = <<>>
<1>1. Len(<<>>) = 0 /\ Len(q) \in Nat /\ <<>> \in Seq(Batch) /\ <<>> \in Seq(Message)
  BY EmptySeq, LenProperties
<1>2. QED
  BY <1>1, PipelineAssumption
     DEF FreshNet, Net, Fillable, Stream, Transit, Loaded, Prefix, Started, PipelineAssumption

-----------------------------------------------------------------------------
(* The stream and the server *)

\* WriteMutations lengthens the queue.
LEMMA AppendIsFillable ==
    ASSUME NEW q \in Seq(Batch), InOrder(q), NEW r, Good(r, q), NEW b \in Batch,
           \A i \in 1..Len(q) : q[i].id < b.id /\ q[i].write < b.write
    PROVE  /\ Append(q, b) \in Seq(Batch) /\ InOrder(Append(q, b))
           /\ Fillable(r, Append(q, b))
<1> DEFINE a == Append(q, b)
<1>1. /\ a \in Seq(Batch) /\ Len(a) = Len(q) + 1 /\ Len(q) \in Nat
      /\ \A i \in 1..Len(q) : a[i] = q[i]
      /\ a[Len(q) + 1] = b
  BY AppendProperties, LenProperties
<1> HIDE DEF a
<1>2. InOrder(a)
  <2> SUFFICES ASSUME NEW i \in 1..Len(a), NEW j \in 1..Len(a), i < j
               PROVE  a[i].id < a[j].id /\ a[i].write < a[j].write
    BY DEF InOrder
  <2>1. i \in 1..Len(q) /\ (j \in 1..Len(q) \/ j = Len(q) + 1)
    BY <1>1
  <2>2. QED
    BY <1>1, <2>1 DEF InOrder
<1>3. Len(r.pipeline) \in Nat /\ Prefix(r.pipeline, q)
  BY LenProperties DEF Good, Fillable, Loaded, Net
<1>4. Prefix(r.pipeline, a)
  <2>1. Len(r.pipeline) <= Len(q) /\ Len(r.pipeline) <= Len(a)
    BY <1>1, <1>3 DEF Prefix
  <2>2. \A i \in 1..Len(r.pipeline) : i \in 1..Len(q)
    BY <1>1, <1>3, <2>1
  <2>3. QED
    BY <1>1, <1>3, <2>1, <2>2 DEF Prefix
<1>5. QED
  BY <1>1, <1>2, <1>4 DEF Good, Fillable, Loaded, a

\* An ignored answer of GetToken, the call, the end of a backoff.
LEMMA StreamStartsIsGood ==
    ASSUME NEW q, NEW r, Good(r, q)
    PROVE  /\ Good([r EXCEPT !.asking = @ \ {"stale"}], q)
           /\ "current" \in r.asking =>
                  Good([r EXCEPT !.asking = @ \ {"current"}, !.state = "open",
                                 !.up = <<Handshake>>], q)
           /\ r.state = "backoff" =>
                  /\ Good(Start([r EXCEPT !.state = "initial"]), q)
                  /\ Start([r EXCEPT !.state = "initial"]).down = r.down
<1>1. r \in Net /\ Stream(r)
  BY DEF Good, Fillable
<1>2. <<Handshake>> \in Seq(Message)
  BY DEF Message
<1>3. Good([r EXCEPT !.asking = @ \ {"stale"}], q)
  BY <1>1 DEF Good, Fillable, Filled, Stream, Transit, Loaded, Started, Net
<1>4. ASSUME "current" \in r.asking
      PROVE  Good([r EXCEPT !.asking = @ \ {"current"}, !.state = "open",
                            !.up = <<Handshake>>], q)
  <2> DEFINE n == [r EXCEPT !.asking = @ \ {"current"}, !.state = "open",
                            !.up = <<Handshake>>]
  <2>1. r.state = "starting" /\ r.down = <<>> /\ ~ r.handshaken
    BY <1>1, <1>4 DEF Stream
  <2>2. /\ n \in Net /\ n.enabled = r.enabled /\ n.pipeline = r.pipeline /\ n.state = "open"
        /\ n.handshaken = r.handshaken /\ n.idle = r.idle
        /\ "current" \notin n.asking
        /\ n.up = <<Handshake>> /\ n.down = r.down
    BY <1>1, <1>2 DEF Net
  <2> HIDE DEF n
  <2>3. Started(r) /\ Started(n)
    BY <2>1, <2>2 DEF Started
  <2>4. Stream(n)
    BY <1>1, <2>1, <2>2, <2>3 DEF Stream
  <2>5. QED
    BY <2>1, <2>2, <2>3, <2>4 DEF Good, Fillable, Filled, Transit, Loaded, n
<1>5. ASSUME r.state = "backoff"
      PROVE  /\ Good(Start([r EXCEPT !.state = "initial"]), q)
             /\ Start([r EXCEPT !.state = "initial"]).down = r.down
  <2> DEFINE r1 == [r EXCEPT !.state = "initial"]
             n == Start(r1)
  <2>1. /\ r1 \in Net /\ r1.enabled = r.enabled /\ r1.pipeline = r.pipeline
        /\ r1.state = "initial" /\ r1.handshaken = r.handshaken /\ r1.idle = r.idle
        /\ r1.up = r.up /\ r1.down = r.down
    BY <1>1 DEF Net
  <2> HIDE DEF r1
  <2>2. /\ n \in Net /\ n.enabled = r.enabled /\ n.pipeline = r.pipeline /\ n.state = "starting"
        /\ n.handshaken = r.handshaken /\ n.idle = r.idle /\ n.up = r.up /\ n.down = r.down
    <3>1. n.state = "starting"
      BY <2>1 DEF Start, Net
    <3>2. QED
      BY <2>1, <3>1, StartFields
  <2> HIDE DEF n
  <2>3. Started(r) /\ Started(n)
    BY <1>5, <2>2 DEF Started
  <2>4. Stream(n)
    BY <1>1, <1>5, <2>2, <2>3 DEF Stream
  <2>5. QED
    BY <1>1, <1>5, <2>2, <2>3, <2>4
       DEF Good, Fillable, Filled, Stream, Transit, Loaded, n, r1
<1>6. QED
  BY <1>3, <1>4, <1>5

\* The handshake is the first response, and the pipeline is sent.
LEMMA HandshakeReadIsGood ==
    ASSUME NEW q, NEW r, Good(r, q), r.down # <<>>, ~ r.handshaken
    PROVE  LET n == [r EXCEPT !.handshaken = TRUE, !.down = Tail(@),
                              !.up = @ \o Requests(r.pipeline),
                              !.idle = @ /\ r.pipeline = <<>>]
           IN  Good(n, q) /\ n.down = <<>> /\ r.down = <<Handshake>>
<1> DEFINE p == r.pipeline
           t == Requests(p)
           up == r.up \o t
           n == [r EXCEPT !.handshaken = TRUE, !.down = Tail(@), !.up = up,
                          !.idle = @ /\ p = <<>>]
<1>1. r \in Net /\ Stream(r) /\ Transit(r) /\ p \in Seq(Batch)
  BY DEF Good, Fillable, Net
<1>2. r.state = "open" /\ r.up = <<>> /\ r.down = <<Handshake>> /\ ~ r.idle
  BY <1>1 DEF Stream, Transit
<1>3. /\ t \in Seq(Message) /\ Len(t) = Len(p)
      /\ \A i \in 1..Len(p) : t[i] = Request(p[i])
  <2> HIDE DEF p
  <2>1. QED
    BY <1>1, RequestsFields
<1> HIDE DEF t
<1>4. up = t
  BY <1>2, <1>3, ConcatEmptySeq
<1>5. Tail(r.down) = <<>> /\ Len(<<>>) = 0 /\ <<>> \in Seq(Message)
  BY <1>2, EmptySeq
<1> HIDE DEF up
<1>6. /\ n \in Net /\ n.enabled = r.enabled /\ n.pipeline = p /\ n.state = "open"
      /\ n.handshaken /\ ~ n.idle /\ n.asking = r.asking
      /\ n.up = t /\ n.down = <<>>
  BY <1>1, <1>2, <1>3, <1>4, <1>5 DEF Net
<1> HIDE DEF n
<1>7. Stream(n)
  BY <1>1, <1>2, <1>6 DEF Stream, Started
<1>8. Len(p) \in Nat /\ Len(n.down) = 0 /\ Len(n.up) = Len(p)
  BY <1>1, <1>3, <1>5, <1>6, LenProperties
<1>9. Transit(n)
  <2>1. Len(n.down) + Len(n.up) = Len(n.pipeline)
    BY <1>6, <1>8
  <2>2. \A i \in 1..Len(n.down) : FALSE
    BY <1>8
  <2>3. \A i \in 1..Len(n.up) : Len(n.down) + i = i /\ n.up[i] = Request(n.pipeline[i])
    BY <1>3, <1>6, <1>8
  <2>4. QED
    BY <1>6, <2>1, <2>2, <2>3 DEF Transit
<1>10. Good(n, q)
  BY <1>1, <1>2, <1>6, <1>7, <1>9 DEF Good, Fillable, Filled, Loaded, Started, p
<1>11. QED
  BY <1>2, <1>6, <1>10 DEF n, up, t, p

\* A result is that of the front: pipeline and responses lose their first, and
\* the queue too.
LEMMA ResultReadIsGood ==
    ASSUME NEW q \in Seq(Batch), InOrder(q), NEW r, Good(r, q), r.down # <<>>,
           r.handshaken, Head(r.down).kind = "result"
    PROVE  LET n == [r EXCEPT !.pipeline = Tail(@), !.down = Tail(@)] IN
           /\ Fillable(n, Tail(q)) /\ n.down = Tail(r.down)
           /\ r.pipeline # <<>> /\ Head(r.down) = Result(Head(r.pipeline))
<1> DEFINE p == r.pipeline
           u == r.up
           d == r.down
           n == [r EXCEPT !.pipeline = Tail(@), !.down = Tail(@)]
<1>1. /\ r \in Net /\ Stream(r) /\ p \in Seq(Batch) /\ u \in Seq(Message) /\ d \in Seq(Message)
      /\ Prefix(p, q) /\ Len(p) <= MaxPendingWrites /\ r.state = "open" /\ r.enabled
  BY DEF Good, Fillable, Stream, Started, Loaded, Net
<1>2. /\ Len(d) + Len(u) = Len(p)
      /\ \A i \in 1..Len(d) : d[i] = Result(p[i]) \/ (d[i] = Refusal(p[i]) /\ i = Len(d))
      /\ \A i \in 1..Len(u) : u[i] = Request(p[Len(d) + i])
  BY DEF Good, Fillable, Transit
<1>3. d # <<>> /\ Head(d).kind = "result" /\ Len(p) \in Nat /\ Len(u) \in Nat /\ Len(d) \in Nat
  BY <1>1, LenProperties
<1> HIDE DEF p, u, d
<1>4. /\ Head(d) = d[1] /\ 1 \in 1..Len(d)
      /\ Tail(d) \in Seq(Message) /\ Len(Tail(d)) \in Nat /\ Len(d) = Len(Tail(d)) + 1
      /\ \A i \in 1..Len(Tail(d)) : i + 1 \in 1..Len(d) /\ Tail(d)[i] = d[i + 1]
  BY <1>1, <1>3, TailParts
<1>sums. /\ Len(d) + Len(u) = Len(p) /\ Len(d) = Len(Tail(d)) + 1
         /\ Len(p) \in Nat /\ Len(u) \in Nat /\ Len(d) \in Nat /\ Len(Tail(d)) \in Nat
  BY <1>2, <1>3, <1>4
<1>5. Len(p) # 0
  BY <1>sums
<1>6. /\ p # <<>> /\ Head(p) = p[1]
      /\ Tail(p) \in Seq(Batch) /\ Len(Tail(p)) \in Nat /\ Len(p) = Len(Tail(p)) + 1
      /\ \A i \in 1..Len(Tail(p)) : i + 1 \in 1..Len(p) /\ Tail(p)[i] = p[i + 1]
  <2>1. p # <<>>
    BY <1>5, EmptySeq
  <2>2. QED
    BY <1>1, <2>1, TailParts
<1>7. Head(d) = Result(Head(p))
  <2>1. d[1] = Result(p[1]) \/ d[1] = Refusal(p[1])
    BY <1>2, <1>4
  <2>2. d[1].kind = "result" /\ Head(d) = d[1] /\ Head(p) = p[1]
    BY <1>3, <1>4, <1>6
  <2>3. QED
    BY <2>1, <2>2 DEF Refusal
<1>8. Prefix(Tail(p), Tail(q))
  BY <1>1, <1>6, TailPrefix
<1>9. /\ n \in Net /\ n.enabled = r.enabled /\ n.pipeline = Tail(p) /\ n.state = "open"
      /\ n.handshaken /\ n.idle = r.idle /\ n.asking = r.asking
      /\ n.up = u /\ n.down = Tail(d)
  BY <1>1, <1>4, <1>6 DEF Net, p, u, d
<1> HIDE DEF n
<1>10. Stream(n)
  BY <1>1, <1>6, <1>9 DEF Stream, Started, p
<1>11. Transit(n)
  <2>1. Len(Tail(d)) + Len(u) = Len(Tail(p))
    <3>1. Len(p) = Len(Tail(p)) + 1 /\ Len(Tail(p)) \in Nat
      BY <1>6
    <3>2. QED
      BY <1>sums, <3>1
  <2>2. \A i \in 1..Len(Tail(d)) :
            \/ Tail(d)[i] = Result(Tail(p)[i])
            \/ Tail(d)[i] = Refusal(Tail(p)[i]) /\ i = Len(Tail(d))
    <3> SUFFICES ASSUME NEW i \in 1..Len(Tail(d))
                 PROVE  \/ Tail(d)[i] = Result(Tail(p)[i])
                        \/ Tail(d)[i] = Refusal(Tail(p)[i]) /\ i = Len(Tail(d))
      OBVIOUS
    <3>1. i \in 1..Len(Tail(p)) /\ i + 1 \in 1..Len(d)
      BY <1>3, <1>4, <1>6, <2>1
    <3>2. i + 1 = Len(d) => i = Len(Tail(d))
      BY <1>sums
    <3>3. Tail(d)[i] = d[i + 1] /\ Tail(p)[i] = p[i + 1]
      BY <1>4, <1>6, <3>1
    <3>4. QED
      BY <1>2, <3>1, <3>2, <3>3
  <2>3. \A i \in 1..Len(u) : u[i] = Request(Tail(p)[Len(Tail(d)) + i])
    <3> SUFFICES ASSUME NEW i \in 1..Len(u) PROVE u[i] = Request(Tail(p)[Len(Tail(d)) + i])
      OBVIOUS
    <3>1. Len(Tail(d)) + i \in 1..Len(Tail(p)) /\ (Len(Tail(d)) + i) + 1 = Len(d) + i
      BY <1>3, <1>4, <1>6, <2>1
    <3>2. Tail(p)[Len(Tail(d)) + i] = p[Len(d) + i]
      BY <1>6, <3>1
    <3>3. QED
      BY <1>2, <3>2
  <2>4. QED
    BY <1>9, <2>1, <2>2, <2>3 DEF Transit
<1>12. Len(Tail(p)) <= MaxPendingWrites
  BY <1>1, <1>6, PipelineAssumption DEF PipelineAssumption
<1>13. Fillable(n, Tail(q))
  BY <1>8, <1>9, <1>10, <1>11, <1>12 DEF Fillable, Loaded
<1>14. QED
  BY <1>6, <1>7, <1>9, <1>13 DEF n, p, d

\* The server's answer to the handshake.
LEMMA ShakenIsGood ==
    ASSUME NEW q, NEW r, Good(r, q), r.up # <<>>, Head(r.up) = Handshake
    PROVE  LET n == [r EXCEPT !.up = Tail(@), !.down = Append(@, Handshake)] IN
           Good(n, q) /\ r.down = <<>> /\ n.down = <<Handshake>>
<1> DEFINE n == [r EXCEPT !.up = Tail(@), !.down = Append(@, Handshake)]
<1>1. r \in Net /\ Stream(r) /\ Transit(r) /\ r.state = "open"
  BY DEF Good, Fillable, Stream
<1>2. ~ r.handshaken
  <2> SUFFICES ASSUME r.handshaken PROVE FALSE
    OBVIOUS
  <2>1. Head(r.up) = r.up[1] /\ 1 \in 1..Len(r.up)
    BY <1>1, TailParts DEF Net
  <2>2. r.up[1] = Request(r.pipeline[Len(r.down) + 1])
    BY <1>1, <2>1 DEF Transit
  <2>3. QED
    BY <2>1, <2>2 DEF Request, Handshake
<1>3. r.up = <<Handshake>> /\ r.down = <<>>
  BY <1>1, <1>2 DEF Transit
<1>4. /\ Tail(r.up) = <<>> /\ Append(r.down, Handshake) = <<Handshake>>
      /\ <<>> \in Seq(Message) /\ <<Handshake>> \in Seq(Message)
  BY <1>3 DEF Message
<1>5. /\ n \in Net /\ n.enabled = r.enabled /\ n.pipeline = r.pipeline /\ n.state = r.state
      /\ n.handshaken = r.handshaken /\ n.idle = r.idle /\ n.asking = r.asking
      /\ n.up = <<>> /\ n.down = <<Handshake>>
  BY <1>1, <1>4 DEF Net
<1> HIDE DEF n
<1>6. Good(n, q)
  BY <1>1, <1>2, <1>5 DEF Good, Fillable, Filled, Stream, Transit, Loaded, Started
<1>7. QED
  BY <1>3, <1>5, <1>6 DEF n

\* The server's answer to a write: the next of the pipeline, in its order.
LEMMA AnsweredIsGood ==
    ASSUME NEW q, NEW r, Good(r, q), r.up # <<>>, ~ Ended(r), Head(r.up).kind = "write",
           NEW m \in {Result(Head(r.up).batch), Refusal(Head(r.up).batch)}
    PROVE  LET n == [r EXCEPT !.up = Tail(@), !.down = Append(@, m)] IN
           /\ Good(n, q) /\ n.down = Append(r.down, m)
           /\ Len(r.down) \in Nat /\ Len(r.down) + 1 \in 1..Len(r.pipeline)
           /\ Head(r.up).batch = r.pipeline[Len(r.down) + 1]
           /\ \A i \in 1..Len(r.down) : r.down[i] = Result(r.pipeline[i])
<1> DEFINE p == r.pipeline
           u == r.up
           d == r.down
           a == Append(d, m)
           n == [r EXCEPT !.up = Tail(@), !.down = a]
<1>1. /\ r \in Net /\ Stream(r) /\ Transit(r) /\ r.state = "open"
      /\ p \in Seq(Batch) /\ u \in Seq(Message) /\ d \in Seq(Message)
  BY DEF Good, Fillable, Stream, Net
<1>2. r.handshaken
  <2> SUFFICES ASSUME ~ r.handshaken PROVE FALSE
    OBVIOUS
  <2>1. r.up = <<Handshake>>
    BY <1>1 DEF Transit
  <2>2. QED
    BY <2>1 DEF Handshake
<1>3. /\ Len(d) + Len(u) = Len(p)
      /\ \A i \in 1..Len(d) : d[i] = Result(p[i]) \/ (d[i] = Refusal(p[i]) /\ i = Len(d))
      /\ \A i \in 1..Len(u) : u[i] = Request(p[Len(d) + i])
  BY <1>1, <1>2 DEF Transit
<1>4. \A i \in 1..Len(d) : d[i].kind # "refusal"
  BY <1>1, LenProperties DEF Ended
<1>5. u # <<>> /\ Len(p) \in Nat /\ Len(u) \in Nat /\ Len(d) \in Nat
  BY <1>1, LenProperties
<1> HIDE DEF p, u, d
<1>6. \A i \in 1..Len(d) : d[i] = Result(p[i])
  <2> SUFFICES ASSUME NEW i \in 1..Len(d) PROVE d[i] = Result(p[i])
    OBVIOUS
  <2>1. d[i] = Result(p[i]) \/ d[i] = Refusal(p[i])
    BY <1>3
  <2>2. d[i].kind # "refusal"
    BY <1>4
  <2>3. QED
    BY <2>1, <2>2 DEF Refusal
<1>7. /\ Head(u) = u[1] /\ 1 \in 1..Len(u)
      /\ Tail(u) \in Seq(Message) /\ Len(Tail(u)) \in Nat /\ Len(u) = Len(Tail(u)) + 1
      /\ \A i \in 1..Len(Tail(u)) : i + 1 \in 1..Len(u) /\ Tail(u)[i] = u[i + 1]
  BY <1>1, <1>5, TailParts
<1>8. Len(d) + 1 \in 1..Len(p)
  BY <1>3, <1>5, <1>7
<1>9. Head(u).batch = p[Len(d) + 1] /\ p[Len(d) + 1] \in Batch
  BY <1>1, <1>3, <1>7, <1>8, ElementOfSeq DEF Request
<1>10. m \in {Result(p[Len(d) + 1]), Refusal(p[Len(d) + 1])} /\ m \in Message
  BY <1>9 DEF Result, Refusal, Message, u
<1>11. /\ a \in Seq(Message) /\ Len(a) = Len(d) + 1
       /\ \A i \in 1..Len(d) : a[i] = d[i]
       /\ a[Len(d) + 1] = m
  BY <1>1, <1>10, AppendProperties
<1> HIDE DEF a
<1>12. /\ n \in Net /\ n.enabled = r.enabled /\ n.pipeline = p /\ n.state = r.state
       /\ n.handshaken /\ n.idle = r.idle /\ n.asking = r.asking
       /\ n.up = Tail(u) /\ n.down = a
  BY <1>1, <1>2, <1>7, <1>11 DEF Net, p, u, d
<1> HIDE DEF n
<1>13. Transit(n)
  <2>1. Len(a) + Len(Tail(u)) = Len(p)
    BY <1>3, <1>5, <1>7, <1>11
  <2>2. \A i \in 1..Len(a) : a[i] = Result(p[i]) \/ (a[i] = Refusal(p[i]) /\ i = Len(a))
    <3> SUFFICES ASSUME NEW i \in 1..Len(a)
                 PROVE  a[i] = Result(p[i]) \/ (a[i] = Refusal(p[i]) /\ i = Len(a))
      OBVIOUS
    <3>1. i \in 1..Len(d) \/ i = Len(d) + 1
      BY <1>5, <1>11
    <3>2. QED
      BY <1>6, <1>10, <1>11, <3>1
  <2>3. \A i \in 1..Len(Tail(u)) : Tail(u)[i] = Request(p[Len(a) + i])
    <3> SUFFICES ASSUME NEW i \in 1..Len(Tail(u)) PROVE Tail(u)[i] = Request(p[Len(a) + i])
      OBVIOUS
    <3>1. Len(a) + i = Len(d) + (i + 1)
      BY <1>5, <1>11
    <3>2. QED
      BY <1>3, <1>7, <3>1
  <2>4. QED
    BY <1>12, <2>1, <2>2, <2>3 DEF Transit
<1>14. Good(n, q)
  BY <1>1, <1>2, <1>12, <1>13 DEF Good, Fillable, Filled, Stream, Loaded, Started, p
<1>15. QED
  BY <1>5, <1>6, <1>8, <1>9, <1>12, <1>14 DEF n, a, p, u, d

-----------------------------------------------------------------------------
(* The results that are on their way *)

\* A result in flight is a message of the stream.
LEMMA InResults ==
    ASSUME NEW r \in Net
    PROVE  /\ Results(r) \subseteq 1..MaxWrites
           /\ \A w : w \in Results(r) <=>
                  \E i \in 1..Len(r.down) : r.down[i].kind = "result" /\ r.down[i].batch.write = w
<1>1. r.down \in Seq(Message) /\ DOMAIN r.down = 1..Len(r.down)
  BY LenProperties DEF Net
<1>2. \A w : w \in Results(r) <=>
          \E i \in 1..Len(r.down) : r.down[i].kind = "result" /\ r.down[i].batch.write = w
  BY <1>1 DEF Results
<1>3. \A i \in 1..Len(r.down) : r.down[i] \in Message
  BY <1>1, ElementOfSeq
<1>4. \A i \in 1..Len(r.down) : r.down[i].kind = "result" => r.down[i].batch \in Batch
  BY <1>3 DEF Message, Handshake
<1>5. Results(r) \subseteq 1..MaxWrites
  BY <1>2, <1>4 DEF Batch
<1>6. QED
  BY <1>2, <1>5

\* A stream that brings nothing, or the handshake only, brings no result.
LEMMA NoResults ==
    ASSUME NEW r \in Net, r.down = <<>> \/ r.down = <<Handshake>>
    PROVE  Results(r) = {}
<1>1. CASE r.down = <<>>
  <2>1. Len(r.down) = 0
    BY <1>1, EmptySeq
  <2>2. QED
    BY <2>1, InResults
<1>2. CASE r.down = <<Handshake>>
  <2>1. Len(r.down) = 1 /\ r.down[1] = Handshake
    BY <1>2
  <2>2. \A i \in 1..Len(r.down) : r.down[i].kind # "result"
    BY <2>1 DEF Handshake
  <2>3. QED
    BY <2>2, InResults
<1>3. QED
  BY <1>1, <1>2

\* Reading a message takes at most its own result from the stream.
LEMMA ResultsOfTail ==
    ASSUME NEW r \in Net, NEW n \in Net, r.down # <<>>, n.down = Tail(r.down)
    PROVE  /\ Results(n) \subseteq Results(r)
           /\ Results(r) \subseteq Results(n) \cup {Head(r.down).batch.write}
<1>1. /\ Head(r.down) = r.down[1] /\ 1 \in 1..Len(r.down) /\ Len(n.down) \in Nat
      /\ Len(r.down) = Len(n.down) + 1
      /\ \A i \in 1..Len(n.down) : i + 1 \in 1..Len(r.down) /\ n.down[i] = r.down[i + 1]
  BY TailParts DEF Net
<1> DEFINE At(d, w) == \E i \in 1..Len(d) : d[i].kind = "result" /\ d[i].batch.write = w
<1>of. \A w : (w \in Results(r) <=> At(r.down, w)) /\ (w \in Results(n) <=> At(n.down, w))
  BY InResults
<1>2. \A i \in 1..Len(r.down) : i = 1 \/ (i - 1 \in 1..Len(n.down) /\ (i - 1) + 1 = i)
  BY <1>1
<1>3. \A w \in Results(n) : w \in Results(r)
  <2> SUFFICES ASSUME NEW w \in Results(n) PROVE w \in Results(r)
    OBVIOUS
  <2>1. PICK i \in 1..Len(n.down) : n.down[i].kind = "result" /\ n.down[i].batch.write = w
    BY <1>of
  <2>2. i + 1 \in 1..Len(r.down) /\ r.down[i + 1] = n.down[i]
    BY <1>1
  <2>3. QED
    BY <1>of, <2>1, <2>2
<1>4. \A w \in Results(r) : w \in Results(n) \/ w = Head(r.down).batch.write
  <2> SUFFICES ASSUME NEW w \in Results(r) PROVE w \in Results(n) \/ w = Head(r.down).batch.write
    OBVIOUS
  <2>1. PICK i \in 1..Len(r.down) : r.down[i].kind = "result" /\ r.down[i].batch.write = w
    BY InResults
  <2>2. CASE i = 1
    BY <1>1, <2>1, <2>2
  <2>3. CASE i - 1 \in 1..Len(n.down) /\ (i - 1) + 1 = i
    <3>1. n.down[i - 1] = r.down[i]
      BY <1>1, <2>3
    <3>2. QED
      BY <1>of, <2>1, <2>3, <3>1
  <2>4. QED
    BY <1>2, <2>2, <2>3
<1>5. QED
  BY <1>3, <1>4

\* A response adds its result to the stream.
LEMMA ResultsOfAppend ==
    ASSUME NEW r \in Net, NEW n \in Net, NEW m \in Message, n.down = Append(r.down, m)
    PROVE  Results(n) = IF m.kind = "result" THEN Results(r) \cup {m.batch.write} ELSE Results(r)
<1>1. /\ Len(r.down) \in Nat /\ Len(n.down) = Len(r.down) + 1
      /\ \A i \in 1..Len(r.down) : n.down[i] = r.down[i]
      /\ n.down[Len(r.down) + 1] = m
  BY AppendProperties, LenProperties DEF Net
<1>2. /\ \A i \in 1..Len(n.down) : i \in 1..Len(r.down) \/ i = Len(r.down) + 1
      /\ \A i \in 1..Len(r.down) : i \in 1..Len(n.down)
      /\ Len(r.down) + 1 \in 1..Len(n.down)
  BY <1>1
<1> DEFINE At(d, w) == \E i \in 1..Len(d) : d[i].kind = "result" /\ d[i].batch.write = w
<1>of. \A w : (w \in Results(r) <=> At(r.down, w)) /\ (w \in Results(n) <=> At(n.down, w))
  BY InResults
<1>3. \A w : w \in Results(n) <=> w \in Results(r) \/ (m.kind = "result" /\ m.batch.write = w)
  <2>1. \A w : At(n.down, w) <=> At(r.down, w) \/ (m.kind = "result" /\ m.batch.write = w)
    BY <1>1, <1>2
  <2>2. QED
    BY <1>of, <2>1
<1>4. QED
  BY <1>3

-----------------------------------------------------------------------------
(* The first state, and a step that moves no write *)

\* The invariant holds of a fresh client.
LEMMA InitIsSound == Init => IInv
<1> SUFFICES ASSUME Init PROVE IInv
  OBVIOUS
<1>1. /\ user \in User /\ queue = [u \in User |-> <<>>] /\ nextId = 1
      /\ callbacks = [u \in User |-> {}] /\ net = EnableNetwork(FreshNet, <<>>)
      /\ applied = {} /\ issued = <<>> /\ told = [w \in 1..MaxWrites |-> "no"]
      /\ unheard = {} /\ cut = {} /\ faults = 0
  BY DEF Init
<1>2. <<>> \in Seq(Batch) /\ <<>> \in Seq(User) /\ Len(<<>>) = 0 /\ InOrder(<<>>)
  <2>1. <<>> \in Seq(Batch) /\ <<>> \in Seq(User) /\ Len(<<>>) = 0
    BY EmptySeq
  <2>2. QED
    BY <2>1 DEF InOrder
<1>3. Good(net, queue[user]) /\ net.down = <<>>
  BY <1>1, <1>2, FreshIsFillable, EnabledIsGood
<1>4. net \in Net /\ Results(net) = {}
  BY <1>3, NoResults DEF Good, Fillable
<1>5. TypeOK
  BY <1>1, <1>2, <1>4, PipelineAssumption DEF TypeOK, PipelineAssumption
<1>6. Disk /\ Unmade
  BY <1>1, <1>2, PipelineAssumption DEF Disk, Unmade, PipelineAssumption
<1>7. Knowledge /\ Answers /\ FailureHasCause
  BY <1>1, <1>2, <1>4 DEF Knowledge, Answers, FailureHasCause
<1>8. QED
  BY <1>3, <1>5, <1>6, <1>7 DEF IInv, Ledger

\* A step that touches neither the queues nor what is known of the writes.
LEMMA QuietKeepsInv ==
    ASSUME IInv, UNCHANGED <<queue, applied, issued, told, cut>>,
           user' \in User, faults' \in 0..MaxFaults,
           callbacks' \in [User -> SUBSET Batch],
           \A u \in User : callbacks'[u] \subseteq callbacks[u],
           nextId' \in Nat \ {0},
           \A u \in User : \A i \in 1..Len(queue[u]) : queue[u][i].id < nextId',
           unheard' \in {unheard, unheard \cup Results(net)},
           Good(net', queue[user']),
           Results(net') \subseteq Results(net),
           Results(net) \subseteq unheard' \cup Results(net')
    PROVE  IInv'
<1>1. TypeOK /\ Ledger /\ net \in Net /\ net' \in Net
  BY DEF IInv, Good, Fillable
<1>2. TypeOK'
  <2>1. unheard' \in SUBSET (1..MaxWrites)
    BY <1>1, InResults DEF TypeOK
  <2>2. QED
    BY <1>1, <2>1 DEF TypeOK
<1>3. Disk' /\ Unmade'
  BY <1>1 DEF Ledger, Disk, Unmade
<1>4. Knowledge'
  BY <1>1 DEF Ledger, Knowledge, Unsettled
<1>5. Answers' /\ FailureHasCause'
  BY <1>1 DEF Ledger, Answers, FailureHasCause
<1>6. QED
  BY <1>2, <1>3, <1>4, <1>5 DEF IInv, Ledger

\* What the steps below use of the invariant.
LEMMA InvParts ==
    ASSUME IInv
    PROVE  /\ TypeOK /\ Good(net, queue[user]) /\ net \in Net /\ user \in User
           /\ faults \in 0..MaxFaults /\ nextId \in Nat \ {0}
           /\ callbacks \in [User -> SUBSET Batch]
           /\ \A u \in User : queue[u] \in Seq(Batch) /\ InOrder(queue[u]) /\ Len(queue[u]) \in Nat
           /\ \A u \in User : \A i \in 1..Len(queue[u]) : queue[u][i].id < nextId
<1>1. TypeOK /\ Good(net, queue[user]) /\ Disk
  BY DEF IInv, Ledger
<1>2. \A u \in User : queue[u] \in Seq(Batch) /\ Len(queue[u]) \in Nat
  BY <1>1, LenProperties DEF TypeOK
<1>3. QED
  BY <1>1, <1>2 DEF TypeOK, Disk

\* The stream and the server: the disk, the app and the user are not concerned.
LEMMA StreamStepKeepsInv ==
    ASSUME IInv,
           \/ StaleTokenAnswered \/ TokenAnswered \/ NoTokenAnswered \/ HandshakeRead
           \/ BackoffElapsed \/ ServerShakesHands \/ ServerRefuses
    PROVE  IInv'
<1> DEFINE q == queue[user]
<1>1. Good(net, q) /\ net \in Net
  BY InvParts
<1>2. /\ UNCHANGED <<user, queue, nextId, callbacks, applied, history>>
      /\ faults' \in 0..MaxFaults
  BY InvParts, PipelineAssumption
     DEF StaleTokenAnswered, TokenAnswered, NoTokenAnswered, HandshakeRead, BackoffElapsed,
         ServerShakesHands, ServerRefuses, Mishap, PipelineAssumption
<1>3. Good(net', q) /\ Results(net') = Results(net)
  <2>1. CASE StaleTokenAnswered
    <3>1. Good(net', q)
      BY <1>1, <2>1, StreamStartsIsGood DEF StaleTokenAnswered
    <3>2. net'.down = net.down
      BY <1>1, <2>1 DEF StaleTokenAnswered, Net
    <3>3. QED
      BY <3>1, <3>2 DEF Results
  <2>2. CASE TokenAnswered
    <3>1. Good(net', q)
      BY <1>1, <2>2, StreamStartsIsGood DEF TokenAnswered
    <3>2. net'.down = net.down
      BY <1>1, <2>2 DEF TokenAnswered, Net
    <3>3. QED
      BY <3>1, <3>2 DEF Results
  <2>3. CASE NoTokenAnswered
    <3> DEFINE A == net.asking \ {"current"}
    <3>0. A \in SUBSET {"current", "stale"} /\ net' = Fail([net EXCEPT !.asking = A])
      BY <1>1, <2>3 DEF NoTokenAnswered, Net
    <3> HIDE DEF A
    <3>1. Good(net', q) /\ net'.down = <<>>
      BY <1>1, <3>0, FailIsGood
    <3>2. net.down = <<>>
      BY <1>1, <2>3 DEF NoTokenAnswered, Good, Fillable, Stream
    <3>3. QED
      BY <3>1, <3>2 DEF Results
  <2>4. CASE HandshakeRead
    <3>1. Good(net', q) /\ net'.down = <<>> /\ net.down = <<Handshake>>
      BY <1>1, <2>4, HandshakeReadIsGood DEF HandshakeRead
    <3>2. QED
      BY <1>1, <3>1, NoResults DEF Good, Fillable
  <2>5. CASE BackoffElapsed
    <3>1. Good(net', q)
      BY <1>1, <2>5, StreamStartsIsGood DEF BackoffElapsed
    <3>2. net'.down = net.down
      BY <1>1, <2>5, StreamStartsIsGood DEF BackoffElapsed, Net
    <3>3. QED
      BY <3>1, <3>2 DEF Results
  <2>6. CASE ServerShakesHands
    <3>1. Good(net', q) /\ net'.down = <<Handshake>> /\ net.down = <<>>
      BY <1>1, <2>6, ShakenIsGood DEF ServerShakesHands
    <3>2. QED
      BY <1>1, <3>1, NoResults DEF Good, Fillable
  <2>7. CASE ServerRefuses
    <3> DEFINE b == Head(net.up).batch
    <3>1. /\ Good(net', q) /\ net'.down = Append(net.down, Refusal(b))
          /\ b = net.pipeline[Len(net.down) + 1] /\ Len(net.down) + 1 \in 1..Len(net.pipeline)
      BY <1>1, <2>7, AnsweredIsGood DEF ServerRefuses
    <3>2. net.pipeline[Len(net.down) + 1] \in Batch
      BY <1>1, <3>1, ElementOfSeq DEF Net
    <3>3. Refusal(b) \in Message /\ Refusal(b).kind # "result"
      BY <3>1, <3>2 DEF Refusal, Message
    <3> HIDE DEF b
    <3>4. QED
      BY <1>1, <3>1, <3>3, ResultsOfAppend DEF Good, Fillable
  <2>8. QED
    BY <2>1, <2>2, <2>3, <2>4, <2>5, <2>6, <2>7
<1>4. QED
  <2>1. UNCHANGED <<queue, applied, issued, told, cut>> /\ unheard' = unheard
    BY <1>2 DEF history
  <2>2. Good(net', queue[user'])
    BY <1>2, <1>3
  <2>3. /\ user' \in User /\ nextId' \in Nat \ {0} /\ callbacks' \in [User -> SUBSET Batch]
        /\ \A u \in User : callbacks'[u] \subseteq callbacks[u]
        /\ \A u \in User : \A i \in 1..Len(queue[u]) : queue[u][i].id < nextId'
    BY <1>2, InvParts
  <2>4. QED
    BY <1>2, <1>3, <2>1, <2>2, <2>3, QuietKeepsInv

\* A step that ends the call, or leaves it alone.
LEMMA CallStepKeepsInv ==
    ASSUME IInv,
           \/ CallFailed \/ IdleTimeout \/ ConnectivityChanged \/ DisableNetwork
           \/ EnableNetworkAgain \/ ServerEndsCall
    PROVE  IInv'
<1> DEFINE q == queue[user]
<1>1. Good(net, q) /\ net \in Net /\ q \in Seq(Batch) /\ InOrder(q)
  BY InvParts
<1>2. /\ UNCHANGED <<user, queue, nextId, callbacks, applied, issued, told, cut>>
      /\ faults' \in 0..MaxFaults
  BY InvParts, PipelineAssumption
     DEF CallFailed, IdleTimeout, ConnectivityChanged, DisableNetwork, EnableNetworkAgain,
         ServerEndsCall, Mishap, PipelineAssumption, history
<1>3. /\ Good(net', q)
      /\ \/ net'.down = <<>> /\ unheard' = unheard \cup Results(net)
         \/ net'.down = net.down /\ unheard' = unheard
  <2>1. CASE CallFailed
    <3>1. net = [net EXCEPT !.asking = net.asking]
      BY <1>1 DEF Net
    <3>2. net.asking \in SUBSET {"current", "stale"}
      BY <1>1 DEF Net
    <3>3. Good(Fail(net), q) /\ Fail(net).down = <<>>
      BY <1>1, <3>1, <3>2, FailIsGood
    <3>4. QED
      BY <2>1, <3>3 DEF CallFailed
  <2>2. CASE IdleTimeout
    BY <1>1, <2>2, StopIsGood DEF IdleTimeout
  <2>3. CASE ConnectivityChanged
    BY <1>1, <2>3, RestartedIsGood DEF ConnectivityChanged, NewNet
  <2>4. CASE DisableNetwork
    BY <1>1, <2>4, DisabledIsGood DEF DisableNetwork, NewNet
  <2>5. CASE EnableNetworkAgain
    BY <1>1, <2>5, EnabledIsGood DEF EnableNetworkAgain, history, Good
  <2>6. CASE ServerEndsCall
    BY <1>1, <2>6, StopIsGood DEF ServerEndsCall, NewNet
  <2>7. QED
    BY <2>1, <2>2, <2>3, <2>4, <2>5, <2>6
<1>4. /\ Results(net') \subseteq Results(net)
      /\ Results(net) \subseteq unheard' \cup Results(net')
      /\ unheard' \in {unheard, unheard \cup Results(net)}
  <2>1. CASE net'.down = <<>> /\ unheard' = unheard \cup Results(net)
    BY <1>3, <2>1, NoResults DEF Good, Fillable
  <2>2. CASE net'.down = net.down /\ unheard' = unheard
    BY <2>2 DEF Results
  <2>3. QED
    BY <1>3, <2>1, <2>2
<1>5. QED
  <2>1. Good(net', queue[user'])
    BY <1>2, <1>3
  <2>2. /\ user' \in User /\ nextId' \in Nat \ {0} /\ callbacks' \in [User -> SUBSET Batch]
        /\ \A u \in User : callbacks'[u] \subseteq callbacks[u]
        /\ \A u \in User : \A i \in 1..Len(queue[u]) : queue[u][i].id < nextId'
    BY <1>2, InvParts
  <2>3. QED
    BY <1>2, <1>4, <2>1, <2>2, QuietKeepsInv

\* The id that an opened queue gives out next is above all that are on disk.
LEMMA OpenQueueIsAbove ==
    ASSUME IInv, NEW q \in [User -> Seq(Batch)], OpenQueue(q)
    PROVE  /\ nextId' \in Nat \ {0}
           /\ \A u \in User : \A i \in 1..Len(q[u]) : q[u][i].id < nextId'
<1>1. PICK n \in 1..(Len(issued) + 1) : NextBatchId(n, q) /\ nextId' = n
  BY DEF OpenQueue
<1>2. Len(issued) \in Nat
  BY InvParts, LenProperties DEF TypeOK
<1>3. nextId' \in Nat \ {0}
  BY <1>1, <1>2
<1>4. ASSUME NEW u \in User, NEW i \in 1..Len(q[u])
      PROVE  q[u][i].id < nextId'
  <2>1. i \in DOMAIN q[u]
    BY LenProperties
  <2>2. QED
    BY <1>1, <2>1 DEF NextBatchId
<1>5. QED
  BY <1>3, <1>4

\* A change of user stops the stream and turns to the queue of the other user.
LEMMA CredentialStepKeepsInv ==
    ASSUME IInv, NEW v \in User, HandleCredentialChange(v)
    PROVE  IInv'
<1>1. Good(net, queue[user]) /\ net \in Net /\ queue[v] \in Seq(Batch) /\ InOrder(queue[v])
  BY InvParts
<1>2. /\ UNCHANGED <<queue, callbacks, applied, issued, told, cut>> /\ user' = v
      /\ faults' \in 0..MaxFaults /\ unheard' = unheard \cup Results(net)
      /\ net' = IF net.enabled THEN RestartNetwork(net, queue[v]) ELSE net
  BY InvParts, PipelineAssumption DEF HandleCredentialChange, Mishap, NewNet, PipelineAssumption
<1>3. /\ nextId' \in Nat \ {0}
      /\ \A u \in User : \A i \in 1..Len(queue[u]) : queue[u][i].id < nextId'
  <2>1. CASE v = user
    BY <2>1, InvParts DEF HandleCredentialChange
  <2>2. CASE v # user
    <3>1. OpenQueue(queue) /\ queue \in [User -> Seq(Batch)]
      BY <2>2, InvParts DEF HandleCredentialChange, TypeOK
    <3>2. QED
      BY <3>1, OpenQueueIsAbove
  <2>3. QED
    BY <2>1, <2>2
<1>4. Good(net', queue[v]) /\ Results(net') \subseteq Results(net)
  <2>1. CASE net.enabled
    <3>1. Good(net', queue[v]) /\ net'.down = <<>>
      BY <1>1, <1>2, <2>1, RestartedIsGood
    <3>2. QED
      BY <3>1, NoResults DEF Good, Fillable
  <2>2. CASE ~ net.enabled
    <3>1. net' = net /\ net.pipeline = <<>>
      BY <1>1, <1>2, <2>2 DEF Good, Fillable, Stream
    <3>2. Len(<<>>) = 0 /\ Len(queue[v]) \in Nat
      BY EmptySeq, InvParts
    <3>3. Good(net, queue[v])
      BY <1>1, <2>2, <3>1, <3>2 DEF Good, Fillable, Loaded, Prefix, Filled
    <3>4. QED
      BY <3>1, <3>3
  <2>3. QED
    BY <2>1, <2>2
<1>5. QED
  <2>1. Good(net', queue[user']) /\ user' \in User
    BY <1>2, <1>4
  <2>2. /\ callbacks' \in [User -> SUBSET Batch]
        /\ \A u \in User : callbacks'[u] \subseteq callbacks[u]
    BY <1>2, InvParts
  <2>3. Results(net) \subseteq unheard' \cup Results(net')
    BY <1>2
  <2>4. QED
    BY <1>2, <1>3, <1>4, <2>1, <2>2, <2>3, QuietKeepsInv

\* What a process makes that starts anew on the queues it finds on disk.
LEMMA RestartParts ==
    ASSUME IInv, Restarts, queue' \in [User -> Seq(Batch)], InOrder(queue'[user])
    PROVE  /\ UNCHANGED <<user, applied, issued>>
           /\ faults' \in 0..MaxFaults /\ unheard' = unheard \cup Results(net)
           /\ callbacks' = [u \in User |-> {}]
           /\ nextId' \in Nat \ {0}
           /\ \A u \in User : \A i \in 1..Len(queue'[u]) : queue'[u][i].id < nextId'
           /\ Good(net', queue'[user]) /\ Results(net') = {}
<1>1. /\ UNCHANGED <<user, applied, issued>>
      /\ faults' \in 0..MaxFaults /\ unheard' = unheard \cup Results(net)
      /\ callbacks' = [u \in User |-> {}]
      /\ net' = EnableNetwork(FreshNet, queue'[user]) /\ OpenQueue(queue')
  BY InvParts, PipelineAssumption DEF Restarts, Mishap, NewNet, PipelineAssumption
<1>2. queue'[user] \in Seq(Batch)
  BY InvParts
<1>3. Good(net', queue'[user]) /\ net'.down = <<>>
  BY <1>1, <1>2, FreshIsFillable, EnabledIsGood
<1>4. Results(net') = {}
  BY <1>3, NoResults DEF Good, Fillable
<1>5. QED
  BY <1>1, <1>3, <1>4, OpenQueueIsAbove

\* A relaunch finds the queues on disk, and no callback.
LEMMA RelaunchKeepsInv ==
    ASSUME IInv, Relaunch
    PROVE  IInv'
<1>1. Restarts /\ UNCHANGED <<queue, told, cut>>
  BY DEF Relaunch
<1>2. queue' \in [User -> Seq(Batch)] /\ InOrder(queue'[user])
  BY <1>1, InvParts DEF TypeOK
<1>3. Good(net', queue[user']) /\ user' \in User
  BY <1>1, <1>2, RestartParts, InvParts
<1>4. /\ callbacks' \in [User -> SUBSET Batch]
      /\ \A u \in User : callbacks'[u] \subseteq callbacks[u]
  BY <1>1, <1>2, RestartParts
<1>5. /\ UNCHANGED <<queue, applied, issued, told, cut>> /\ faults' \in 0..MaxFaults
      /\ unheard' = unheard \cup Results(net) /\ Results(net') = {}
      /\ nextId' \in Nat \ {0}
      /\ \A u \in User : \A i \in 1..Len(queue[u]) : queue[u][i].id < nextId'
  BY <1>1, <1>2, RestartParts
<1>6. QED
  BY <1>3, <1>4, <1>5, QuietKeepsInv

-----------------------------------------------------------------------------
(* The steps that move a write *)

\* No write is on disk twice, and its user is the one who made it.
LEMMA PlaceIsOwn ==
    ASSUME IInv, NEW u \in User, NEW i \in 1..Len(queue[u]),
           NEW v \in User, NEW j \in 1..Len(queue[v]),
           \/ queue[u][i].write = queue[v][j].write
           \/ u = v /\ queue[u][i].id = queue[v][j].id
    PROVE  u = v /\ i = j
<1>1. Disk /\ Len(queue[u]) \in Nat
  BY InvParts DEF IInv, Ledger
<1>2. u = v
  <2>1. issued[queue[u][i].write] = u /\ issued[queue[v][j].write] = v
    BY <1>1 DEF Disk
  <2>2. QED
    BY <2>1
<1>3. queue[u][i] \in Batch /\ queue[u][j] \in Batch
  BY <1>2, InvParts, ElementOfSeq
<1>4. /\ i < j => queue[u][i].id < queue[u][j].id /\ queue[u][i].write < queue[u][j].write
      /\ j < i => queue[u][j].id < queue[u][i].id /\ queue[u][j].write < queue[u][i].write
  BY <1>1, <1>2 DEF Disk, InOrder
<1>5. /\ queue[u][i].id \in Nat /\ queue[u][j].id \in Nat
      /\ queue[u][i].write \in Nat /\ queue[u][j].write \in Nat
  BY <1>3, PipelineAssumption DEF Batch, PipelineAssumption
<1>6. ~ (i < j) /\ ~ (j < i)
  BY <1>2, <1>4, <1>5
<1>7. QED
  BY <1>2, <1>6

\* A new batch goes behind all others and waits for its result.
LEMMA WriteKeepsInv ==
    ASSUME IInv, WriteMutations
    PROVE  IInv'
<1> DEFINE n == Len(issued) + 1
           b == [id |-> nextId, write |-> n]
           q == queue[user]
<1>1. /\ Len(issued) < MaxWrites /\ issued' = Append(issued, user)
      /\ queue' = [queue EXCEPT ![user] = Append(@, b)]
      /\ nextId' = nextId + 1
      /\ callbacks' = [callbacks EXCEPT ![user] = Registered(@, b)]
      /\ net' = FillWritePipeline(net, queue'[user])
      /\ UNCHANGED <<user, applied, told, unheard, cut, faults>>
  BY DEF WriteMutations
<1>2. /\ TypeOK /\ Disk /\ Unmade /\ Knowledge /\ Answers /\ FailureHasCause
      /\ Good(net, q) /\ net \in Net /\ user \in User /\ nextId \in Nat \ {0}
      /\ q \in Seq(Batch) /\ InOrder(q) /\ Len(q) \in Nat
  BY InvParts DEF IInv, Ledger
<1>3. /\ Len(issued) \in Nat /\ issued' \in Seq(User) /\ Len(issued') = n
      /\ n \in 1..MaxWrites /\ issued'[n] = user
      /\ \A w \in 1..Len(issued) : issued'[w] = issued[w]
  BY <1>1, <1>2, AppendProperties, LenProperties, PipelineAssumption
     DEF TypeOK, PipelineAssumption
<1>4. b \in Batch /\ b.id = nextId /\ b.write = n
  BY <1>2, <1>3 DEF Batch
<1> HIDE DEF b
<1>5. \A u \in User : \A i \in 1..Len(queue[u]) :
          /\ queue[u][i] \in Batch /\ queue[u][i].id < nextId
          /\ queue[u][i].write \in 1..Len(issued)
  <2>1. \A u \in User : \A i \in 1..Len(queue[u]) : queue[u][i] \in Batch
    BY InvParts, ElementOfSeq
  <2>2. \A u \in User : \A i \in 1..Len(queue[u]) : queue[u][i].write \in 1..MaxWrites
    BY <2>1 DEF Batch
  <2>3. QED
    BY <1>2, <1>3, <2>1, <2>2, PipelineAssumption DEF Disk, PipelineAssumption
<1>6. /\ Append(q, b) \in Seq(Batch) /\ InOrder(Append(q, b)) /\ Fillable(net, Append(q, b))
  <2>1. \A i \in 1..Len(q) : q[i].id < b.id /\ q[i].write < b.write
    BY <1>2, <1>3, <1>4, <1>5
  <2>2. QED
    BY <1>2, <1>4, <2>1, AppendIsFillable
<1>7. /\ queue'[user] = Append(q, b) /\ \A u \in User : u # user => queue'[u] = queue[u]
      /\ queue' \in [User -> Seq(Batch)]
  BY <1>1, <1>2, <1>6 DEF TypeOK
<1>8. Good(net', queue'[user]) /\ Results(net') = Results(net)
  <2>1. Good(net', queue'[user]) /\ net'.down = net.down
    BY <1>1, <1>6, <1>7, FillIsGood
  <2>2. QED
    BY <2>1 DEF Results
<1>9. /\ Len(Append(q, b)) = Len(q) + 1 /\ Append(q, b)[Len(q) + 1] = b
      /\ \A i \in 1..Len(q) : Append(q, b)[i] = q[i]
  BY <1>2, <1>4, AppendProperties
\* A place of the new queues is an old one, or that of b.
<1>10. \A u \in User : \A i \in 1..Len(queue'[u]) :
           \/ i \in 1..Len(queue[u]) /\ queue'[u][i] = queue[u][i]
           \/ u = user /\ i = Len(q) + 1 /\ queue'[u][i] = b
  <2> SUFFICES ASSUME NEW u \in User, NEW i \in 1..Len(queue'[u])
               PROVE  \/ i \in 1..Len(queue[u]) /\ queue'[u][i] = queue[u][i]
                      \/ u = user /\ i = Len(q) + 1 /\ queue'[u][i] = b
    OBVIOUS
  <2>1. CASE u = user
    <3>1. /\ queue[u] = q /\ queue'[u] = Append(q, b)
          /\ Len(q) \in Nat
      BY <1>2, <1>7, <2>1
    <3>2. i \in 1..Len(q) \/ i = Len(q) + 1
      BY <1>9, <3>1
    <3>3. QED
      BY <1>9, <2>1, <3>1, <3>2
  <2>2. CASE u # user
    BY <1>7, <2>2
  <2>3. QED
    BY <2>1, <2>2
<1>11. \A u \in User : \A i \in 1..Len(queue[u]) :
           i \in 1..Len(queue'[u]) /\ queue'[u][i] = queue[u][i]
  <2>1. ASSUME NEW i \in 1..Len(q)
        PROVE  i \in 1..Len(Append(q, b)) /\ Append(q, b)[i] = q[i]
    BY <1>2, <1>9
  <2>2. QED
    BY <1>7, <2>1
<1>12. n \notin applied /\ told[n] = "no"
  BY <1>2, <1>3 DEF Unmade
<1>13. /\ callbacks' \in [User -> SUBSET Batch]
       /\ \A u \in User : \A c \in callbacks'[u] : c \in callbacks[u] \/ (u = user /\ c = b)
  BY <1>1, <1>2, <1>4 DEF Registered, TypeOK
<1>14. TypeOK'
  <2>1. net' \in Net
    BY <1>8 DEF Good, Fillable
  <2>2. QED
    BY <1>1, <1>2, <1>3, <1>7, <1>13, <2>1 DEF TypeOK
<1>15. Disk'
  <2>1. \A u \in User : InOrder(queue'[u])
    BY <1>6, <1>7, InvParts
  <2>2. ASSUME NEW u \in User, NEW i \in 1..Len(queue'[u])
        PROVE  /\ queue'[u][i].id < nextId' /\ queue'[u][i].write <= Len(issued')
               /\ issued'[queue'[u][i].write] = u
    <3>1. CASE i \in 1..Len(queue[u]) /\ queue'[u][i] = queue[u][i]
      <4>1. queue[u][i].id \in Nat /\ queue[u][i].id < nextId /\ queue[u][i].write \in 1..Len(issued)
        BY <1>5, <3>1 DEF Batch
      <4>2. issued[queue[u][i].write] = u
        BY <1>2, <3>1 DEF Disk
      <4>3. nextId' = nextId + 1 /\ nextId \in Nat /\ Len(issued') = Len(issued) + 1
        BY <1>1, <1>2, <1>3
      <4>4. issued'[queue[u][i].write] = u
        BY <1>3, <4>1, <4>2
      <4>5. queue[u][i].id < nextId' /\ queue[u][i].write <= Len(issued')
        BY <1>3, <4>1, <4>3
      <4>6. QED
        BY <3>1, <4>4, <4>5
    <3>2. CASE u = user /\ i = Len(q) + 1 /\ queue'[u][i] = b
      <4>1. b.id < nextId' /\ b.write <= Len(issued') /\ issued'[b.write] = user
        BY <1>1, <1>2, <1>3, <1>4
      <4>2. QED
        BY <3>2, <4>1
    <3>3. QED
      BY <1>10, <3>1, <3>2
  <2>3. ASSUME NEW u \in User, NEW i \in 1..Len(queue'[u]), queue'[u][i].write \in applied',
               NEW j \in 1..(i - 1)
        PROVE  queue'[u][j].write \in applied'
    <3>1. i \in 1..Len(queue[u]) /\ queue'[u][i] = queue[u][i]
      BY <1>1, <1>4, <1>10, <1>12, <2>3
    <3>2. j \in 1..Len(queue[u])
      BY <3>1, InvParts
    <3>3. queue[u][j].write \in applied
      BY <1>1, <1>2, <2>3, <3>1 DEF Disk
    <3>4. QED
      BY <1>1, <1>11, <3>2, <3>3
  <2>4. QED
    BY <2>1, <2>2, <2>3 DEF Disk
<1>16. Unmade'
  <2>1. applied' = applied /\ told' = told /\ MaxWrites \in Nat
    BY <1>1, PipelineAssumption DEF PipelineAssumption
  <2>2. /\ applied \subseteq 1..Len(issued)
        /\ \A w \in 1..MaxWrites : w > Len(issued) => told[w] = "no"
    BY <1>2 DEF Unmade
  <2>3. Len(issued') = Len(issued) + 1 /\ Len(issued) \in Nat /\ Len(issued') <= MaxWrites
    BY <1>3
  <2>4. applied' \subseteq 1..Len(issued')
    BY <2>1, <2>2, <2>3
  <2>5. \A w \in 1..MaxWrites : w > Len(issued') => told'[w] = "no"
    BY <2>1, <2>2, <2>3
  <2>6. QED
    BY <2>3, <2>4, <2>5 DEF Unmade
<1>17. Knowledge'
  <2>1. ASSUME NEW u \in User, NEW c \in callbacks'[u]
        PROVE  told'[c.write] = "no" /\ \E i \in 1..Len(queue'[u]) : queue'[u][i] = c
    <3>1. CASE c \in callbacks[u]
      BY <1>1, <1>2, <1>11, <3>1 DEF Knowledge
    <3>2. CASE u = user /\ c = b
      <4>1. Len(q) + 1 \in 1..Len(queue'[user]) /\ queue'[user][Len(q) + 1] = b
        BY <1>2, <1>7, <1>9
      <4>2. QED
        BY <1>1, <1>4, <1>12, <3>2, <4>1
    <3>3. QED
      BY <1>13, <3>1, <3>2
  <2>2. ASSUME NEW u \in User, NEW i \in 1..Len(queue'[u])
        PROVE  LET w == queue'[u][i].write IN
               told'[w] = "no" \/ (told'[w] = "ok" /\ w \in cut' /\ w \in applied')
    <3>1. CASE i \in 1..Len(queue[u]) /\ queue'[u][i] = queue[u][i]
      BY <1>1, <1>2, <3>1 DEF Knowledge, Unsettled
    <3>2. CASE queue'[u][i] = b
      BY <1>1, <1>4, <1>12, <3>2 DEF Unsettled
    <3>3. QED
      BY <1>10, <3>1, <3>2
  <2>3. QED
    BY <2>1, <2>2 DEF Knowledge, Unsettled
<1>18. Answers' /\ FailureHasCause'
  <2>1. ASSUME NEW u \in User, NEW i \in 1..Len(queue'[u]), queue'[u][i].write \in applied'
        PROVE  queue'[u][i].write \in unheard' \cup Results(net')
    <3>1. i \in 1..Len(queue[u]) /\ queue'[u][i] = queue[u][i]
      BY <1>1, <1>4, <1>10, <1>12, <2>1
    <3>2. QED
      BY <1>1, <1>2, <1>8, <2>1, <3>1 DEF Answers
  <2>2. QED
    BY <1>1, <1>2, <1>8, <2>1 DEF Answers, FailureHasCause
<1>19. QED
  BY <1>1, <1>8, <1>14, <1>15, <1>16, <1>17, <1>18 DEF IInv, Ledger

\* The completion of the first batch, if it is still there to be called.
LEMMA TellParts ==
    ASSUME IInv, queue[user] # <<>>, NEW b, b = Head(queue[user]),
           NEW outcome \in {"ok", "failed"},
           told' = [w \in 1..MaxWrites |-> told'[w]],
           \A w \in 1..MaxWrites :
               told'[w] = IF \E c \in callbacks[user] : c.id = b.id /\ c.write = w
                          THEN outcome ELSE told[w]
    PROVE  /\ told' \in [1..MaxWrites -> {"no", "ok", "failed"}]
           /\ \A w \in 1..MaxWrites : w # b.write => told'[w] = told[w]
           /\ \/ told' = told
              \/ told[b.write] = "no" /\ told' = [told EXCEPT ![b.write] = outcome]
<1>1. /\ told \in [1..MaxWrites -> {"no", "ok", "failed"}] /\ Knowledge
      /\ user \in User /\ queue[user] \in Seq(Batch)
  BY InvParts DEF IInv, Ledger, TypeOK
<1>2. b = queue[user][1] /\ 1 \in 1..Len(queue[user]) /\ b \in Batch
  BY <1>1, TailParts
<1>3. \A c \in callbacks[user] : c.id = b.id => c = b
  <2> SUFFICES ASSUME NEW c \in callbacks[user], c.id = b.id PROVE c = b
    OBVIOUS
  <2>1. PICK i \in 1..Len(queue[user]) : queue[user][i] = c
    BY <1>1 DEF Knowledge
  <2>2. i = 1
    BY <1>1, <1>2, <2>1, PlaceIsOwn
  <2>3. QED
    BY <1>2, <2>1, <2>2
<1>4. \A c \in callbacks[user] : told[c.write] = "no"
  BY <1>1 DEF Knowledge
<1>5. CASE \E c \in callbacks[user] : c.id = b.id
  <2>1. b \in callbacks[user] /\ told[b.write] = "no"
    BY <1>3, <1>4, <1>5
  <2>2. \A w \in 1..MaxWrites : (\E c \in callbacks[user] : c.id = b.id /\ c.write = w) <=> w = b.write
    BY <1>3, <2>1
  <2>3. told' = [told EXCEPT ![b.write] = outcome]
    BY <1>1, <2>2
  <2>4. QED
    BY <1>1, <1>2, <2>1, <2>3
<1>6. CASE ~ \E c \in callbacks[user] : c.id = b.id
  <2>1. \A w \in 1..MaxWrites : told'[w] = told[w]
    BY <1>6
  <2>2. told' = told
    BY <1>1, <2>1
  <2>3. QED
    BY <1>1, <2>1, <2>2
<1>7. QED
  BY <1>5, <1>6

\* The app hears of batch b at most this outcome, and nothing of it later.
Heard(b, outcome) ==
    /\ told' \in [1..MaxWrites -> {"no", "ok", "failed"}]
    /\ \A w \in 1..MaxWrites : w # b.write => told'[w] = told[w]
    /\ \/ told' = told
       \/ told[b.write] = "no" /\ told' = [told EXCEPT ![b.write] = outcome]
    /\ callbacks' \in [User -> SUBSET Batch]
    /\ \A u \in User : callbacks'[u] \subseteq callbacks[u]
    /\ \A c \in callbacks'[user] : c.id # b.id

\* A completion hears the outcome of its own write, once, and is forgotten then.
LEMMA NotifyParts ==
    ASSUME IInv, queue[user] # <<>>, NEW b, b = Head(queue[user]),
           NEW outcome \in {"ok", "failed"}, NotifyUser(b, outcome)
    PROVE  Heard(b, outcome)
<1>1. /\ told' = [w \in 1..MaxWrites |-> told'[w]]
      /\ \A w \in 1..MaxWrites :
             told'[w] = IF \E c \in callbacks[user] : c.id = b.id /\ c.write = w
                        THEN outcome ELSE told[w]
  BY DEF NotifyUser
<1>2. /\ callbacks' \in [User -> SUBSET Batch]
      /\ \A u \in User : callbacks'[u] \subseteq callbacks[u]
      /\ \A c \in callbacks'[user] : c.id # b.id
  BY InvParts DEF NotifyUser
<1>3. /\ told' \in [1..MaxWrites -> {"no", "ok", "failed"}]
      /\ \A w \in 1..MaxWrites : w # b.write => told'[w] = told[w]
      /\ \/ told' = told
         \/ told[b.write] = "no" /\ told' = [told EXCEPT ![b.write] = outcome]
  BY <1>1, TellParts
<1>4. QED
  BY <1>2, <1>3 DEF Heard

\* The first batch leaves the disk, whether or not the app is told of it.
LEMMA SettleKeepsInv ==
    ASSUME IInv, queue[user] # <<>>, NEW b, b = Head(queue[user]),
           NEW outcome \in {"ok", "failed"}, Heard(b, outcome), RemoveFromQueue,
           UNCHANGED <<user, applied, issued, cut>>, faults' \in 0..MaxFaults,
           nextId' \in Nat \ {0},
           \A u \in User : \A i \in 1..Len(queue'[u]) : queue'[u][i].id < nextId',
           unheard' \in {unheard, unheard \cup Results(net)},
           Good(net', queue'[user]),
           Results(net') \subseteq Results(net),
           Results(net) \subseteq unheard' \cup Results(net') \cup {b.write},
           outcome = "failed" => Results(net) \subseteq unheard'
    PROVE  IInv'
<1> DEFINE q == queue[user]
<1>1. /\ TypeOK /\ Disk /\ Unmade /\ Knowledge /\ Answers /\ FailureHasCause
      /\ net \in Net /\ net' \in Net /\ user \in User
      /\ q \in Seq(Batch) /\ InOrder(q)
  BY InvParts DEF IInv, Ledger, Good, Fillable
<1>2. /\ b = q[1] /\ 1 \in 1..Len(q) /\ b \in Batch
      /\ Tail(q) \in Seq(Batch) /\ InOrder(Tail(q)) /\ Len(Tail(q)) \in Nat
      /\ \A i \in 1..Len(Tail(q)) : i + 1 \in 1..Len(q) /\ Tail(q)[i] = q[i + 1]
  BY <1>1, TailParts, TailInOrder
<1>3. /\ queue'[user] = Tail(q) /\ \A u \in User : u # user => queue'[u] = queue[u]
      /\ queue' \in [User -> Seq(Batch)]
  BY <1>1, <1>2 DEF RemoveFromQueue, TypeOK
<1>4. /\ told' \in [1..MaxWrites -> {"no", "ok", "failed"}]
      /\ \A w \in 1..MaxWrites : w # b.write => told'[w] = told[w]
      /\ \/ told' = told
         \/ told[b.write] = "no" /\ told' = [told EXCEPT ![b.write] = outcome]
      /\ callbacks' \in [User -> SUBSET Batch]
      /\ \A u \in User : callbacks'[u] \subseteq callbacks[u]
      /\ \A c \in callbacks'[user] : c.id # b.id
  BY DEF Heard
\* A place of the new queues is an old one, and not that of b.
<1>5. ASSUME NEW u \in User, NEW i \in 1..Len(queue'[u])
      PROVE  \E k \in 1..Len(queue[u]) :
                 /\ queue'[u][i] = queue[u][k]
                 /\ queue[u][k].write # b.write /\ queue[u][k].write \in 1..MaxWrites
                 /\ k = IF u = user THEN i + 1 ELSE i
  <2> DEFINE k == IF u = user THEN i + 1 ELSE i
  <2>1. k \in 1..Len(queue[u]) /\ queue'[u][i] = queue[u][k] /\ ~ (u = user /\ k = 1)
    <3>1. CASE u = user
      <4>1. i \in 1..Len(Tail(q))
        BY <1>3, <3>1
      <4>2. i + 1 # 1
        BY <1>2, <4>1
      <4>3. QED
        BY <1>2, <1>3, <3>1, <4>1, <4>2
    <3>2. CASE u # user
      BY <1>3, <3>2
    <3>3. QED
      BY <3>1, <3>2
  <2>2. queue[u][k].write # b.write
    BY <1>1, <1>2, <2>1, PlaceIsOwn
  <2>3. queue[u][k] \in Batch
    BY <2>1, InvParts, ElementOfSeq
  <2>4. QED
    BY <2>1, <2>2, <2>3 DEF Batch
<1>6. TypeOK'
  BY <1>1, <1>3, <1>4, InResults DEF TypeOK
<1>7. Disk'
  <2>1. \A u \in User : InOrder(queue'[u])
    BY <1>2, <1>3, InvParts
  <2>2. ASSUME NEW u \in User, NEW i \in 1..Len(queue'[u])
        PROVE  /\ queue'[u][i].id < nextId' /\ queue'[u][i].write <= Len(issued')
               /\ issued'[queue'[u][i].write] = u
    <3>1. PICK k \in 1..Len(queue[u]) : queue'[u][i] = queue[u][k]
      BY <1>5
    <3>2. QED
      BY <1>1, <3>1 DEF Disk
  <2>3. ASSUME NEW u \in User, NEW i \in 1..Len(queue'[u]), queue'[u][i].write \in applied',
               NEW j \in 1..(i - 1)
        PROVE  queue'[u][j].write \in applied'
    <3>1. CASE u = user
      <4>1. i \in 1..Len(Tail(q)) /\ j \in 1..Len(Tail(q))
        BY <1>2, <1>3, <3>1
      <4>2. /\ queue'[u][i] = q[i + 1] /\ queue'[u][j] = q[j + 1]
            /\ i + 1 \in 1..Len(q)
        BY <1>2, <1>3, <3>1, <4>1
      <4>between. j + 1 \in 1..((i + 1) - 1)
        <5>1. i \in Nat /\ j \in 1..(i - 1)
          BY <4>1
        <5>2. QED
          BY <5>1
      <4>3. QED
        BY <1>1, <2>3, <4>2, <4>between DEF Disk
    <3>2. CASE u # user
      BY <1>1, <1>3, <2>3, <3>2 DEF Disk
    <3>3. QED
      BY <3>1, <3>2
  <2>4. QED
    BY <2>1, <2>2, <2>3 DEF Disk
<1>8. b.write \in 1..MaxWrites /\ b.write <= Len(issued)
  BY <1>1, <1>2 DEF Disk, Batch
<1>9. Unmade'
  <2>1. ASSUME NEW w \in 1..MaxWrites, w > Len(issued) PROVE told'[w] = "no"
    <3>1. Len(issued) \in Nat /\ b.write \in Nat
      BY <1>1, <1>8, LenProperties, PipelineAssumption DEF TypeOK, PipelineAssumption
    <3>2. w # b.write
      BY <1>8, <2>1, <3>1
    <3>3. QED
      BY <1>1, <1>4, <2>1, <3>2 DEF Unmade
  <2>2. QED
    BY <1>1, <2>1 DEF Unmade
<1>10. Knowledge'
  <2>1. ASSUME NEW u \in User, NEW c \in callbacks'[u]
        PROVE  told'[c.write] = "no" /\ \E i \in 1..Len(queue'[u]) : queue'[u][i] = c
    <3>1. c \in callbacks[u] /\ told[c.write] = "no"
      BY <1>1, <1>4 DEF Knowledge
    <3>2. PICK k \in 1..Len(queue[u]) : queue[u][k] = c
      BY <1>1, <3>1 DEF Knowledge
    <3>3. ~ (u = user /\ k = 1)
      BY <1>2, <1>4, <3>2
    <3>4. c.write # b.write /\ c.write \in 1..MaxWrites
      <4>1. c.write # b.write
        BY <1>1, <1>2, <3>2, <3>3, PlaceIsOwn
      <4>2. c \in Batch
        BY <3>2, InvParts, ElementOfSeq
      <4>3. QED
        BY <4>1, <4>2 DEF Batch
    <3>5. \E i \in 1..Len(queue'[u]) : queue'[u][i] = c
      <4>1. CASE u = user
        <5>1. Len(q) \in Nat /\ Len(Tail(q)) \in Nat /\ Len(q) = Len(Tail(q)) + 1
          BY <1>1, TailParts, LenProperties
        <5>2. k - 1 \in 1..Len(Tail(q)) /\ (k - 1) + 1 = k
          BY <3>2, <3>3, <4>1, <5>1
        <5>3. Tail(q)[k - 1] = q[k]
          BY <1>2, <5>2
        <5>4. QED
          BY <1>3, <3>2, <4>1, <5>2, <5>3
      <4>2. CASE u # user
        BY <1>3, <3>2, <4>2
      <4>3. QED
        BY <4>1, <4>2
    <3>6. QED
      BY <1>4, <3>1, <3>4, <3>5
  <2>2. ASSUME NEW u \in User, NEW i \in 1..Len(queue'[u])
        PROVE  LET w == queue'[u][i].write IN
               told'[w] = "no" \/ (told'[w] = "ok" /\ w \in cut' /\ w \in applied')
    <3>1. PICK k \in 1..Len(queue[u]) :
              /\ queue'[u][i] = queue[u][k]
              /\ queue[u][k].write # b.write /\ queue[u][k].write \in 1..MaxWrites
      BY <1>5
    <3>2. Unsettled(queue[u][k].write) /\ told'[queue[u][k].write] = told[queue[u][k].write]
      BY <1>1, <1>4, <3>1 DEF Knowledge
    <3>3. QED
      BY <3>1, <3>2 DEF Unsettled
  <2>3. QED
    BY <2>1, <2>2 DEF Knowledge, Unsettled
<1>11. Answers'
  <2>1. ASSUME NEW u \in User, NEW i \in 1..Len(queue'[u]), queue'[u][i].write \in applied'
        PROVE  queue'[u][i].write \in unheard' \cup Results(net')
    <3>1. PICK k \in 1..Len(queue[u]) :
              queue'[u][i] = queue[u][k] /\ queue[u][k].write # b.write
      BY <1>5
    <3>2. queue[u][k].write \in unheard \cup Results(net)
      BY <1>1, <2>1, <3>1 DEF Answers
    <3>3. QED
      BY <3>1, <3>2
  <2>2. QED
    BY <1>1, <2>1 DEF Answers
<1>12. FailureHasCause'
  <2> SUFFICES ASSUME NEW w \in 1..MaxWrites, told'[w] = "failed", w \in applied
               PROVE  w \in unheard'
    BY DEF FailureHasCause
  <2>1. CASE told[w] = "failed"
    BY <1>1, <2>1 DEF FailureHasCause
  <2>2. CASE told[w] # "failed"
    <3>1. w = b.write /\ outcome = "failed"
      BY <1>1, <1>4, <2>2 DEF TypeOK
    <3>2. b.write \in unheard \cup Results(net)
      BY <1>1, <1>2, <3>1 DEF Answers
    <3>3. QED
      BY <3>1, <3>2
  <2>3. QED
    BY <2>1, <2>2
<1>13. QED
  BY <1>6, <1>7, <1>9, <1>10, <1>11, <1>12 DEF IInv, Ledger

\* What stays on disk when the first batch is removed.
LEMMA RemovedParts ==
    ASSUME IInv, queue[user] # <<>>, RemoveFromQueue
    PROVE  /\ queue' \in [User -> Seq(Batch)] /\ queue'[user] = Tail(queue[user])
           /\ InOrder(queue'[user])
           /\ \A u \in User : \A i \in 1..Len(queue'[u]) : queue'[u][i].id < nextId
<1> DEFINE q == queue[user]
<1>1. user \in User /\ q \in Seq(Batch) /\ InOrder(q) /\ queue \in [User -> Seq(Batch)]
  BY InvParts DEF TypeOK
<1>2. /\ Tail(q) \in Seq(Batch) /\ InOrder(Tail(q))
      /\ \A i \in 1..Len(Tail(q)) : i + 1 \in 1..Len(q) /\ Tail(q)[i] = q[i + 1]
  BY <1>1, TailParts, TailInOrder
<1>3. /\ queue' \in [User -> Seq(Batch)] /\ queue'[user] = Tail(q)
      /\ \A u \in User : u # user => queue'[u] = queue[u]
  BY <1>1, <1>2 DEF RemoveFromQueue
<1>4. ASSUME NEW u \in User, NEW i \in 1..Len(queue'[u])
      PROVE  queue'[u][i].id < nextId
  <2>1. CASE u = user
    BY <1>2, <1>3, <2>1, InvParts
  <2>2. CASE u # user
    BY <1>3, <2>2, InvParts
  <2>3. QED
    BY <2>1, <2>2
<1>5. QED
  BY <1>2, <1>3, <1>4

\* The front of the pipeline is the first batch on disk.
LEMMA FrontIsFirst ==
    ASSUME IInv, net.pipeline # <<>>
    PROVE  /\ queue[user] # <<>> /\ Head(net.pipeline) = Head(queue[user])
           /\ Head(net.pipeline) = queue[user][1] /\ 1 \in 1..Len(queue[user])
           /\ Head(net.pipeline) \in Batch
<1>1. /\ queue[user] \in Seq(Batch) /\ net.pipeline \in Seq(Batch)
      /\ Prefix(net.pipeline, queue[user])
  BY InvParts DEF Good, Fillable, Loaded, Net
<1>2. queue[user] # <<>> /\ Head(net.pipeline) = Head(queue[user])
  BY <1>1, TailPrefix
<1>3. QED
  BY <1>1, <1>2, TailParts

\* A result that is read is that of the oldest batch.
LEMMA ResultReadKeepsInv ==
    ASSUME IInv, ResultRead
    PROVE  IInv'
<1> DEFINE q == queue[user]
           b == Head(net.pipeline)
           n == [net EXCEPT !.pipeline = Tail(@), !.down = Tail(@)]
<1>1. /\ net.down # <<>> /\ net.handshaken /\ Head(net.down).kind = "result"
      /\ NotifyUser(b, "ok") /\ RemoveFromQueue /\ net' = FillWritePipeline(n, queue'[user])
      /\ UNCHANGED <<user, nextId, applied, issued, unheard, cut, faults>>
  BY DEF ResultRead, ResultIsDue
<1>2. /\ Good(net, q) /\ net \in Net /\ user \in User /\ q \in Seq(Batch) /\ InOrder(q)
      /\ queue \in [User -> Seq(Batch)]
  BY InvParts DEF TypeOK
<1>3. /\ Fillable(n, Tail(q)) /\ n.down = Tail(net.down)
      /\ net.pipeline # <<>> /\ Head(net.down) = Result(b)
  BY <1>1, <1>2, ResultReadIsGood
<1>4. /\ q # <<>> /\ b = Head(q) /\ b \in Batch
      /\ Tail(q) \in Seq(Batch) /\ InOrder(Tail(q))
  BY <1>2, <1>3, FrontIsFirst, TailParts, TailInOrder
<1>5. queue'[user] = Tail(q)
  BY <1>1, <1>2 DEF RemoveFromQueue
<1> HIDE DEF n, b
<1>6. Good(net', queue'[user]) /\ net'.down = n.down
  BY <1>1, <1>3, <1>4, <1>5, FillIsGood
<1>7. /\ Results(net') \subseteq Results(net)
      /\ Results(net) \subseteq Results(net') \cup {b.write}
  <2>1. net' \in Net /\ net'.down = Tail(net.down)
    BY <1>3, <1>6 DEF Good, Fillable
  <2>2. Head(net.down).batch.write = b.write
    BY <1>3 DEF Result
  <2>3. QED
    BY <1>1, <1>2, <2>1, <2>2, ResultsOfTail
<1>8. Heard(b, "ok") /\ nextId' \in Nat \ {0} /\ faults' \in 0..MaxFaults
      /\ \A u \in User : \A i \in 1..Len(queue'[u]) : queue'[u][i].id < nextId'
  BY <1>1, <1>4, NotifyParts, RemovedParts, InvParts
<1>9. QED
  BY <1>1, <1>4, <1>6, <1>7, <1>8, SettleKeepsInv

\* A call that is ended by the server has shaken hands, and something is sent.
LEMMA RefusedIsSent ==
    ASSUME IInv, Ended(net)
    PROVE  net.pipeline # <<>>
<1>1. net \in Net /\ Stream(net) /\ Transit(net) /\ net.down \in Seq(Message)
  BY InvParts DEF Good, Fillable, Net
<1>2. PICK i \in 1..Len(net.down) : net.down[i].kind = "refusal"
  BY <1>1, LenProperties DEF Ended
<1>3. net.down # <<>> /\ net.down # <<Handshake>>
  <2>1. net.down = <<>> => Len(net.down) = 0
    BY EmptySeq
  <2>2. net.down = <<Handshake>> => Len(net.down) = 1 /\ net.down[1] = Handshake
    OBVIOUS
  <2>3. QED
    BY <1>2, <2>1, <2>2 DEF Handshake
<1>4. net.handshaken
  BY <1>1, <1>3 DEF Stream, Transit
<1>5. Len(net.down) + Len(net.up) = Len(net.pipeline)
  BY <1>1, <1>4 DEF Transit
<1>6. /\ Len(net.down) \in Nat /\ Len(net.up) \in Nat /\ Len(net.pipeline) \in Nat
      /\ Len(net.down) # 0
  BY <1>1, <1>3, EmptySeq, LenProperties DEF Net
<1>7. Len(net.pipeline) # 0
  <2> DEFINE sent == Len(net.pipeline)
             unsent == Len(net.up)
             answered == Len(net.down)
  <2>1. /\ answered + unsent = sent /\ answered # 0
        /\ answered \in Nat /\ unsent \in Nat
    BY <1>5, <1>6
  <2> HIDE DEF sent, unsent, answered
  <2>2. sent # 0
    BY <2>1
  <2>3. QED
    BY <2>2 DEF sent
<1>8. QED
  BY <1>7, EmptySeq

\* An error can only be blamed on a write when one has been sent.
LEMMA BlamedIsSent ==
    ASSUME IInv, EndIsRead \/ WriteFails \/ ResultIsDue
    PROVE  net.pipeline # <<>>
<1>1. CASE EndIsRead
  <2>1. Head(net.down) = net.down[1] /\ 1 \in DOMAIN net.down
    BY <1>1, InvParts, TailParts, LenProperties DEF EndIsRead, Net
  <2>2. Ended(net)
    BY <1>1, <2>1 DEF EndIsRead, Ended
  <2>3. QED
    BY <2>2, RefusedIsSent
<1>2. CASE WriteFails
  BY <1>2, RefusedIsSent DEF WriteFails
<1>3. CASE ResultIsDue
  BY <1>3, InvParts, ResultReadIsGood DEF ResultIsDue
<1>4. QED
  BY <1>1, <1>2, <1>3

\* The three ways to blame the front of the pipeline.
LEMMA RejectedParts ==
    ASSUME IInv, RefusalRead \/ WriteOperationFailed \/ ResponseUnreadable
    PROVE  FrontBlamed /\ net.pipeline # <<>> /\ faults' \in 0..MaxFaults
<1>1. FrontBlamed /\ (EndIsRead \/ WriteFails \/ ResultIsDue)
  BY DEF RefusalRead, WriteOperationFailed, ResponseUnreadable, FrontRejected
<1>2. faults' \in 0..MaxFaults
  BY InvParts, PipelineAssumption
     DEF RefusalRead, WriteOperationFailed, ResponseUnreadable, FrontRejected, PipelineAssumption
<1>3. QED
  BY <1>1, <1>2, BlamedIsSent

\* The batch that an error is blamed on is the oldest one, too.
LEMMA RejectedKeepsInv ==
    ASSUME IInv, RefusalRead \/ WriteOperationFailed \/ ResponseUnreadable
    PROVE  IInv'
<1> DEFINE q == queue[user]
           b == Head(net.pipeline)
<1>1. /\ NotifyUser(b, "failed") /\ RemoveFromQueue /\ net' = Blame(net, queue'[user])
      /\ unheard' = unheard \cup Results(net)
      /\ UNCHANGED <<user, nextId, applied, issued, cut>>
      /\ faults' \in 0..MaxFaults /\ net.pipeline # <<>>
  BY RejectedParts DEF FrontBlamed
<1>2. Good(net, q) /\ q \in Seq(Batch) /\ InOrder(q)
  BY InvParts
<1>3. q # <<>> /\ b = Head(q)
  BY <1>1, FrontIsFirst
<1>4. queue'[user] = Tail(q)
  BY <1>1, <1>3, RemovedParts
<1>5. Good(net', queue'[user]) /\ net'.down = <<>>
  BY <1>1, <1>2, <1>4, BlameIsGood
<1>6. Results(net') = {}
  BY <1>5, NoResults DEF Good, Fillable
<1> HIDE DEF b
<1>7. Heard(b, "failed") /\ nextId' \in Nat \ {0}
      /\ \A u \in User : \A i \in 1..Len(queue'[u]) : queue'[u][i].id < nextId'
  BY <1>1, <1>3, NotifyParts, RemovedParts, InvParts
<1>8. QED
  BY <1>1, <1>3, <1>5, <1>6, <1>7, SettleKeepsInv

\* The oldest batch has left the disk, and nobody is there to be told.
LEMMA DyingRejectedKeepsInv ==
    ASSUME IInv, DiesAfterRejection
    PROVE  IInv'
<1> DEFINE b == Head(net.pipeline)
<1>1. /\ RemoveFromQueue /\ Restarts /\ UNCHANGED <<told, cut>>
      /\ EndIsRead \/ WriteFails \/ ResultIsDue
  BY DEF DiesAfterRejection
<1>2. queue[user] # <<>> /\ b = Head(queue[user])
  BY <1>1, BlamedIsSent, FrontIsFirst
<1>3. queue' \in [User -> Seq(Batch)] /\ InOrder(queue'[user])
  BY <1>1, <1>2, RemovedParts
<1>4. /\ UNCHANGED <<user, applied, issued>>
      /\ faults' \in 0..MaxFaults /\ unheard' = unheard \cup Results(net)
      /\ callbacks' = [u \in User |-> {}]
      /\ nextId' \in Nat \ {0}
      /\ \A u \in User : \A i \in 1..Len(queue'[u]) : queue'[u][i].id < nextId'
      /\ Good(net', queue'[user]) /\ Results(net') = {}
  BY <1>1, <1>3, RestartParts
<1>5. Heard(b, "failed")
  BY <1>1, <1>4, InvParts DEF Heard, TypeOK
<1> HIDE DEF b
<1>6. QED
  BY <1>1, <1>2, <1>4, <1>5, SettleKeepsInv

\* The app was told of a success, and the write is still on disk.
LEMMA DyingKeepsInv ==
    ASSUME IInv, DiesBeforeRemoval
    PROVE  IInv'
<1> DEFINE q == queue[user]
           b == Head(net.pipeline)
<1>1. /\ net.down # <<>> /\ net.handshaken /\ Head(net.down).kind = "result"
      /\ Restarts /\ queue' = queue
      /\ told' = [w \in 1..MaxWrites |-> told'[w]]
      /\ \A w \in 1..MaxWrites :
             told'[w] = IF \E c \in callbacks[user] : c.id = b.id /\ c.write = w
                        THEN "ok" ELSE told[w]
      /\ cut' = cut \cup {b.write}
  BY DEF DiesBeforeRemoval, ResultIsDue
<1>2. /\ TypeOK /\ Disk /\ Unmade /\ Knowledge /\ Answers /\ FailureHasCause
      /\ Good(net, q) /\ net \in Net /\ user \in User /\ q \in Seq(Batch) /\ InOrder(q)
  BY InvParts DEF IInv, Ledger
<1>3. net.pipeline # <<>> /\ Head(net.down) = Result(b)
  BY <1>1, <1>2, ResultReadIsGood
<1>4. q # <<>> /\ b = Head(q) /\ b = q[1] /\ 1 \in 1..Len(q) /\ b \in Batch
  BY <1>3, FrontIsFirst
<1> HIDE DEF b
<1>5. b.write \in Results(net) /\ b.write \in applied /\ b.write \in 1..MaxWrites
      /\ b.write <= Len(issued)
  <2>1. Head(net.down) = net.down[1] /\ 1 \in 1..Len(net.down)
    BY <1>1, <1>2, TailParts DEF Net
  <2>2. net.down[1].batch.write = b.write
    BY <1>3, <2>1 DEF Result
  <2>3. b.write \in Results(net)
    BY <1>1, <1>2, <2>1, <2>2, InResults
  <2>4. QED
    BY <1>2, <1>4, <2>3 DEF Answers, Disk, Batch
<1>6. /\ told' \in [1..MaxWrites -> {"no", "ok", "failed"}]
      /\ \A w \in 1..MaxWrites : w # b.write => told'[w] = told[w]
      /\ \/ told' = told
         \/ told[b.write] = "no" /\ told' = [told EXCEPT ![b.write] = "ok"]
  BY <1>1, <1>4, TellParts
<1>7. /\ UNCHANGED <<user, queue, applied, issued>>
      /\ faults' \in 0..MaxFaults /\ unheard' = unheard \cup Results(net)
      /\ callbacks' = [u \in User |-> {}]
      /\ nextId' \in Nat \ {0}
      /\ \A u \in User : \A i \in 1..Len(queue[u]) : queue[u][i].id < nextId'
      /\ Good(net', queue[user]) /\ Results(net') = {} /\ net' \in Net
  <2>1. queue' \in [User -> Seq(Batch)] /\ InOrder(queue'[user])
    BY <1>1, <1>2 DEF TypeOK
  <2>2. QED
    BY <1>1, <2>1, RestartParts DEF Good, Fillable
<1>8. TypeOK'
  BY <1>1, <1>2, <1>5, <1>6, <1>7, InResults DEF TypeOK
<1>9. Disk'
  BY <1>2, <1>7 DEF Disk
<1>10. Unmade'
  <2>1. ASSUME NEW w \in 1..MaxWrites, w > Len(issued) PROVE told'[w] = "no"
    <3>1. Len(issued) \in Nat /\ b.write \in Nat
      BY <1>2, <1>5, LenProperties, PipelineAssumption DEF TypeOK, PipelineAssumption
    <3>2. w # b.write
      BY <1>5, <2>1, <3>1
    <3>3. QED
      BY <1>2, <1>6, <2>1, <3>2 DEF Unmade
  <2>2. QED
    BY <1>2, <1>7, <2>1 DEF Unmade
<1>11. Knowledge'
  <2> DEFINE Known(w) == told'[w] = "no" \/ (told'[w] = "ok" /\ w \in cut' /\ w \in applied')
  <2>1. ASSUME NEW w \in 1..MaxWrites, Unsettled(w) PROVE Known(w)
    <3>1. CASE w # b.write
      BY <1>1, <1>6, <1>7, <2>1, <3>1 DEF Unsettled
    <3>2. CASE w = b.write
      <4>1. told'[w] = told[w] \/ told'[w] = "ok"
        BY <1>1
      <4>2. w \in cut' /\ w \in applied'
        BY <1>1, <1>5, <1>7, <3>2
      <4>3. QED
        BY <2>1, <4>1, <4>2 DEF Unsettled
    <3>3. QED
      BY <3>1, <3>2
  <2>2. \A u \in User : \A i \in 1..Len(queue[u]) :
            Unsettled(queue[u][i].write) /\ queue[u][i].write \in 1..MaxWrites
    <3>1. \A u \in User : \A i \in 1..Len(queue[u]) : queue[u][i] \in Batch
      BY InvParts, ElementOfSeq
    <3>2. QED
      BY <1>2, <3>1 DEF Knowledge, Batch
  <2>3. \A u \in User : \A i \in 1..Len(queue[u]) : Known(queue[u][i].write)
    BY <2>1, <2>2
  <2>4. QED
    BY <1>7, <2>3 DEF Knowledge, Unsettled
<1>12. Answers'
  BY <1>2, <1>7 DEF Answers
<1>13. FailureHasCause'
  <2>1. ASSUME NEW w \in 1..MaxWrites, told'[w] = "failed" PROVE told[w] = "failed"
    BY <1>1, <2>1
  <2>2. QED
    BY <1>2, <1>7, <2>1 DEF FailureHasCause
<1>14. QED
  BY <1>7, <1>8, <1>9, <1>10, <1>11, <1>12, <1>13 DEF IInv, Ledger

\* The server applies the writes of the disk in their order.
LEMMA ApplyParts ==
    ASSUME IInv, ServerApplies
    PROVE  LET i == Len(net.down) + 1
               b == Head(net.up).batch
           IN  /\ i \in 1..Len(queue[user]) /\ i \in 1..MaxPendingWrites
               /\ b = queue[user][i] /\ b \in Batch
               /\ \A j \in 1..(i - 1) : queue[user][j].write \in applied
               /\ applied' = applied \cup {b.write}
               /\ UNCHANGED <<user, queue, nextId, callbacks, history, faults>>
               /\ Good(net', queue[user]) /\ net' \in Net
               /\ Results(net') = Results(net) \cup {b.write}
<1> DEFINE q == queue[user]
           b == Head(net.up).batch
           i == Len(net.down) + 1
<1>1. /\ net.up # <<>> /\ ~ Ended(net) /\ Head(net.up).kind = "write"
      /\ applied' = applied \cup {b.write}
      /\ net' = [net EXCEPT !.up = Tail(@), !.down = Append(@, Result(b))]
      /\ UNCHANGED <<user, queue, nextId, callbacks, history, faults>>
  BY DEF ServerApplies
<1>2. Good(net, q) /\ net \in Net /\ user \in User /\ q \in Seq(Batch) /\ Len(q) \in Nat
  BY InvParts
<1>3. /\ Good(net', q) /\ net'.down = Append(net.down, Result(b))
      /\ Len(net.down) \in Nat /\ i \in 1..Len(net.pipeline)
      /\ b = net.pipeline[i]
      /\ \A j \in 1..Len(net.down) : net.down[j] = Result(net.pipeline[j])
  BY <1>1, <1>2, AnsweredIsGood
<1>4. /\ Len(net.pipeline) \in Nat /\ Len(net.pipeline) <= Len(q)
      /\ Len(net.pipeline) <= MaxPendingWrites /\ MaxPendingWrites \in Nat
      /\ \A j \in 1..Len(net.pipeline) : net.pipeline[j] = q[j]
  BY <1>2, LenProperties, PipelineAssumption
     DEF Good, Fillable, Loaded, Prefix, Net, PipelineAssumption
<1> HIDE DEF b
<1>5. /\ i \in 1..Len(q) /\ i \in 1..MaxPendingWrites /\ b = q[i]
      /\ \A j \in 1..(i - 1) : j \in 1..Len(net.down) /\ j \in 1..Len(net.pipeline)
  BY <1>2, <1>3, <1>4
<1>6. b \in Batch
  BY <1>2, <1>5, ElementOfSeq
<1>7. ASSUME NEW j \in 1..(i - 1) PROVE q[j].write \in applied
  <2>1. net.down[j] = Result(q[j])
    BY <1>3, <1>4, <1>5
  <2>2. q[j].write \in Results(net)
    BY <1>2, <1>5, <2>1, InResults DEF Result
  <2>3. QED
    BY <2>2 DEF IInv, Ledger, Answers
<1>8. net' \in Net /\ Results(net') = Results(net) \cup {b.write}
  <2>1. net' \in Net
    BY <1>3 DEF Good, Fillable
  <2>2. Result(b) \in Message /\ Result(b).kind = "result" /\ Result(b).batch = b
    BY <1>6 DEF Result, Message
  <2>3. QED
    BY <1>2, <1>3, <2>1, <2>2, ResultsOfAppend
<1>9. QED
  BY <1>1, <1>3, <1>5, <1>6, <1>7, <1>8 DEF b

\* The server applies the writes of a user in the order of the queue.
LEMMA ApplyKeepsInv ==
    ASSUME IInv, ServerApplies
    PROVE  IInv'
<1> DEFINE q == queue[user]
           b == Head(net.up).batch
           i == Len(net.down) + 1
<1>1. /\ i \in 1..Len(q) /\ b = q[i] /\ b \in Batch
      /\ \A j \in 1..(i - 1) : q[j].write \in applied
      /\ applied' = applied \cup {b.write}
      /\ UNCHANGED <<user, queue, nextId, callbacks, history, faults>>
      /\ Good(net', q) /\ net' \in Net
      /\ Results(net') = Results(net) \cup {b.write}
  BY ApplyParts
<1> HIDE DEF b, i
<1>2. /\ TypeOK /\ Disk /\ Unmade /\ Knowledge /\ Answers /\ FailureHasCause
      /\ user \in User
  BY InvParts DEF IInv, Ledger
<1>3. UNCHANGED <<issued, told, unheard, cut>>
  BY <1>1 DEF history
<1>4. b.write \in 1..MaxWrites /\ b.write \in 1..Len(issued)
  <2>1. b.write \in 1..MaxWrites /\ b.write <= Len(issued)
    BY <1>1, <1>2 DEF Disk, Batch
  <2>2. Len(issued) \in Nat
    BY <1>2, LenProperties DEF TypeOK
  <2>3. QED
    BY <2>1, <2>2, PipelineAssumption DEF PipelineAssumption
<1>5. TypeOK'
  BY <1>1, <1>2, <1>3, <1>4 DEF TypeOK
<1>6. Disk'
  <2>1. ASSUME NEW u \in User, NEW k \in 1..Len(queue[u]), queue[u][k].write \in applied',
               NEW j \in 1..(k - 1)
        PROVE  queue[u][j].write \in applied'
    <3>1. CASE queue[u][k].write \in applied
      BY <1>1, <1>2, <3>1 DEF Disk
    <3>2. CASE queue[u][k].write = b.write
      <4>1. u = user /\ k = i
        BY <1>1, <1>2, <3>2, PlaceIsOwn
      <4>2. QED
        BY <1>1, <4>1
    <3>3. QED
      BY <1>1, <2>1, <3>1, <3>2
  <2>2. QED
    BY <1>1, <1>2, <1>3, <2>1 DEF Disk
<1>7. Unmade'
  BY <1>1, <1>2, <1>3, <1>4 DEF Unmade
<1>8. Knowledge'
  BY <1>1, <1>2, <1>3 DEF Knowledge, Unsettled
<1>9. Answers'
  BY <1>1, <1>2, <1>3 DEF Answers
<1>10. FailureHasCause'
  <2>1. told[b.write] # "failed"
    BY <1>1, <1>2 DEF Knowledge, Unsettled
  <2>2. QED
    BY <1>1, <1>2, <1>3, <2>1 DEF FailureHasCause
<1>11. QED
  BY <1>1, <1>5, <1>6, <1>7, <1>8, <1>9, <1>10 DEF IInv, Ledger

-----------------------------------------------------------------------------
(* The theorems *)

\* Every step keeps the invariant.
LEMMA NextKeepsInv ==
    ASSUME IInv, Next
    PROVE  IInv'
<1>1. CASE WriteMutations
  BY <1>1, WriteKeepsInv
<1>2. CASE StaleTokenAnswered \/ TokenAnswered \/ NoTokenAnswered \/ HandshakeRead
           \/ BackoffElapsed \/ ServerShakesHands \/ ServerRefuses
  BY <1>2, StreamStepKeepsInv
<1>3. CASE CallFailed \/ IdleTimeout \/ ConnectivityChanged \/ DisableNetwork
           \/ EnableNetworkAgain \/ ServerEndsCall
  BY <1>3, CallStepKeepsInv
<1>4. CASE ResultRead
  BY <1>4, ResultReadKeepsInv
<1>5. CASE RefusalRead \/ WriteOperationFailed \/ ResponseUnreadable
  BY <1>5, RejectedKeepsInv
<1>6. CASE \E u \in User : HandleCredentialChange(u)
  BY <1>6, CredentialStepKeepsInv
<1>7. CASE Relaunch \/ ServerEndsNeededCall
  BY <1>7, RelaunchKeepsInv DEF ServerEndsNeededCall
<1>8. CASE DiesBeforeRemoval \/ DiesAfterRejection
  BY <1>8, DyingKeepsInv, DyingRejectedKeepsInv
<1>9. CASE ServerApplies
  BY <1>9, ApplyKeepsInv
<1>10. QED
  BY <1>1, <1>2, <1>3, <1>4, <1>5, <1>6, <1>7, <1>8, <1>9 DEF Next

\* No step at all changes nothing.
LEMMA StutterKeepsInv ==
    ASSUME IInv, UNCHANGED vars
    PROVE  IInv'
<1>1. UNCHANGED <<user, queue, nextId, callbacks, net, applied, issued, told, unheard, cut, faults>>
  BY DEF vars
<1>2. TypeOK' /\ Good(net', queue'[user'])
  BY <1>1 DEF IInv, TypeOK
<1>3. Disk' /\ Unmade' /\ Knowledge' /\ Answers' /\ FailureHasCause'
  BY <1>1 DEF IInv, Ledger, Disk, Unmade, Knowledge, Unsettled, Answers, FailureHasCause
<1>4. QED
  BY <1>2, <1>3 DEF IInv, Ledger

\* The invariant the properties below are read off.
THEOREM Invariance == Spec => []IInv
<1>1. Init => IInv
  BY InitIsSound
<1>2. IInv /\ [Next]_vars => IInv'
  BY NextKeepsInv, StutterKeepsInv
<1>3. QED
  BY <1>1, <1>2, PTL DEF Spec

\* Every variable keeps its type: the streams and RemoteStore never take a batch
\* that is not one from an empty pipeline.
THEOREM TypeCorrect == Spec => []TypeOK
<1>1. IInv => TypeOK
  BY DEF IInv
<1>2. QED
  BY <1>1, Invariance, PTL

\* FillWritePipeline, the results, the rejections and the restarts keep the write
\* pipeline the beginning of the user's mutation queue.
THEOREM PipelineFollowsQueue == Spec => []PipelineIsPrefix
<1>1. ASSUME IInv PROVE PipelineIsPrefix
  <2>1. /\ Len(net.pipeline) <= MaxPendingWrites /\ Prefix(net.pipeline, queue[user])
        /\ DOMAIN net.pipeline = 1..Len(net.pipeline)
    BY <1>1, InvParts, LenProperties DEF Good, Fillable, Loaded, Net
  <2>2. QED
    BY <2>1 DEF PipelineIsPrefix, Prefix
<1>2. QED
  BY <1>1, Invariance, PTL

\* The k-th outstanding response is that of the k-th batch of the pipeline, so
\* OnWriteStreamMutationResult settles the write that was answered.
THEOREM ResponsesMatch == Spec => []ResponsesMatchPipeline
<1>1. ASSUME IInv PROVE ResponsesMatchPipeline
  <2> SUFFICES ASSUME net.handshaken PROVE ResponsesMatchPipeline
    BY DEF ResponsesMatchPipeline
  <2> DEFINE p == net.pipeline
             u == net.up
             d == net.down
  <2>1. /\ p \in Seq(Batch) /\ u \in Seq(Message) /\ d \in Seq(Message) /\ Transit(net)
        /\ InTransit(net) = d \o u
    BY <1>1, InvParts DEF Good, Fillable, Net, InTransit
  <2>2. /\ Len(d) + Len(u) = Len(p)
        /\ \A i \in 1..Len(d) : d[i].batch = p[i]
        /\ \A i \in 1..Len(u) : u[i].batch = p[Len(d) + i]
    <3>1. /\ Len(d) + Len(u) = Len(p)
          /\ \A i \in 1..Len(d) : d[i] = Result(p[i]) \/ (d[i] = Refusal(p[i]) /\ i = Len(d))
          /\ \A i \in 1..Len(u) : u[i] = Request(p[Len(d) + i])
      BY <2>1 DEF Transit
    <3> HIDE DEF p, u, d
    <3>2. \A b : Result(b).batch = b /\ Refusal(b).batch = b /\ Request(b).batch = b
      BY DEF Result, Refusal, Request
    <3>3. QED
      BY <3>1, <3>2
  <2>3. ResponsesMatchPipeline <=>
            /\ Len(InTransit(net)) = Len(p)
            /\ \A i \in DOMAIN p : InTransit(net)[i].batch = p[i]
    BY DEF ResponsesMatchPipeline
  <2> HIDE DEF p, u, d
  <2>4. /\ Len(d) \in Nat /\ Len(u) \in Nat /\ DOMAIN p = 1..Len(p)
        /\ Len(d \o u) = Len(d) + Len(u)
        /\ \A i \in 1..Len(d) : (d \o u)[i] = d[i]
        /\ \A i \in 1..Len(u) : (d \o u)[Len(d) + i] = u[i]
    BY <2>1, ConcatParts, LenProperties
  <2>5. ASSUME NEW i \in 1..(Len(d) + Len(u)) PROVE (d \o u)[i].batch = p[i]
    <3>1. CASE i <= Len(d)
      BY <2>2, <2>4, <3>1
    <3>2. CASE i > Len(d)
      <4>1. PICK k \in 1..Len(u) : i = Len(d) + k
        <5>1. i - Len(d) \in 1..Len(u) /\ i = Len(d) + (i - Len(d))
          BY <2>4, <3>2
        <5>2. QED
          BY <5>1
      <4>2. QED
        BY <2>2, <2>4, <4>1
    <3>3. QED
      BY <2>4, <3>1, <3>2
  <2>6. QED
    BY <2>1, <2>2, <2>3, <2>4, <2>5
<1>2. QED
  BY <1>1, Invariance, PTL

\* The idle timer never stops a stream that has writes to send, and no stream is
\* down while there are writes and a network.
THEOREM StreamIsThereWhenNeeded == Spec => []StreamIsNeeded
<1>1. ASSUME IInv PROVE StreamIsNeeded
  <2>1. Stream(net) /\ Filled(net, queue[user]) /\ net.pipeline \in Seq(Batch)
        /\ queue[user] \in Seq(Batch)
    BY <1>1, InvParts DEF Good, Fillable, Net
  <2>2. net.idle => net.state = "open" /\ net.pipeline = <<>>
    BY <2>1 DEF Stream
  <2>3. ASSUME queue[user] # <<>>, net.enabled PROVE Started(net) /\ net.pipeline # <<>>
    <3>1. Len(queue[user]) \in Nat \ {0} /\ Len(<<>>) = 0
      BY <2>1, <2>3, EmptySeq
    <3>2. Len(net.pipeline) # 0
      BY <2>1, <2>3, <3>1, PipelineAssumption DEF Filled, PipelineAssumption
    <3>3. net.pipeline # <<>>
      BY <3>1, <3>2
    <3>4. QED
      BY <2>1, <2>3, <3>3 DEF Filled
  <2>4. QED
    BY <2>2, <2>3 DEF StreamIsNeeded
<1>2. QED
  BY <1>1, Invariance, PTL

\* NotifyUser never calls the completion of another write, though batch ids are
\* given out again.
THEOREM CallbacksAreOwn == Spec => []CallbackIsForItsBatch
<1>1. ASSUME IInv PROVE CallbackIsForItsBatch
  <2>1. \A u \in User : DOMAIN queue[u] = 1..Len(queue[u])
    BY <1>1, InvParts, LenProperties
  <2>2. QED
    BY <1>1, <2>1 DEF IInv, Ledger, Knowledge, CallbackIsForItsBatch
<1>2. QED
  BY <1>1, Invariance, PTL

\* What the app was told has succeeded is not sent again, but by the relaunch
\* after a process that died between telling and removing.
THEOREM ToldOnce == Spec => []ToldIsNotResent
<1>1. ASSUME IInv PROVE ToldIsNotResent
  <2> SUFFICES ASSUME NEW i \in DOMAIN net.up, net.up[i].kind = "write"
               PROVE  \/ told[net.up[i].batch.write] = "no"
                      \/ net.up[i].batch.write \in cut
    BY DEF ToldIsNotResent
  <2> DEFINE p == net.pipeline
             u == net.up
             d == net.down
  <2>1. /\ Stream(net) /\ Transit(net) /\ p \in Seq(Batch) /\ u \in Seq(Message)
        /\ d \in Seq(Message) /\ Prefix(p, queue[user]) /\ Knowledge /\ user \in User
        /\ Len(queue[user]) \in Nat
    BY <1>1, InvParts DEF Good, Fillable, Loaded, Net, IInv, Ledger
  <2>2. i \in 1..Len(u) /\ u # <<>>
    BY <2>1, LenProperties, EmptySeq
  <2>3. net.handshaken
    <3> SUFFICES ASSUME ~ net.handshaken PROVE FALSE
      OBVIOUS
    <3>1. u = <<Handshake>>
      BY <2>1, <2>2 DEF Stream, Transit
    <3>2. u[i] = Handshake
      BY <2>2, <3>1
    <3>3. QED
      BY <3>2 DEF Handshake
  <2>4. Len(d) + Len(u) = Len(p) /\ u[i].batch = p[Len(d) + i]
    <3>1. Len(d) + Len(u) = Len(p) /\ u[i] = Request(p[Len(d) + i])
      BY <2>1, <2>2, <2>3 DEF Transit
    <3>2. Request(p[Len(d) + i]).batch = p[Len(d) + i]
      BY DEF Request
    <3>3. QED
      BY <3>1, <3>2
  <2>5. Len(d) \in Nat /\ Len(u) \in Nat /\ Len(p) \in Nat
    BY <2>1, LenProperties
  <2> HIDE DEF p, u, d
  <2>6. Len(d) + i \in 1..Len(p)
    BY <2>2, <2>4, <2>5
  <2>7. Len(d) + i \in 1..Len(queue[user]) /\ u[i].batch = queue[user][Len(d) + i]
    BY <2>1, <2>4, <2>5, <2>6 DEF Prefix
  <2>8. QED
    BY <2>1, <2>7 DEF Knowledge, Unsettled, u
<1>2. QED
  BY <1>1, Invariance, PTL

\* A write the app was told has failed is in the database only when its result was
\* lost with a call.
THEOREM FailuresHaveCause == Spec => []FailureHasCause
<1>1. IInv => FailureHasCause
  BY DEF IInv, Ledger
<1>2. QED
  BY <1>1, Invariance, PTL

-----------------------------------------------------------------------------
(* The client implements WriteQueue. *)

Writes(q) == [i \in DOMAIN q |-> q[i].write]

\* The writes of a queue, one for each batch.
LEMMA WritesFields ==
    ASSUME NEW q \in Seq(Batch)
    PROVE  /\ Writes(q) \in Seq(1..MaxWrites) /\ Len(Writes(q)) = Len(q)
           /\ \A i \in 1..Len(q) : Writes(q)[i] = q[i].write
<1>1. Len(q) \in Nat /\ DOMAIN q = 1..Len(q)
  BY LenProperties
<1>2. \A i \in 1..Len(q) : q[i].write \in 1..MaxWrites
  <2>1. \A i \in 1..Len(q) : q[i] \in Batch
    BY ElementOfSeq
  <2>2. QED
    BY <2>1 DEF Batch
<1>3. Writes(q) = [i \in 1..Len(q) |-> q[i].write]
  BY <1>1 DEF Writes
<1>4. QED
  BY <1>1, <1>2, <1>3, IsASeq

\* A batch behind the others is a write behind the others.
LEMMA WritesOfAppend ==
    ASSUME NEW q \in Seq(Batch), NEW b \in Batch
    PROVE  Writes(Append(q, b)) = Append(Writes(q), b.write)
<1> DEFINE a == Append(q, b)
           s == Writes(q)
           t == Append(s, b.write)
<1>1. /\ a \in Seq(Batch) /\ Len(a) = Len(q) + 1 /\ Len(q) \in Nat
      /\ \A i \in 1..Len(q) : a[i] = q[i]
      /\ a[Len(q) + 1] = b
  BY AppendProperties, LenProperties
<1>2. /\ s \in Seq(1..MaxWrites) /\ Len(s) = Len(q)
      /\ \A i \in 1..Len(q) : s[i] = q[i].write
  BY WritesFields
<1>3. b.write \in 1..MaxWrites
  BY DEF Batch
<1> HIDE DEF a, s
<1>4. /\ t \in Seq(1..MaxWrites) /\ Len(t) = Len(s) + 1
      /\ \A i \in 1..Len(s) : t[i] = s[i]
      /\ t[Len(s) + 1] = b.write
  BY <1>2, <1>3, AppendProperties
<1> HIDE DEF t
<1>5. /\ Writes(a) \in Seq(1..MaxWrites) /\ Len(Writes(a)) = Len(a)
      /\ \A i \in 1..Len(a) : Writes(a)[i] = a[i].write
  BY <1>1, WritesFields
<1>6. \A i \in 1..Len(a) : i \in 1..Len(q) \/ i = Len(q) + 1
  BY <1>1
<1>7. \A i \in 1..Len(Writes(a)) : Writes(a)[i] = t[i]
  BY <1>1, <1>2, <1>4, <1>5, <1>6
<1>8. Len(Writes(a)) = Len(t)
  BY <1>1, <1>2, <1>4, <1>5
<1>9. Writes(a) = t
  BY <1>4, <1>5, <1>7, <1>8, SeqEqual
<1>10. QED
  BY <1>9 DEF a, t, s

\* The oldest batch is the oldest write.
LEMMA WritesOfTail ==
    ASSUME NEW q \in Seq(Batch), q # <<>>
    PROVE  /\ Writes(q) # <<>> /\ Head(Writes(q)) = Head(q).write
           /\ Writes(Tail(q)) = Tail(Writes(q))
<1> DEFINE a == Tail(q)
           s == Writes(q)
           t == Tail(s)
<1>1. /\ Head(q) = q[1] /\ 1 \in 1..Len(q) /\ Len(q) \in Nat
      /\ a \in Seq(Batch) /\ Len(a) \in Nat /\ Len(q) = Len(a) + 1
      /\ \A i \in 1..Len(a) : i + 1 \in 1..Len(q) /\ a[i] = q[i + 1]
  BY TailParts, LenProperties
<1>2. /\ s \in Seq(1..MaxWrites) /\ Len(s) = Len(q)
      /\ \A i \in 1..Len(q) : s[i] = q[i].write
  BY WritesFields
<1>3. s # <<>>
  <2>1. Len(s) # 0
    BY <1>1, <1>2
  <2>2. QED
    BY <2>1, EmptySeq
<1> HIDE DEF a, s
<1>4. /\ Head(s) = s[1] /\ t \in Seq(1..MaxWrites) /\ Len(t) \in Nat /\ Len(s) = Len(t) + 1
      /\ \A i \in 1..Len(t) : t[i] = s[i + 1]
  BY <1>2, <1>3, TailParts
<1> HIDE DEF t
<1>5. /\ Writes(a) \in Seq(1..MaxWrites) /\ Len(Writes(a)) = Len(a)
      /\ \A i \in 1..Len(a) : Writes(a)[i] = a[i].write
  BY <1>1, WritesFields
<1>6. Len(a) = Len(t)
  BY <1>1, <1>2, <1>4
<1>7. \A i \in 1..Len(Writes(a)) : Writes(a)[i] = t[i]
  BY <1>1, <1>2, <1>4, <1>5, <1>6
<1>8. Writes(a) = t
  BY <1>4, <1>5, <1>6, <1>7, SeqEqual
<1>9. QED
  BY <1>1, <1>2, <1>3, <1>4, <1>8 DEF a, t, s

lines == [u \in User |-> Writes(queue[u])]

\* A settled batch leaves its line, and the app is told at most once.
LEMMA SettleIsSettled ==
    ASSUME IInv, net.pipeline # <<>>, NEW outcome \in {"ok", "failed"},
           NotifyUser(Head(net.pipeline), outcome) \/ told' = told, RemoveFromQueue,
           UNCHANGED <<user, applied>>,
           outcome = "ok" => Head(net.pipeline).write \in applied
    PROVE  Lines!Settle
<1> DEFINE q == queue[user]
           b == Head(net.pipeline)
<1>1. /\ q # <<>> /\ b = Head(q) /\ q \in Seq(Batch) /\ user \in User
      /\ queue \in [User -> Seq(Batch)]
  BY FrontIsFirst, InvParts DEF TypeOK
<1>2. \/ told' = told
      \/ told[b.write] = "no" /\ told' = [told EXCEPT ![b.write] = outcome]
  BY <1>1, NotifyParts DEF Heard
<1>3. queue' = [queue EXCEPT ![user] = Tail(@)]
  BY DEF RemoveFromQueue
<1>4. /\ Writes(q) # <<>> /\ Head(Writes(q)) = b.write
      /\ Writes(Tail(q)) = Tail(Writes(q))
  BY <1>1, WritesOfTail
<1>5. lines' = [lines EXCEPT ![user] = Tail(@)]
  <2>1. ASSUME NEW u \in User
        PROVE  Writes(queue'[u]) = IF u = user THEN Tail(Writes(queue[u])) ELSE Writes(queue[u])
    BY <1>1, <1>3, <1>4
  <2>2. lines' = [u \in User |-> Writes(queue'[u])]
    BY DEF lines
  <2>3. QED
    BY <2>1, <2>2 DEF lines
<1>6. lines[user] # <<>> /\ Head(lines[user]) = b.write
  BY <1>1, <1>4 DEF lines
<1> HIDE DEF b
<1>7. lines = [u \in User |-> [i \in DOMAIN queue[u] |-> queue[u][i].write]]
  BY DEF lines, Writes
<1>8. LET w == Head(lines[user]) IN
      /\ lines[user] # <<>>
      /\ (w \in applied /\ Lines!Tell(w, "ok")) \/ Lines!Tell(w, "failed")
      /\ lines' = [lines EXCEPT ![user] = Tail(@)]
      /\ UNCHANGED <<user, applied>>
  BY <1>2, <1>5, <1>6 DEF Lines!Tell, b
<1>9. QED
  BY <1>7, <1>8 DEF Lines!Settle, lines, Writes

\* WriteMutations issues a write nobody has heard of.
LEMMA WriteIsIssued ==
    ASSUME IInv, WriteMutations
    PROVE  Lines!Next
<1> PICK n : n = Len(issued) + 1
  OBVIOUS
<1> DEFINE b == [id |-> nextId, write |-> n]
<1>1. /\ Len(issued) < MaxWrites /\ queue' = [queue EXCEPT ![user] = Append(@, b)]
      /\ UNCHANGED <<user, applied, told>>
  BY DEF WriteMutations
<1>2. /\ Disk /\ Unmade /\ user \in User /\ nextId \in Nat \ {0}
      /\ queue \in [User -> Seq(Batch)] /\ queue[user] \in Seq(Batch)
  BY InvParts DEF IInv, Ledger, TypeOK
<1>3. n \in 1..MaxWrites /\ Len(issued) \in Nat
  BY <1>1, InvParts, LenProperties, PipelineAssumption DEF TypeOK, PipelineAssumption
<1>4. b \in Batch /\ b.write = n
  BY <1>2, <1>3 DEF Batch
<1>5. told[n] = "no" /\ n \notin applied
  BY <1>2, <1>3 DEF Unmade
<1> HIDE DEF b
<1>6. \A u \in User : \A i \in DOMAIN lines[u] : lines[u][i] # n
  <2> SUFFICES ASSUME NEW u \in User, NEW i \in DOMAIN lines[u] PROVE lines[u][i] # n
    OBVIOUS
  <2>1. i \in 1..Len(queue[u]) /\ lines[u][i] = queue[u][i].write
    BY InvParts, LenProperties DEF lines, Writes
  <2>2. queue[u][i].write <= Len(issued) /\ queue[u][i] \in Batch
    BY <1>2, <2>1, InvParts, ElementOfSeq DEF Disk
  <2>3. queue[u][i].write \in Nat
    BY <2>2, PipelineAssumption DEF Batch, PipelineAssumption
  <2>4. QED
    BY <1>3, <2>1, <2>2, <2>3
<1>7. lines' = [lines EXCEPT ![user] = Append(@, n)]
  <2>1. Writes(Append(queue[user], b)) = Append(Writes(queue[user]), n)
    BY <1>2, <1>4, WritesOfAppend
  <2>2. ASSUME NEW u \in User
        PROVE  Writes(queue'[u]) =
                   IF u = user THEN Append(Writes(queue[u]), n) ELSE Writes(queue[u])
    BY <1>1, <1>2, <2>1
  <2>3. lines' = [u \in User |-> Writes(queue'[u])]
    BY DEF lines
  <2>4. QED
    BY <2>2, <2>3 DEF lines
<1>8. lines = [u \in User |-> [i \in DOMAIN queue[u] |-> queue[u][i].write]]
  BY DEF lines, Writes
<1>9. Lines!Issue(n)
  BY <1>1, <1>5, <1>6, <1>7, <1>8 DEF Lines!Issue, lines, Writes
<1>10. QED
  BY <1>3, <1>9 DEF Lines!Next

\* Reading a result settles the oldest write of the line.
LEMMA ResultReadIsSettled ==
    ASSUME IInv, ResultRead
    PROVE  Lines!Settle
<1>1. /\ NotifyUser(Head(net.pipeline), "ok") /\ RemoveFromQueue /\ UNCHANGED <<user, applied>>
      /\ net.down # <<>> /\ net.handshaken /\ Head(net.down).kind = "result"
  BY DEF ResultRead, ResultIsDue
<1>2. net.pipeline # <<>> /\ Head(net.down) = Result(Head(net.pipeline))
  BY <1>1, InvParts, ResultReadIsGood
<1>3. Head(net.pipeline).write \in applied
  <2>1. Head(net.down) = net.down[1] /\ 1 \in 1..Len(net.down) /\ net \in Net
    BY <1>1, InvParts, TailParts DEF Net
  <2>2. net.down[1].batch.write = Head(net.pipeline).write
    BY <1>2, <2>1 DEF Result
  <2>3. Head(net.pipeline).write \in Results(net)
    BY <1>1, <2>1, <2>2, InResults
  <2>4. QED
    BY <2>3 DEF IInv, Ledger, Answers
<1>4. QED
  BY <1>1, <1>2, <1>3, SettleIsSettled

\* An error blamed on the oldest write does, too, even if nobody is told.
LEMMA RejectedIsSettled ==
    ASSUME IInv, \/ RefusalRead \/ WriteOperationFailed \/ ResponseUnreadable
                 \/ DiesAfterRejection
    PROVE  Lines!Settle
<1>1. /\ NotifyUser(Head(net.pipeline), "failed") \/ told' = told
      /\ RemoveFromQueue /\ UNCHANGED <<user, applied>> /\ net.pipeline # <<>>
  <2>1. CASE RefusalRead \/ WriteOperationFailed \/ ResponseUnreadable
    BY <2>1, RejectedParts DEF FrontBlamed
  <2>2. CASE DiesAfterRejection
    BY <2>2, BlamedIsSent DEF DiesAfterRejection, Restarts
  <2>3. QED
    BY <2>1, <2>2
<1>2. QED
  BY <1>1, SettleIsSettled

\* The process dies between telling and removing.
LEMMA DyingIsToldTooEarly ==
    ASSUME IInv, DiesBeforeRemoval
    PROVE  Lines!ToldTooEarly
<1> DEFINE q == queue[user]
           b == Head(net.pipeline)
<1>1. /\ net.down # <<>> /\ net.handshaken /\ Head(net.down).kind = "result"
      /\ UNCHANGED <<user, queue, applied>>
      /\ told' = [w \in 1..MaxWrites |-> told'[w]]
      /\ \A w \in 1..MaxWrites :
             told'[w] = IF \E c \in callbacks[user] : c.id = b.id /\ c.write = w
                        THEN "ok" ELSE told[w]
  BY DEF DiesBeforeRemoval, ResultIsDue, Restarts
<1>2. net.pipeline # <<>> /\ Head(net.down) = Result(b) /\ net \in Net
  BY <1>1, InvParts, ResultReadIsGood
<1>3. q # <<>> /\ b = Head(q) /\ q \in Seq(Batch) /\ user \in User
  BY <1>2, InvParts, FrontIsFirst
<1> HIDE DEF b
<1>4. b.write \in applied
  <2>1. Head(net.down) = net.down[1] /\ 1 \in 1..Len(net.down)
    BY <1>1, <1>2, TailParts DEF Net
  <2>2. net.down[1].batch.write = b.write
    BY <1>2, <2>1 DEF Result
  <2>3. b.write \in Results(net)
    BY <1>1, <1>2, <2>1, <2>2, InResults
  <2>4. QED
    BY <2>3 DEF IInv, Ledger, Answers
<1>5. \/ told' = told
      \/ told[b.write] = "no" /\ told' = [told EXCEPT ![b.write] = "ok"]
  BY <1>1, <1>3, TellParts
<1>6. lines[user] # <<>> /\ Head(lines[user]) = b.write
  BY <1>3, WritesOfTail DEF lines
<1>7. UNCHANGED lines
  BY <1>1 DEF lines
<1>8. LET w == Head(lines[user]) IN
      /\ lines[user] # <<>> /\ w \in applied /\ Lines!Tell(w, "ok")
      /\ UNCHANGED <<user, lines, applied>>
  BY <1>1, <1>4, <1>5, <1>6, <1>7 DEF Lines!Tell
<1>9. QED
  BY <1>8 DEF Lines!ToldTooEarly, lines, Writes

\* What the server applies is a write that is in line.
LEMMA AppliedIsApplied ==
    ASSUME IInv, ServerApplies
    PROVE  \E i \in DOMAIN lines[user] : Lines!Apply(i)
<1> DEFINE q == queue[user]
           b == Head(net.up).batch
           i == Len(net.down) + 1
<1>1. /\ i \in 1..Len(q) /\ b = q[i]
      /\ \A j \in 1..(i - 1) : q[j].write \in applied
      /\ applied' = applied \cup {b.write}
      /\ UNCHANGED <<user, queue, told>>
  BY ApplyParts DEF history
<1>2. q \in Seq(Batch) /\ Len(q) \in Nat /\ user \in User
  BY InvParts
<1> HIDE DEF b, i
<1>3. /\ lines[user] = Writes(q) /\ DOMAIN lines[user] = 1..Len(q)
      /\ \A j \in 1..Len(q) : lines[user][j] = q[j].write
  BY <1>2, LenProperties DEF lines, Writes
<1>4. \A j \in 1..(i - 1) : lines[user][j] \in applied
  BY <1>1, <1>2, <1>3
<1>5. UNCHANGED lines
  BY <1>1 DEF lines
<1>6. /\ i \in DOMAIN lines[user]
      /\ \A j \in 1..(i - 1) : lines[user][j] \in applied
      /\ applied' = applied \cup {lines[user][i]}
      /\ UNCHANGED <<user, lines, told>>
  BY <1>1, <1>3, <1>4, <1>5
<1>7. Lines!Apply(i)
  BY <1>6 DEF Lines!Apply, lines, Writes
<1>8. QED
  BY <1>6, <1>7

\* Every step is one of the abstract queue, or changes nothing of it.
LEMMA NextIsPromised ==
    ASSUME IInv, [Next]_vars
    PROVE  Lines!Next \/ UNCHANGED <<user, lines, applied, told>>
<1>1. CASE WriteMutations
  BY <1>1, WriteIsIssued
<1>2. CASE ResultRead
  BY <1>2, ResultReadIsSettled DEF Lines!Next
<1>3. CASE RefusalRead \/ WriteOperationFailed \/ ResponseUnreadable \/ DiesAfterRejection
  BY <1>3, RejectedIsSettled DEF Lines!Next
<1>4. CASE DiesBeforeRemoval
  BY <1>4, DyingIsToldTooEarly DEF Lines!Next
<1>5. CASE ServerApplies
  <2>1. PICK i \in DOMAIN lines[user] : Lines!Apply(i)
    BY <1>5, AppliedIsApplied
  <2>2. QED
    BY <2>1 DEF Lines!Next, lines, Writes
<1>6. CASE \E u \in User : HandleCredentialChange(u)
  <2>1. PICK u \in User : HandleCredentialChange(u)
    BY <1>6
  <2>2. user' = u /\ UNCHANGED <<lines, applied, told>>
    BY <2>1 DEF HandleCredentialChange, lines
  <2>3. Lines!Switch(u)
    BY <2>2 DEF Lines!Switch, lines, Writes
  <2>4. QED
    BY <2>3 DEF Lines!Next
<1>7. CASE \/ StaleTokenAnswered \/ TokenAnswered \/ NoTokenAnswered \/ HandshakeRead
           \/ CallFailed \/ BackoffElapsed \/ IdleTimeout
           \/ ConnectivityChanged \/ DisableNetwork \/ EnableNetworkAgain
           \/ Relaunch \/ ServerEndsCall \/ ServerEndsNeededCall
           \/ ServerShakesHands \/ ServerRefuses \/ UNCHANGED vars
  <2>1. UNCHANGED <<user, queue, applied, told>>
    BY <1>7
       DEF StaleTokenAnswered, TokenAnswered, NoTokenAnswered, HandshakeRead, CallFailed,
           BackoffElapsed, IdleTimeout, ConnectivityChanged, DisableNetwork,
           EnableNetworkAgain, Relaunch, Restarts, ServerEndsCall,
           ServerEndsNeededCall, ServerShakesHands, ServerRefuses,
           history, vars
  <2>2. QED
    BY <2>1 DEF lines
<1>8. QED
  BY <1>1, <1>2, <1>3, <1>4, <1>5, <1>6, <1>7 DEF Next

\* The client starts where the abstract queue starts.
LEMMA InitIsPromised ==
    ASSUME Init
    PROVE  Lines!Init
<1>1. \A u \in User : [i \in DOMAIN queue[u] |-> queue[u][i].write] = <<>>
  <2>1. \A u \in User : queue[u] = <<>> /\ <<>> \in Seq(Batch)
    BY EmptySeq DEF Init
  <2>2. Writes(<<>>) = <<>>
    <3>1. <<>> \in Seq(Batch) /\ Len(<<>>) = 0
      BY EmptySeq
    <3>2. Writes(<<>>) \in Seq(1..MaxWrites) /\ Len(Writes(<<>>)) = 0
      BY <3>1, WritesFields
    <3>3. QED
      BY <3>2, EmptySeq
  <2>3. QED
    BY <2>1, <2>2 DEF Writes
<1>2. QED
  BY <1>1 DEF Init, Lines!Init

\* Whatever happens to the stream, the network, the user and the process, the app,
\* the server and the disk only do what WriteQueue allows.
THEOREM Refinement == Spec => ImplementsWriteQueue
<1>1. Init => Lines!Init
  BY InitIsPromised
<1>2. IInv /\ [Next]_vars => [Lines!Next]_(Lines!vars)
  BY NextIsPromised DEF Lines!vars, lines, Writes
<1>3. QED
  BY <1>1, <1>2, Invariance, PTL DEF Spec, ImplementsWriteQueue, Lines!Spec
=============================================================================
