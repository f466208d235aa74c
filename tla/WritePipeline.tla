---------------------------- MODULE WritePipeline ----------------------------
(***************************************************************************)
(* How a write of the app reaches the server: the write half of the         *)
(* Firestore client in Pods/FirebaseFirestore.  SyncEngine::WriteMutations  *)
(* puts the write into the mutation queue of the current user on disk and   *)
(* remembers its completion; RemoteStore keeps the oldest batches of that   *)
(* queue in its write pipeline and sends them over a WriteStream; a result  *)
(* or an error that the stream delivers settles the front of the pipeline,  *)
(* for a response names no batch.                                           *)
(*                                                                         *)
(* Every action is one operation on the client's worker queue, which runs   *)
(* one at a time, a step of the server, or the end of the process.          *)
(* RemoteStore, WriteStream and the gRPC call under it are one record, net, *)
(* and their methods are functions on such records.                         *)
(***************************************************************************)
EXTENDS Naturals, Sequences

CONSTANTS
    User,             \* users who sign in on this device
    MaxPendingWrites, \* kMaxPendingWrites
    MaxWrites,        \* bound: writes the app makes
    MaxFaults         \* bound: failures, restarts, switches of the network or the user

ASSUME PipelineAssumption ==
    /\ MaxPendingWrites \in Nat \ {0}
    /\ MaxWrites \in Nat
    /\ MaxFaults \in Nat

VARIABLES
    user,       \* SyncEngine::current_user_, and whose mutation queue is open
    queue,      \* mutation queues on disk
    nextId,     \* next_batch_id_
    callbacks,  \* mutation_callbacks_: the batch each completion was given for
    net,        \* RemoteStore's write half, its stream and the call
    applied,    \* the writes the server has applied
    issued,     \* history: who made each write; a write is its place here
    told,       \* history: what the completion of each write was called with
    unheard,    \* history: writes whose result was on its way when a call ended
    cut,        \* history: writes acknowledged by a process that died before
                \*          it had removed them from disk
    faults      \* faults used

history == <<issued, told, unheard, cut>>
vars == <<user, queue, nextId, callbacks, net, applied, issued, told, unheard,
          cut, faults>>

-----------------------------------------------------------------------------
(* Data *)

\* A mutation batch: its id on disk and the write of the app it is.
Batch == [id : Nat \ {0}, write : 1..MaxWrites]

NoBatch == [id |-> 0, write |-> 0]

\* What travels on the call.  The batch of a response is history: the client
\* does not see it.
Handshake  == [kind |-> "handshake", batch |-> NoBatch]
Request(b) == [kind |-> "write", batch |-> b]
Result(b)  == [kind |-> "result", batch |-> b]
Refusal(b) == [kind |-> "refusal", batch |-> b]

Message == {Handshake} \cup [kind : {"write", "result", "refusal"}, batch : Batch]

Requests(p) == [i \in DOMAIN p |-> Request(p[i])]

Net == [enabled    : BOOLEAN,      \* is_network_enabled_
        pipeline   : Seq(Batch),   \* write_pipeline_
        state      : {"initial", "starting", "open", "error", "backoff"},
        handshaken : BOOLEAN,      \* handshake_complete_
        idle       : BOOLEAN,      \* the idle timer is running
        asking     : SUBSET {"current", "stale"},  \* GetToken under way, and
                                   \* whether the stream was closed since
        up         : Seq(Message), \* requests the server has not taken
        down       : Seq(Message)] \* responses the client has not read

FreshNet == [enabled |-> FALSE, pipeline |-> <<>>, state |-> "initial",
             handshaken |-> FALSE, idle |-> FALSE, asking |-> {},
             up |-> <<>>, down |-> <<>>]

\* The writes whose result is on its way to the client.
Results(r) == {r.down[i].batch.write : i \in {j \in DOMAIN r.down : r.down[j].kind = "result"}}

\* The server has ended the call: the refusal is its last message.
Ended(r) == \E i \in DOMAIN r.down : r.down[i].kind = "refusal"

\* Every batch id on disk, whoever it belongs to, is below n, and n is least.
NextBatchId(n, q) ==
    LET ids == UNION {{q[u][i].id : i \in DOMAIN q[u]} : u \in User}
    IN  /\ \A k \in ids : k < n
        /\ n = 1 \/ n - 1 \in ids

-----------------------------------------------------------------------------
(* Stream and RemoteStore *)

Started(r) == r.state \in {"starting", "open", "backoff"}

\* Mutant: the backoff timer is not set.
StartWithoutBackoff(r) ==
    IF r.state = "error" THEN r
    ELSE [r EXCEPT !.state = "starting", !.asking = @ \cup {"current"}]

\* Stream::Start.
Start(r) ==
    IF r.state = "error" THEN [r EXCEPT !.state = "backoff"]
    ELSE [r EXCEPT !.state = "starting", !.asking = @ \cup {"current"}]

StartIfNeeded(r) ==
    IF r.enabled /\ ~ Started(r) /\ r.pipeline # <<>> THEN Start(r) ELSE r

LastId(p) == IF p = <<>> THEN 0 ELSE p[Len(p)].id

\* Mutants: the batch of that id is found again; the next one is passed over.
FirstFrom(q, last) ==
    CHOOSE k \in 1..(Len(q) + 1) :
        /\ \A i \in 1..(k - 1) : q[i].id < last
        /\ k <= Len(q) => q[k].id >= last
FirstButOneAfter(q, last) ==
    CHOOSE k \in 1..(Len(q) + 1) :
        /\ \A i \in 1..(k - 1) : q[i].id <= last + 1
        /\ k <= Len(q) => q[k].id > last + 1

\* Where the batches after batch id last begin in q.
FirstAfter(q, last) ==
    CHOOSE k \in 1..(Len(q) + 1) :
        /\ \A i \in 1..(k - 1) : q[i].id <= last
        /\ k <= Len(q) => q[k].id > last

\* The batches that follow the pipeline in the mutation queue, as far as there
\* is room for them.
Following(p, q) ==
    LET k == FirstAfter(q, LastId(p))
        room == k + MaxPendingWrites - Len(p) - 1
    IN  SubSeq(q, k, IF room < Len(q) THEN room ELSE Len(q))

\* Mutant: sending does not cancel the idle timer.
FillWhileIdle(r, q) ==
    LET more == IF r.enabled THEN Following(r.pipeline, q) ELSE <<>>
        sends == r.state = "open" /\ r.handshaken /\ more # <<>>
        idles == r.state = "open" /\ r.enabled /\ more = <<>> /\ r.pipeline = <<>>
    IN  StartIfNeeded(
          [r EXCEPT !.pipeline = @ \o more,
                    !.up = IF sends THEN @ \o Requests(more) ELSE @,
                    !.idle = @ \/ idles])

\* FillWritePipeline: an open stream is sent what is added, or is marked idle
\* when there is nothing at all; a stream that is needed is started.
FillWritePipeline(r, q) ==
    LET more == IF r.enabled THEN Following(r.pipeline, q) ELSE <<>>
        sends == r.state = "open" /\ r.handshaken /\ more # <<>>
        idles == r.state = "open" /\ r.enabled /\ more = <<>> /\ r.pipeline = <<>>
    IN  StartIfNeeded(
          [r EXCEPT !.pipeline = @ \o more,
                    !.up = IF sends THEN @ \o Requests(more) ELSE @,
                    !.idle = (@ /\ ~ sends) \/ idles])

\* Mutant: the new stream believes it has shaken hands.
ClosedStillShaken(r, state) ==
    [r EXCEPT !.state = state, !.idle = FALSE,
              !.asking = IF @ = {} THEN {} ELSE {"stale"},
              !.up = <<>>, !.down = <<>>]

\* Stream::Close and the end of NotifyStreamClose: timers are cancelled, the
\* call is gone with all it carried, an answer of GetToken will be ignored.
Closed(r, state) ==
    [r EXCEPT !.state = state, !.handshaken = FALSE, !.idle = FALSE,
              !.asking = IF @ = {} THEN {} ELSE {"stale"},
              !.up = <<>>, !.down = <<>>]

\* Stream::Stop, which OnWriteStreamClose may follow with a start.
Stop(r) == IF Started(r) THEN StartIfNeeded(Closed(r, "initial")) ELSE r

\* An error that is not, or cannot be, blamed on a write.
Fail(r) == StartIfNeeded(Closed(r, "error"))

\* A permanent error after the handshake: HandleWriteError drops the front of
\* the pipeline and inhibits backoff.
Blame(r, q) ==
    FillWritePipeline([Closed(r, "initial") EXCEPT !.pipeline = Tail(@)], q)

DisableNetworkInternal(r) ==
    [Stop([r EXCEPT !.enabled = FALSE]) EXCEPT !.pipeline = <<>>]

EnableNetwork(r, q) == FillWritePipeline([r EXCEPT !.enabled = TRUE], q)

\* RestartNetwork inhibits the backoff of a stream that had failed.
RestartNetwork(r, q) ==
    EnableNetwork([DisableNetworkInternal(r) EXCEPT !.state = "initial"], q)

-----------------------------------------------------------------------------
(* Writes of the app *)

\* std::unordered_map::insert leaves an entry alone that is there already.
Registered(cbs, b) == IF \E c \in cbs : c.id = b.id THEN cbs ELSE cbs \cup {b}

\* SyncEngine::WriteMutations.
WriteMutations ==
    LET b == [id |-> nextId, write |-> Len(issued) + 1] IN
    /\ Len(issued) < MaxWrites
    /\ issued' = Append(issued, user)
    /\ queue' = [queue EXCEPT ![user] = Append(@, b)]
    /\ nextId' = nextId + 1
    /\ callbacks' = [callbacks EXCEPT ![user] = Registered(@, b)]
    /\ net' = FillWritePipeline(net, queue'[user])
    /\ UNCHANGED <<user, applied, told, unheard, cut, faults>>

\* Mutant: the completion is called and kept.
NotifyUserAndKeep(b, outcome) ==
    LET called == {c \in callbacks[user] : c.id = b.id} IN
    /\ told' = [w \in 1..MaxWrites |->
                  IF \E c \in called : c.write = w THEN outcome ELSE told[w]]
    /\ UNCHANGED callbacks

\* NotifyUser: the completion kept for the batch id is called and forgotten.
NotifyUser(b, outcome) ==
    LET called == {c \in callbacks[user] : c.id = b.id} IN
    /\ told' = [w \in 1..MaxWrites |->
                  IF \E c \in called : c.write = w THEN outcome ELSE told[w]]
    /\ callbacks' = [callbacks EXCEPT ![user] = @ \ called]

\* Mutant: an acknowledged batch stays on disk.
LeaveInQueue == UNCHANGED queue

\* RemoveMutationBatch: the batch that is settled is the queue's first.
RemoveFromQueue == queue' = [queue EXCEPT ![user] = Tail(@)]

-----------------------------------------------------------------------------
(* The stream *)

\* An answer of GetToken that comes after the stream was closed is ignored.
StaleTokenAnswered ==
    /\ "stale" \in net.asking
    /\ net' = [net EXCEPT !.asking = @ \ {"stale"}]
    /\ UNCHANGED <<user, queue, nextId, callbacks, applied, history, faults>>

\* ResumeStartWithCredentials: gRPC starts the call at once, and the stream
\* sends its handshake.
TokenAnswered ==
    /\ "current" \in net.asking
    /\ net' = [net EXCEPT !.asking = @ \ {"current"},
                          !.state = "open", !.up = <<Handshake>>]
    /\ UNCHANGED <<user, queue, nextId, callbacks, applied, history, faults>>

NoTokenAnswered ==
    /\ "current" \in net.asking
    /\ faults < MaxFaults
    /\ faults' = faults + 1
    /\ net' = Fail([net EXCEPT !.asking = @ \ {"current"}])
    /\ UNCHANGED <<user, queue, nextId, callbacks, applied, history>>

\* Mutant: the front of the pipeline is taken to be sent already.
HandshakeReadSendsRest ==
    /\ net.down # <<>> /\ ~ net.handshaken
    /\ net' = [net EXCEPT !.handshaken = TRUE,
                          !.down = Tail(@),
                          !.up = @ \o Requests(Tail(net.pipeline)),
                          !.idle = @ /\ net.pipeline = <<>>]
    /\ UNCHANGED <<user, queue, nextId, callbacks, applied, history, faults>>

\* The first response completes the handshake; the pipeline is sent.
HandshakeRead ==
    /\ net.down # <<>> /\ ~ net.handshaken
    /\ net' = [net EXCEPT !.handshaken = TRUE,
                          !.down = Tail(@),
                          !.up = @ \o Requests(net.pipeline),
                          !.idle = @ /\ net.pipeline = <<>>]
    /\ UNCHANGED <<user, queue, nextId, callbacks, applied, history, faults>>

ResultIsDue == net.down # <<>> /\ net.handshaken /\ Head(net.down).kind = "result"

\* OnWriteStreamMutationResult: any later response is that of the front.
ResultRead ==
    /\ ResultIsDue
    /\ NotifyUser(Head(net.pipeline), "ok")
    /\ RemoveFromQueue
    /\ net' = FillWritePipeline(
                [net EXCEPT !.pipeline = Tail(@), !.down = Tail(@)], queue'[user])
    /\ UNCHANGED <<user, nextId, applied, issued, unheard, cut, faults>>

\* The call ends with the permanent error of the server: HandleWriteError and
\* HandleRejectedWrite blame the front of the pipeline.
FrontBlamed ==
    /\ RemoveFromQueue
    /\ NotifyUser(Head(net.pipeline), "failed")
    /\ net' = Blame(net, queue'[user])
    /\ unheard' = unheard \cup Results(net)
    /\ UNCHANGED <<user, nextId, applied, issued, cut>>

FrontRejected == FrontBlamed /\ UNCHANGED faults

\* The error comes after the responses the server had sent, or it comes to light
\* in an outstanding write of the call: GrpcStream::OnOperationFailed cancels the
\* reads that are waiting their turn.
EndIsRead == net.down # <<>> /\ Head(net.down).kind = "refusal"
WriteFails == Ended(net) /\ net.up # <<>>

RefusalRead == EndIsRead /\ FrontRejected
WriteOperationFailed == WriteFails /\ FrontRejected

\* NotifyStreamResponse cannot parse a response: OnStreamRead ends the call with
\* that error, which is a permanent one.  The write has been applied all the same.
ResponseUnreadable ==
    /\ faults < MaxFaults
    /\ faults' = faults + 1
    /\ ResultIsDue
    /\ FrontBlamed

\* A transient error, or any error before the handshake, an unreadable response
\* to the handshake among them.
CallFailed ==
    /\ net.state = "open"
    /\ faults < MaxFaults
    /\ faults' = faults + 1
    /\ net' = Fail(net)
    /\ unheard' = unheard \cup Results(net)
    /\ UNCHANGED <<user, queue, nextId, callbacks, applied, issued, told, cut>>

\* BackoffAndTryRestarting.
BackoffElapsed ==
    /\ net.state = "backoff"
    /\ net' = Start([net EXCEPT !.state = "initial"])
    /\ UNCHANGED <<user, queue, nextId, callbacks, applied, history, faults>>

\* The idle timer stops the stream.
IdleTimeout ==
    /\ net.idle
    /\ net' = Stop(net)
    /\ unheard' = unheard \cup Results(net)
    /\ UNCHANGED <<user, queue, nextId, callbacks, applied, issued, told, cut, faults>>

-----------------------------------------------------------------------------
(* Network, user and process *)

\* The operations below end the call, if there is one.
NewNet(r) == net' = r /\ unheard' = unheard \cup Results(net)

Mishap == faults < MaxFaults /\ faults' = faults + 1

\* The connectivity monitor reports a usable network.
ConnectivityChanged ==
    /\ Mishap
    /\ net.enabled
    /\ NewNet(RestartNetwork(net, queue[user]))
    /\ UNCHANGED <<user, queue, nextId, callbacks, applied, issued, told, cut>>

DisableNetwork ==
    /\ Mishap
    /\ NewNet(DisableNetworkInternal(net))
    /\ UNCHANGED <<user, queue, nextId, callbacks, applied, issued, told, cut>>

EnableNetworkAgain ==
    /\ net' = EnableNetwork(net, queue[user])
    /\ UNCHANGED <<user, queue, nextId, callbacks, applied, history, faults>>

\* Mutant: the highest id on disk is given out again.
OpenQueueAtHighest(q) ==
    \E n \in 1..(Len(issued) + 1) : NextBatchId(n, q) /\ nextId' = n - 1

\* LevelDbMutationQueue::Start on the queues q, for any user whose queue is opened.
OpenQueue(q) == \E n \in 1..(Len(issued) + 1) : NextBatchId(n, q) /\ nextId' = n

\* SyncEngine::HandleCredentialChange: another user's queue is opened, or the
\* token of this one was renewed; either way the streams are restarted.
HandleCredentialChange(u) ==
    /\ Mishap
    /\ user' = u
    /\ IF u = user THEN UNCHANGED nextId ELSE OpenQueue(queue)
    /\ NewNet(IF net.enabled THEN RestartNetwork(net, queue[u]) ELSE net)
    /\ UNCHANGED <<queue, callbacks, applied, issued, told, cut>>

\* The process starts anew on the queues it finds on disk: Initialize opens the
\* queue of the signed-in user and enables the network.
Restarts ==
    /\ Mishap
    /\ OpenQueue(queue')
    /\ callbacks' = [u \in User |-> {}]
    /\ NewNet(EnableNetwork(FreshNet, queue'[user]))
    /\ UNCHANGED <<user, applied, issued>>

Relaunch == UNCHANGED queue /\ Restarts /\ UNCHANGED <<told, cut>>

\* HandleSuccessfulWrite notifies the user before AcknowledgeBatch removes the
\* batch: the process can die in between.
DiesBeforeRemoval ==
    LET b == Head(net.pipeline) IN
    /\ ResultIsDue
    /\ UNCHANGED queue
    /\ Restarts
    /\ told' = [w \in 1..MaxWrites |->
                  IF \E c \in callbacks[user] : c.id = b.id /\ c.write = w
                  THEN "ok" ELSE told[w]]
    /\ cut' = cut \cup {b.write}

\* HandleRejectedWrite has it the other way round: RejectBatch removes the batch,
\* then the user is notified.  Nobody is told when the process dies in between.
DiesAfterRejection ==
    /\ EndIsRead \/ WriteFails \/ ResultIsDue
    /\ RemoveFromQueue
    /\ Restarts
    /\ UNCHANGED <<told, cut>>

\* The server ends the call with the status OK; the client sees it when there is
\* nothing left to read, or in an outstanding write.  OnWriteStreamClose takes it
\* for a stop of its own and asserts that the stream is not needed any more.
EndsWell ==
    /\ net.state = "open" /\ ~ Ended(net)
    /\ net.down = <<>> \/ net.up # <<>>

ServerEndsCall ==
    /\ EndsWell
    /\ net.pipeline = <<>>
    /\ Mishap
    /\ NewNet(Stop(net))
    /\ UNCHANGED <<user, queue, nextId, callbacks, applied, issued, told, cut>>

ServerEndsNeededCall ==
    /\ EndsWell
    /\ net.pipeline # <<>>
    /\ Relaunch

-----------------------------------------------------------------------------
(* The server answers the requests of a call in their order. *)

ServerShakesHands ==
    /\ net.up # <<>> /\ ~ Ended(net)
    /\ Head(net.up) = Handshake
    /\ net' = [net EXCEPT !.up = Tail(@), !.down = Append(@, Handshake)]
    /\ UNCHANGED <<user, queue, nextId, callbacks, applied, history, faults>>

ServerApplies ==
    LET b == Head(net.up).batch IN
    /\ net.up # <<>> /\ ~ Ended(net)
    /\ Head(net.up).kind = "write"
    /\ applied' = applied \cup {b.write}
    /\ net' = [net EXCEPT !.up = Tail(@), !.down = Append(@, Result(b))]
    /\ UNCHANGED <<user, queue, nextId, callbacks, history, faults>>

\* It refuses the write for good and ends the call; what follows is ignored.
ServerRefuses ==
    LET b == Head(net.up).batch IN
    /\ net.up # <<>> /\ ~ Ended(net)
    /\ Head(net.up).kind = "write"
    /\ Mishap
    /\ net' = [net EXCEPT !.up = Tail(@), !.down = Append(@, Refusal(b))]
    /\ UNCHANGED <<user, queue, nextId, callbacks, applied, history>>

-----------------------------------------------------------------------------
Init ==
    /\ user \in User
    /\ queue = [u \in User |-> <<>>]
    /\ nextId = 1
    /\ callbacks = [u \in User |-> {}]
    /\ net = EnableNetwork(FreshNet, <<>>)
    /\ applied = {}
    /\ issued = <<>>
    /\ told = [w \in 1..MaxWrites |-> "no"]
    /\ unheard = {}
    /\ cut = {}
    /\ faults = 0

Next ==
    \/ WriteMutations
    \/ StaleTokenAnswered \/ TokenAnswered \/ NoTokenAnswered
    \/ HandshakeRead \/ ResultRead \/ RefusalRead \/ WriteOperationFailed
    \/ ResponseUnreadable \/ CallFailed \/ BackoffElapsed \/ IdleTimeout
    \/ ConnectivityChanged \/ DisableNetwork \/ EnableNetworkAgain
    \/ \E u \in User : HandleCredentialChange(u)
    \/ Relaunch \/ DiesBeforeRemoval \/ DiesAfterRejection
    \/ ServerEndsCall \/ ServerEndsNeededCall
    \/ ServerShakesHands \/ ServerApplies \/ ServerRefuses

Spec == Init /\ [][Next]_vars

\* Tokens are handed out, a server that can be reached answers, the worker queue
\* runs what is due.  Nothing makes the app write, the network come back after
\* DisableNetwork, or a user sign in again.
Fairness ==
    /\ WF_vars(TokenAnswered)
    /\ WF_vars(BackoffElapsed)
    /\ WF_vars(HandshakeRead)
    /\ WF_vars(ResultRead)
    /\ WF_vars(RefusalRead)
    /\ WF_vars(ServerShakesHands)
    /\ WF_vars(ServerApplies)

FairSpec == Spec /\ Fairness

-----------------------------------------------------------------------------
(* Properties *)

\* Every variable keeps its type (the members of RemoteStore, Stream, SyncEngine).
TypeOK ==
    /\ user \in User
    /\ queue \in [User -> Seq(Batch)]
    /\ nextId \in Nat \ {0}
    /\ callbacks \in [User -> SUBSET Batch]
    /\ net \in Net
    /\ applied \in SUBSET (1..MaxWrites)
    /\ issued \in Seq(User)
    /\ told \in [1..MaxWrites -> {"no", "ok", "failed"}]
    /\ unheard \in SUBSET (1..MaxWrites)
    /\ cut \in SUBSET (1..MaxWrites)
    /\ faults \in 0..MaxFaults

\* The write pipeline is the beginning of the current user's mutation queue, at
\* most kMaxPendingWrites long, after any sequence of fills, results, rejections,
\* restarts and changes of user: no batch is skipped, sent twice or kept too long.
PipelineIsPrefix ==
    /\ Len(net.pipeline) <= MaxPendingWrites
    /\ Len(net.pipeline) <= Len(queue[user])
    /\ \A i \in DOMAIN net.pipeline : net.pipeline[i] = queue[user][i]

\* What an open stream has under way, in the order the server answers.
InTransit(r) == r.down \o r.up

\* A response names no batch, so the k-th outstanding one must be that of the
\* k-th batch of the pipeline, also after a reconnect, a refill or a rejection:
\* otherwise OnWriteStreamMutationResult completes the wrong write.
ResponsesMatchPipeline ==
    net.handshaken =>
        /\ Len(InTransit(net)) = Len(net.pipeline)
        /\ \A i \in DOMAIN net.pipeline : InTransit(net)[i].batch = net.pipeline[i]

\* A stream that is idle, and which the timer will stop, has nothing to send
\* (the HARD_ASSERT of OnWriteStreamClose); a stream that is not running while
\* there is something to send has no network.
StreamIsNeeded ==
    /\ net.idle => net.state = "open" /\ net.pipeline = <<>>
    /\ queue[user] # <<>> /\ net.enabled => Started(net) /\ net.pipeline # <<>>

\* A completion kept for a batch id is that of the batch which has the id on
\* disk, though ids are given out again after a relaunch or a change of user.
CallbackIsForItsBatch ==
    \A u \in User : \A c \in callbacks[u] : \E i \in DOMAIN queue[u] : queue[u][i] = c

\* Once the app has been told that a write succeeded, the write is not sent
\* again, unless the process died before it had removed the write from disk.
ToldIsNotResent ==
    \A i \in DOMAIN net.up : net.up[i].kind = "write" =>
        (told[net.up[i].batch.write] = "no" \/ net.up[i].batch.write \in cut)

\* A write that the app was told has failed is not in the database, unless its
\* result was lost with a call or could not be read.
FailureHasCause ==
    \A w \in 1..MaxWrites : told[w] = "failed" /\ w \in applied => w \in unheard

Lines == INSTANCE WriteQueue WITH
    line <- [u \in User |-> [i \in DOMAIN queue[u] |-> queue[u][i].write]]

\* The client keeps the promise of WriteQueue.
ImplementsWriteQueue == Lines!Spec

\* While its user stays signed in and the network is enabled, every write on disk
\* is settled: no reconnect, backoff, idle stop or full pipeline strands it.
EveryWriteSettles ==
    \A u \in User : \A w \in 1..MaxWrites :
        (\E i \in DOMAIN queue[u] : queue[u][i].write = w)
            ~> \/ ~ \E i \in DOMAIN queue[u] : queue[u][i].write = w
               \/ user # u
               \/ ~ net.enabled
=============================================================================
