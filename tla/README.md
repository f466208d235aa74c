# JamSession: verification development

JamSession is an iOS application (about 2,650 lines of Swift under
`src/JamSession/JamSession/`) in which musicians sign up, befriend each other, chat, and
look for jam sessions on a map. There is no server code: every phone reads and writes
Firebase Auth and Firestore directly, from callbacks, and no operation uses a transaction, a
batch or a partial update. What one phone does while another one's callback is outstanding is
therefore where the program can go wrong, and is what most modules here are about. All of
these operations end in writes that the vendored Firestore client has to carry to the server;
its write path is the one part of `Pods` the app's correctness leans on, and is modelled too.

Paths below are relative to `src/JamSession/JamSession/`, and those of the Firestore client to
`src/JamSession/Pods/FirebaseFirestore/Firestore/core/src/`.

## 1. Inventory

| part | state | operations | who calls it |
|---|---|---|---|
| **Friends**: `UserController`, `FriendViewController` (`FriendsController.swift`), `Models/User`, `Models/Friend` | singleton `currentUser` (friends, blocked, friendRequests), a snapshot listener per assignment; documents `Users/{uuid}` and `Users/{uuid}/friend_requests/{a to b}` | send, ignore, accept, unfriend, block, load requests, `saveData`, `saveUser` | swipe and tap handlers, the listener |
| **Accounts**: `SignUpViewController`, `LoginViewController2`, `LoginController`, `UserController.authUser / makeUserInDB / dbContainsUsername`, `PasswordTest` | Auth accounts and the signed-in user, `Users/{uid}`, `currentUser` | sign up (look up, create, write, toast), log in (sign in, look up, set) | two buttons |
| **Chats**: `ChatsController`, `NoChatViewController`, `MenTableViewController`, the message button of `FriendCell`, `ChatAndMessage` | `chats`, `docReference`, `messages`; `Chats/{id}` and `thread` | list, create, open, load, listen, send | chat list, friend list, chat screen |
| **Events**: `EventController`, `Models/Event`, `SearchEventsViewController`, `EventQuickLookViewController` | `pulledEvents`; `Events/{id}`, which the app only reads | search, convert, show | search bar, table |
| **Event editing**: `CreateEventViewController`, `EventDetailViewController` | text fields | the save button clears them | UIKit |
| **Location and map**: `LocationManager`, `MapViewController` | placemarks, map annotations | geocode, route | map and event screens |
| **Table screens**: `FriendsListVC`, `FriendsViewController`, `FriendCell`, `MessageCell`, `EventTableViewCell` | recycled cells | asynchronous filling of a cell | UIKit |
| **Other screens and glue**: `CreateUserViewController`, `EditUserViewController`, `LoginViewController`, `AppDelegate`, `SceneDelegate`, `ErrorExtensions`, `Errors` | outlets | layout, alerts | UIKit |
| **Firestore client, write path**: `SyncEngine`, `LocalStore` with `LevelDbMutationQueue`, `RemoteStore`, `WriteStream`/`Stream`, `GrpcStream`, `FirestoreClient` | a mutation queue per user on disk, `mutation_callbacks_`, `write_pipeline_`, the stream's state, timers and call | write, fill the pipeline, start, back off, idle, read a response, reject, restart, change user | every `setData`, `addDocument`, `delete`; timers; the auth and connectivity listeners |
| **Other pods** | watch path, Auth, MessageKit, gRPC and others | vendored | everything |

Interaction. All parts share `UserController.sharedInstance.currentUser`. It is read from the
server once, at login, and afterwards only changed locally: no listener refreshes `friends` or
`blocked`. Other users are looked up when needed, and the snapshot is kept across a further
callback in one case (accept). Saves always replace whole documents with `setData`.

What the app's modules take the Firebase SDK to do (the part marked external in their maps):
a write is visible to its own device at once and to others once the server has it; pending writes go out in order, and
survive a restart (persistence is on by default); the completion of a write runs only after
the server's answer; completions run on the main queue; a snapshot listener reports changes
of the local view. `WritePipeline` checks the part of this that is about the order of writes,
their survival and their completion against the client's source; `FriendGraph`, `Accounts` and
`Chats` use its outcome (`Commit` and `Refuse` of the oldest pending write). `Accounts` also has what
`HandleCredentialChange` (`core/sync_engine.cc:251-267`) does to a phone on which several users sign in: a queue
for each, of which only that of the signed-in one is shown and sent. `FriendGraph` and `Chats` begin after
the login of one user per phone.

### What is hard, and what makes each part correct

*Friends.* Two phones hold copies of the same two documents and each writes both. Correct
means: a friend on a list is someone with whom a request was sent and accepted; both lists agree; nobody is
listed twice; a block is kept and belongs to the user who made it; a request arrives. The code
keeps the first and the fourth's second half, and the model proves it. The others hold **only
as long as nobody's stale document is written back** and none of two early returns is taken;
the model states precisely those exceptions.

*Accounts.* Four asynchronous steps without a reservation: the uniqueness of a username, a
profile for every account, whom a login may turn into the current user, and that Firebase Auth,
whose user decides which writes are sent, agrees with the app on who that is.

*Chats.* A pair of users is tied to a chat by nothing but a query for the first document that
names both. A message must stay within its pair, both must write to one thread, a screen must
find or make its chat and show every message of its thread once, and what is sent must be saved.

*Events and search.* Results handed on before they are there, a completion that runs twice, and
answers to earlier terms that arrive late. What the code really keeps is small: nothing is shown, and every conversion that is started does complete.

*Firestore client, write path.* A response on the write stream names no write: it is taken for
that of the front of the pipeline. Correct means that this is so after every sequence of
reconnects, refills, rejections, idle stops, changes of user and restarts; that nothing on disk
is skipped, stranded or reported to the wrong completion; and that the app is told success or
failure truthfully, up to what a lost call or a crash makes unknowable.

*Cells.* In the hazards of `PROJECT.json`, with the reason why no property covers them.

### Observations about the source tree

* `UserController.swift:214-218` and `Jantsen's Views/LoginViewController.swift:23-61` hold merge
  conflict markers. Both sides of the first call `makeUserInDB` with other filler texts, which
  no property looks at; login is modelled from `LoginViewController2.swift` and `LoginController.swift`.
* `ChatViewController.swift` is named by the project file and missing; `Chats` takes
  `NoChatViewController` for it. No line of the source makes the first call of its `loadChat`
  (`viewDidLoad` does not; the comment at line 137 says that it will be), so that call is external:
  `LoadRequested` stands for the missing file, and happens at any time or never.
* `MenTableViewController.swift:61` instantiates "ppchat", which `borp.storyboard` does not have: the row of a
  chat the other user has made ends the process (`ChatTraps`). Such a user gets a screen by the message button
  of the friend list (`FriendCell.swift:31`), which both users of a pair have.
* `FriendsListVC.swift` repeats the handlers of `FriendsController.swift`; the model follows
  the latter. (In `FriendsListVC` the swipe actions read a label that is never set.)
* `User.friends.didSet` assigns `userFriends` before the lookups that should fill it have been
  answered, so it is always empty. Nothing reads it, and the model leaves it out.
* The password pattern (`PasswordTest.swift:16`) asks for no digit, although the message at
  `SignUpViewController.swift:38` says it must contain a number.
* A sign-up with an empty username goes through (`SignUpViewController.swift:30` looks only at the
  email), although the comment above says that all fields are checked.
* `EventController.swift:35` completes before any event has been converted, and Swift arrays are
  values, so `pulledEvents` is empty after every search (`NothingIsShown`). `Event.toFireObj` has no
  caller, so the app cannot store an event either. `Event.swift:57` traps on a location without a comma.
* `Event.swift:34` keeps only the power of two of each coordinate (`binade`), in a function without a
  caller; `LocationManager.swift:25` never completes without placemark and error, and nobody waits for it.
* A crash by force-unwrap of an absent `currentUser` is out of scope where a screen cannot be
  reached before login.

## 2. Plan

| order | module | state |
|---|---|---|
| 1 | `Handshake`: abstract promise of the friend graph | done |
| 2 | `FriendGraph` (+ `MCFriendGraph`): handlers, `UserController`, listener, Firestore | done |
| 3 | `FriendGraph_proofs`: what is never invented, and the refinement | done |
| 4 | `FriendGraphLosses_proofs`: what is never lost without a cause | done |
| 5 | `FriendGraphBalance_proofs`: that two friends lists agree, without a cause not to | done |
| 6 | `Accounts` (+ `MCAccounts`): sign-up and login | done |
| 7 | `Accounts_proofs`: all its safety properties | done |
| 8 | `Chats` (+ `MCChats`): list, create, load, listen, send | done |
| 9 | `Chats_proofs`: all its safety properties | done |
| 10 | `EventSearch` (+ `MCEventSearch`): search, nested completions of `fromFireObj` | done |
| 11 | `EventSearch_proofs`: all its safety properties | done |
| 12 | `WriteQueue`: what the Firestore client promises about writes | done |
| 13 | `WritePipeline` (+ `MCWritePipeline`): the write path of the client | done |
| 14 | `WritePipeline_proofs`: all its safety properties and the refinement | done |
| 15 | an abstract specification of `Chats` (one thread per pair, with the recorded exceptions), and that `Chats` implements it | open |
| 16 | composition of `Accounts` and `FriendGraph` (usernames instead of uuids, a clash makes a friend unreachable) | open |
| 17 | the watch path of the Firestore client | open |

`QueueLemmas` holds the facts about sequences that several of the proof modules need.

Cells and geocoding, planned before, are dropped: see section 7.

Theorems still worth proving: that the queues of `FriendGraph` and `Chats`, with their `Commit` and
`Refuse`, are what `WriteQueue` promises (today this is stated in words in section 1), and the refinement of row 15.

## 3. The modules

### `Handshake`

The promise: `asked` and `agreed` grow, `agreed` stays within `asked`, and a user's published
list may be rewritten at any time, but only with users who have shaken hands with its owner.

### `FriendGraph`

One device per user; a username stands for its holder's uuid. Each handler is split where the code is:

| code | actions |
|---|---|
| button, swipe or row tap starts a lookup | `AddUserButtonPressed`, `UnfriendSwiped`, `BlockSwiped`, `IgnoreSwiped`, `RequestBlockSwiped`, `AddFwen`, `LogInButtonTapped` |
| the server answers it from the device's local view | `Answer`, `LookupFails` |
| the completion | `SendFriendRequest`, `Unfriended`, `BlockUser`, `IgnoreFriendRequest`, `AcceptFriendRequest`, `LoggedIn`, `RequestsLoaded` |
| completion of the deletion in accept | `RequestDeleted` |
| snapshot listener | `ListenerFires` |
| Firestore takes or refuses the oldest pending write | `Commit`, `Refuse` |
| the process dies and is started again | `Relaunch` |

`docs` and `inbox` are the server; `queue[u]` the pending writes of a device, and
`ProfileView` / `InboxView` what it sees through them. `me`, `requests` are `currentUser`;
`calls` are the callbacks that have not run, with the snapshot each was given. A friends array is a
function from users to how often they occur, because the code only uses `contains`,
`firstIndex(of:)`, `append` and `remove(at:)`. `base`, `sent`, `accepted`, `blockedBy`, `dropped`
(requests that were ignored, or whose acceptance died half-way) and `causes` are history variables: no action reads them except to update them. `causes` records on whose document a
save replaced content its writer had not seen (`overwrite`), a write was refused, or a guard
returned in the middle (`halfAccept`: `UserController.swift:139-142`; `halfUnfriend`: `:106`).

Simplifications: login is tapped again only after a login that failed (once it has succeeded, the
full-screen tab bar covers the button), so two logins at a time are left to `Accounts`; the request documents written by one save
are one write (only the owner of an inbox reads it, and sees them together); listener events that are not yet
delivered are merged into one; tapped rows are those of the current lists, and double taps
give the effect of stale rows; picture, location, bio and the other unchanged fields are left
out, so an overwrite that differs only there is no cause.

### `Accounts`

`accounts` (Firebase Auth), `profiles` (the username in `Users/{uid}`), `pending` writes, each with
the user who was signed in when it was made, `auth`, the user Firebase Auth has signed in on a phone,
and `flows`, one record per started sign-up or login with the phase it has reached. An email
names its account's uid. A password is what `Kinds` and `Length` say of it, the
two things the pattern looks at. `Mine` is the part of the pending writes that the phone shows and sends.

| code | actions |
|---|---|
| the two buttons | `createButtonTapped`, `logInButtonTapped` |
| lookup of the username | `UsernameLookedUp`, `UsernameLookupFails`, `UsernameTaken` |
| `createUser` | `AccountCreated`, `AccountRefused` (the email has one), `AccountFails` (every other error), `AccountAnswerLost` |
| `setData` and its completion | `makeUserInDB`, `ProfileCommitted`, `ProfileRefused`, `SignUpCompleted` |
| `signIn`, the lookup of the profile, the assignment of `currentUser` | `SignedIn`, `UserLookedUp`, `LogInFails` (an error of either call), `UserGrabbed` |
| the process dies | `Crash` |

Creating an account signs it in, and nothing signs out. So a second sign-up or login on a phone changes which
queue is sent: the profile write of the first waits until its user signs in again (`Stranded`).
`overlap`, `failed`, `broken` and `crossed` (another signed in on the phone during a login or session) are history.

### `Chats`

One device per user and one chat screen per launch (nothing dismisses it). `chats` and `threads`
are the server, `queue` the pending writes, `list[u]` is `ChatsController.chats`, `screen[u]` the
target, the `docReference` and the messages: how often the array holds each, its order being left out.

| code | actions |
|---|---|
| the chat list is shown | `ChatListShown`, `getNumberofChats` |
| the plus button | `plusPressed`, `createNewChatWith` |
| a row of the list | `didSelectRow`, and for the user who made the chat `ChatPresented`, for the other one `ChatTraps` |
| the message button of a friend | `messageTapped` |
| the first call of `loadChat`, from the file that is missing | `LoadRequested` (external, without fairness) |
| `loadChat`, `createNewChat` and its completion, which calls `loadChat` again | `loadChat`, `Commit` of a chat |
| the thread's listener, the send button | `ThreadListener`, `didPressSendButton` |
| the server, the process | `Answer`, `LookupFails`, `Commit`, `Refuse`, `Relaunch` |

Documents come in the order of their ids, which are random: `AddChat` takes any free one. `blind`,
`unattached`, `refused`, `stuck` are history: a pair was given a second chat, a message
was sent without `docReference`, a write was refused, a screen's own query or chat failed.
The SDK adds a listener event wherever the local view of the thread changes. `messageTapped` takes any user as target: who
is on a friend list is `FriendGraph`'s, and the properties hold for whoever is.

### `EventSearch`

`searches` are the queries under way, `conversions` the calls of `fromFireObj` that wait for the
lookup of the creator or of the first attendee (the loop returns in its first turn, so there is
never a second), `results[n]` the array the closures of search n append to, `pulledEvents` the
array the table reads. Only a document that passes the guards of `fromFireObj` (`Readable`) becomes a
conversion. An event is named by its document, and its attendees, which nothing reads, are left out.
`told` records what each completion was called with. A term, a date and a uuid are all strings, because the query compares title, time, instruments and attendees with one
term; so a document can match only if it says the same everywhere. `SearchTraps` is the trap on a
location without comma. The `Events` collection is constant: no code writes it. A document with an
empty `attending` cannot be found (`arrayContains`), so the completion that never comes is out of reach.

### `WriteQueue`

The promise: a line of writes per user; the server applies them in order, perhaps more than once;
only the oldest leaves, and the app is told at most once of each, of success only if the server
has applied it. A process may die between telling and forgetting,
or the other way round.

### `WritePipeline`

| code | definitions |
|---|---|
| `SyncEngine::WriteMutations`, `HandleSuccessfulWrite`, `HandleRejectedWrite`, `NotifyUser`, `HandleCredentialChange` | `WriteMutations`, `ResultRead`, `FrontBlamed`, `FrontRejected`, `NotifyUser`, `HandleCredentialChange` |
| `LevelDbMutationQueue` | `OpenQueue`, `NextBatchId`, `FirstAfter`, `RemoveFromQueue` |
| `RemoteStore`, its write half | `FillWritePipeline`, `Blame`, `Fail`, `EnableNetwork`, `DisableNetworkInternal`, `RestartNetwork`, `ConnectivityChanged` |
| `Stream`, `WriteStream` | `Start`, `Stop`, `Closed`, `TokenAnswered`, `StaleTokenAnswered`, `NoTokenAnswered`, `HandshakeRead`, `ResponseUnreadable`, `BackoffElapsed`, `IdleTimeout` |
| `GrpcStream` | `CallFailed`, `RefusalRead` (`EndIsRead`), `WriteOperationFailed` (`WriteFails`) |
| `FirestoreClient::Initialize` and the end of the process | `Init`, `Restarts`, `Relaunch`, `DiesBeforeRemoval`, `DiesAfterRejection` |
| the server | `ServerShakesHands`, `ServerApplies`, `ServerRefuses`, `ServerEndsCall`, `ServerEndsNeededCall` |

Each action is one operation on the client's worker queue, which runs one at a time; a call of
`FillWritePipeline` that the code makes in a nested callback is part of the action. `net` is
`RemoteStore`, its stream and the call in one record, and their methods are functions on it.
`asking` says whether `GetToken` was asked by this start of the stream (`current`) or by one whose
close has since raised `close_count_` (`stale`). The batch in a response is history: no action of
the client looks at it. `issued`, `told`, `unheard`, `cut` are history.

Beside lost calls the model has three rarer ends. A response that cannot be parsed ends the call with a
permanent error, so its write, although applied, is reported as failed (`ResponseUnreadable`; of a response to the
handshake it is a `CallFailed`). A call that the server ends with status OK is taken for a graceful stop of
the client's own (`ServerEndsCall`), and fails the assertion at `remote_store.cc:456` if there is something to
send, which ends the process (`ServerEndsNeededCall`). And a process that dies between `RejectBatch` and
`NotifyUser` never reports the rejection (`DiesAfterRejection`), where one that dies inside a success
reports it and sends the write again (`DiesBeforeRemoval`).

Assumptions: a permanent error answers a write of this call, in request order; a request of a closed call that
the server has not taken is not applied later. Left out: stream tokens, how
long backoff lasts, `waitForPendingWrites`, transactions, document contents, and the watch stream.
A user whose `mutation_callbacks_` are kept while another is signed in finds them again.

## 4. What the runs check

The runs of the app's modules bound asynchronous calls per device (`MaxCalls`), taps (`MaxTaps`)
and faults (`MaxFaults`); there deadlock is not checked: users may stop tapping, and the budget
ends. `writes` bounds writes and faults and checks deadlock.

| run | instance | shows |
|---|---|---|
| `pair` | 2 users, strangers, 4 taps, 2 calls each | types; no invented request; a settled friendship is on both sides or neither, and never twice, without a cause; a request does not vanish unless ignored. Four taps are send, accept and two more operations, which can be concurrent with either |
| `trio` | 3 users, one friend of the two others, 3 taps | the same symmetry with three devices writing one document; no invented friend or block |
| `handshake` | 3 users, two of them friends, 2 taps, 1 fault | a block or a request is lost only by a stale or refused write, an ignore, or a death inside accept, whatever fails on the way; `FriendGraph` implements `Handshake` |
| `live` | 2 strangers, 3 taps, no fault, fairness | a request is shown; an accepted one reaches the originator |
| `chat_pair` | 2 users, 3 taps, 1 fault | a message stays in a chat of its two users; both write to one thread unless they were given a second chat; a message is lost only if sent too early or refused; a settled screen shows each message of its thread once. Two taps on message buttons open both screens, and the third is a message or a second chat |
| `chat_load` | 2 users, 2 taps, 2 faults, fairness | once `loadChat` is called, the screen finds or makes its chat, whatever else fails. The faults also let the chat a screen was opened from be refused, so that it makes one |
| `accounts` | 2 phones, 3 emails, 3 taps, 1 fault, fairness | a username is shared only after overlapping sign-ups or a failed lookup (three emails, because several holders count as none); whoever is logged in has a profile or one on the way, and is the user Firebase Auth has signed in unless another signed in meanwhile; every account gets a profile unless its sign-up was cut short or its write is stranded |
| `writes` | 2 users of one device, 3 writes, a pipeline of 2, 3 faults, fairness | the seven safety properties of `WritePipeline`, the refinement of `WriteQueue`, and that every write is settled. Three writes are one more than the pipeline holds, so it is refilled; three faults are enough to lose a call after a write was applied, resend it, and have it refused, or to change the user away and back with a relaunch |
| `events` | 2 searches, 8 documents, 1 fault, fairness | nothing is shown, a completion runs twice only to report an error, every conversion completes. The documents are two that become events, one of several attendees, an unknown creator, a term that is no date, bad and missing fields, a trap, and one that does not match |

`events` was also run with three searches (88,346 states) without a violation.

Each of the exceptions in `AsymmetryHasCause` is needed: with any one of them left out, `pair` finds
a counterexample (for a refused write, with a fault allowed). The property was also run with five taps (8.4 million
states) without a violation.

Likewise each exception of `NameClashHasCause`, `LoggedInHasProfile`, `SessionIsOne`, `AccountGetsProfile`,
`SplitHasCause`, `LostMessageHasCause` and `ScreenLoads` is needed: with any one of them left out, the run of the
property finds a counterexample.

Three runs show where the code and the text beside it disagree:

* `block_saved`: after a block is saved, the other user's phone executes `saveUser` with an
  older snapshot and the block is gone, though "any info that user inputs into the app is saved".
* `block_title`: the action titled "block" of an incoming request calls `unfriendUser`.
* `chat_saved`: a message sent before `loadChat` has been answered is shown and not saved.

## 5. Fairness

`FairSpec` assumes weak fairness per device of: the server answering its lookups, the commit of its
pending writes, the listener, and the completions of the main queue. That is a connected phone with
a running main loop; Firestore itself retries until it is connected. No tap, no
login, no crash and no refusal is fair. `live` allows no fault, because a relaunch between the
deletion of the request and its completion really loses the acceptance. In `accounts` and `chat_load` faults
are allowed and are the named exceptions. In `accounts` only the queue of the signed-in user is committed, as
`core/sync_engine.cc:251-267` has it, so `AccountGetsProfile` excepts a stranded write; nothing says that
its user ever signs in again. In `Chats` the external `LoadRequested` is not fair: `ScreenLoads` speaks of a
screen whose `loadChat` has been called.

`writes` assumes weak fairness of the answer to `GetToken`, of the backoff timer, of reading what
has arrived, and of a server that shakes hands and applies what it is sent. These are the worker queue
and timers, which run what is due, and a reachable server. Faults are bounded, and so finitely many;
stale tokens, idle timers, failures, unreadable responses, the end of a call, and the app's own writes are not fair, and neither is
`EnableNetworkAgain` nor the user's return: `EveryWriteSettles` excepts a disabled network and
another user. `events` assumes that a lookup of a creator is answered, in one way or the other.

## 6. What is proved

Every safety property and every refinement that a passing run checks is also a theorem, checked by
TLAPS, for any users, devices, texts and documents and for any bounds. Each module has one inductive
invariant (`FriendGraph` has three, one on top of the other), one lemma per action that the action keeps it, and
a theorem that combines them; TLC has checked each of these invariants on small instances as well.

### The friend graph: what is never invented

`FriendGraph_proofs`, for any set of users, any symmetric initial friendships and any bounds:

| theorem | says |
|---|---|
| `TypeCorrect` | `Spec => []TypeOK` |
| `FriendsHaveMet` | `Spec => []FriendsMetInDocs` |
| `NoInventedRequest` | `Spec => []RequestsWereSent` |
| `NoInventedBlock` | `Spec => []BlockedByOwner` |
| `Refinement` | `Spec => ImplementsHandshake` |

None of the properties is inductive: a document is written from a queue, the queue from a
snapshot or from `currentUser`, and these from documents. The inductive invariant `IInv` says
the same of every place where a profile or a request can be: server, `currentUser`, the
snapshot of a call, a queued write (`GoodProfiles`, `GoodRequests`, `GoodWrite`, `GoodCall`).
`Invariance` combines the lemmas; the refinement takes a step from a state of `IInv` and shows
that it is a step of `Handshake` or a stutter. The only assumption is `ConstantsAssumption`, here and in the
next two modules.

### The friend graph: what is never lost without a cause

`FriendGraphLosses_proofs`:

| theorem | says |
|---|---|
| `LossInvariance` | `Spec => []LInv` |
| `BlockLossesHaveCause` | `Spec => []BlockLossHasCause` |
| `RequestsGoneHaveCause` | `Spec => []RequestGoneHasCause` |

Both properties speak of quiet states only, and say nothing about the steps that lead there. `LInv` follows the
block and the request through them. A block is in its owner's document or in a save that is pending
on its owner's device (`BlocksTraced`), and no write has fewer blocks than the profile it was made of
(`BlocksKept`), so that a commit which finds what it had read removes none. A request is in the inbox, in a
pending write of its sender, or settled, or the receiver's device is between the deletion and the rest of
`acceptFriendRequest` (`RequestsTraced`); and whatever deletion is pending has such a reason (`DeletionsTraced`).

### The friend graph: the two lists agree

`FriendGraphBalance_proofs`:

| theorem | says |
|---|---|
| `BalanceInvariance` | `Spec => []BInv` |
| `AsymmetriesHaveCause` | `Spec => []AsymmetryHasCause` |
| `DuplicatesHaveCause` | `Spec => []DuplicateHasCause` |

An accept or an unfriend changes two documents with two writes, the other user's first, and the lists differ
between the two commits. `BInv` says, as long as nothing is recorded in `causes`: in every queue a write
that changes a friends list is next to its other half, except that the oldest write may be a second half whose first
one was committed (`QueuesPaired`); and the number of times u lists v, less what the oldest
write on v's device is going to change there, is the same for both (`Balanced`), and at most one
unless an entry is just being taken out (`AtMostOnce`). `currentUser` has the friends it has read or saved last
(`Synced`), so the guards of accept and unfriend are about the profile that the save is made of: without
that, a second entry could be added. Who befriends oneself writes one document twice, and the second
write always overwrites the first, which is a cause (`Selves`); the states in between are the reason
for that part. In a quiet state every queue is empty, and the balance is that of the documents.

### Accounts

`Accounts_proofs`, for any devices, emails, usernames, passwords and bounds (assumption:
`AccountsAssumption`):

| theorem | says |
|---|---|
| `TypeCorrect` | `Spec => []TypeOK` |
| `ClashesHaveCause` | `Spec => []NameClashHasCause` |
| `LoginsHaveProfile` | `Spec => []LoggedInHasProfile` |
| `SessionsAreOne` | `Spec => []SessionIsOne` |
| `NamesAreForLife` | `Spec => NameIsForLife`: no step changes the username of a profile on the server |

`ClaimsMarked` is the heart of `IInv`: of two claims to a username (a profile on the server, a
pending write, or a sign-up that was told the name is free) one is recorded in `overlap` or `failed`, or a holder
of the name is. The property speaks of profiles only, which come about many steps after the lookups
that let them. That a committed name stays needs `CreatedOnce` and `WrittenOnce`: `createUser` succeeds once for
an email, so there is one profile write of it, and it finds no profile. `FoundIsBacked` carries the profile from the lookup
of a login to the moment `currentUser` is set. `SessionIsOne` has an
invariant of its own on top (`SessionInv`): a login that is past its sign-in is of the user Firebase Auth knows, or is
recorded in `crossed` (`LoginsSignedIn`), so its late assignment of `currentUser` is excused if it has to be.

### Chats

`Chats_proofs`, for any users and bounds (assumption: `ChatsAssumption`):

| theorem | says |
|---|---|
| `TypeCorrect` | `Spec => []TypeOK` |
| `MessagesStayInPair` | `Spec => []MessageStaysInPair` |
| `SplitsHaveCause` | `Spec => []SplitHasCause` |
| `LostMessagesHaveCause` | `Spec => []LostMessageHasCause` |
| `ScreensShowThread` | `Spec => []ScreenShowsThread` |

A chat is tied to its pair only by the query that found it. `IInv` follows its id through lookups
(`FoundOwn`), screens (`LoadsForScreen`, `ScreensOwn`) and messages (`MessagesOwn`) back to the one
chat that ever had it (`IdsUnique`), be it on the server, pending or refused. `PairsMarked` records the second chat of a
pair, `SentSomewhere` where a message is, and `ShownUnlessDue` that a screen without an event to
come shows its thread, each message once: a message that the send button has appended is a second copy, or one
that was not saved, until the event it causes has been delivered. `loadChat` takes the least id that it has found; that there is one is the least-number
principle, from the well-founded order of the naturals (`SmallestExists`).

### Events

`EventSearch_proofs`, for any texts, documents, profiles and bounds (assumption: `SearchAssumption`):

| theorem | says |
|---|---|
| `TypeCorrect` | `Spec => []TypeOK` |
| `TableStaysEmpty` | `Spec => []NothingIsShown` |
| `CompletionCalls` | `Spec => []CompletesTwiceWithError` |

The table stays empty because the array is handed on before any conversion has started (`QueriesUntouched`,
`FutureUntouched`); a completion runs twice at most because a conversion has called it once when it
waits for an attendee and not before (`ConversionsCounted`).

### The write path of the Firestore client

`WritePipeline_proofs` proves, for any users, any `kMaxPendingWrites` and any bounds:

| theorem | says |
|---|---|
| `TypeCorrect` | `Spec => []TypeOK` |
| `PipelineFollowsQueue` | `Spec => []PipelineIsPrefix` |
| `ResponsesMatch` | `Spec => []ResponsesMatchPipeline` |
| `StreamIsThereWhenNeeded` | `Spec => []StreamIsNeeded` |
| `CallbacksAreOwn` | `Spec => []CallbackIsForItsBatch` |
| `ToldOnce` | `Spec => []ToldIsNotResent` |
| `FailuresHaveCause` | `Spec => []FailureHasCause` |
| `Refinement` | `Spec => ImplementsWriteQueue` |

The inductive invariant has two halves. `Good(net, queue[user])` ties the stream's state, its
timer and token, what travels on the call, and the pipeline together: what is under way is the
handshake alone, or exactly the pipeline in its order, answered up to some place (`Transit`); the pipeline
begins the queue (`Loaded`) and holds all it can, with a stream that runs (`Filled`). `ResponsesMatchPipeline`
alone is not inductive: that a refill appends the right batches needs the prefix and
the order of ids, and that a new call starts empty needs that a stream that is not open carries nothing. Each helper
(`FillWritePipeline`, `Closed`, `Stop`, `Fail`, `Blame`, `RestartNetwork`, ...) has a lemma that it keeps or restores
`Good`; the process deaths and the call the server ends start from a fresh stream or a `Stop`. `Ledger` is about disk, completions and history: queues are in order of ids and of writes, what
was applied is a beginning of what is on disk, what the app may still be told of a write on
disk, and that an applied write still on disk has its result on the way, or lost with a call or unread. One
lemma per action; `Invariance` combines them, and the refinement takes each step to a step of `WriteQueue` or
a stutter. The only assumption is `PipelineAssumption`.

### Model-checked only

* The liveness properties: `RequestShown`, `AcceptReachesOriginator`, `ScreenLoads`, `AccountGetsProfile`,
  `EveryWriteSettles`, `ConversionCompletes`. They rest on fairness and so on ENABLED, which the prover does not reach.
* The three violations, which are counterexamples on instances by nature.
* That the exceptions named in the properties are needed (section 4).

## 7. Not modelled

* Table cells (`FriendsListVC`, `FriendCell` but for its message button, `MessageCell`, `EventTableViewCell`): a late lookup may fill a
  recycled cell, but which row a cell stands for is decided by UIKit, whose source is not in the repository;
  any model of it would be of UIKit.
* Map and geocoding: `LocationManager` is asked only by the cell and the quick look of an event, and no event is
  ever shown; the map screen passes results of MapKit to MapKit.
* Event editing and quick look, other screens, alerts, application start: no state that matters, or not reachable.
* The rest of `Pods`: the watch path of the Firestore client is external, through the assumptions listed in
  section 1; BoringSSL, gRPC, abseil, leveldb and the other pods are libraries the app neither
  configures nor calls. They are nearly all of the repository's 650,000 lines of C and C++, beside which the
  app and the modelled write path are under one percent, so the share of mapped lines stays small whatever is
  modelled of this system.
* Security rules of Firestore are not in the repository; `Refuse` and `ServerRefuses` stand for whatever they reject.
