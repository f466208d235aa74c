------------------------------- MODULE Accounts -------------------------------
(***************************************************************************)
(* Sign-up and login: SignUpViewController, UserController.authUser and      *)
(* makeUserInDB, LoginController and LoginViewController2, against Firebase  *)
(* Auth (the accounts) and the Users collection (the profiles).              *)
(*                                                                         *)
(* Signing up takes four asynchronous steps: look the username up, create    *)
(* the account, write the profile, hear that it was written.  Nothing holds  *)
(* the username between them.  An account's uid is named by its email.       *)
(*                                                                         *)
(* Firebase Auth keeps one signed-in user per phone, over a relaunch; signing  *)
(* up and signing in both change it, and nothing signs it out.  Firestore      *)
(* keeps one queue of writes for each user who was signed in on the phone,    *)
(* and shows and sends only the queue of the one who is.  currentUser is the    *)
(* app's own idea of who is logged in.                                       *)
(***************************************************************************)
EXTENDS Naturals, FiniteSets

CONSTANTS
    Device,     \* the phones
    Email,      \* emails, each the uid of the account it may get
    Username,   \* what can be typed as a username
    Empty,      \* an empty text field
    Password,   \* what can be typed as a password
    Kinds,      \* the kinds of characters a password has
    Length,     \* its length
    None,       \* no username, no password, no user
    MaxCalls,   \* bound: flows in progress per device
    MaxTaps,    \* bound: taps on the two buttons, all devices together
    MaxFaults   \* bound: crashes, failed calls, lost answers, refused writes

ASSUME AccountsAssumption ==
    /\ Empty \notin Email
    /\ MaxCalls \in Nat \ {0}
    /\ MaxTaps \in Nat
    /\ MaxFaults \in Nat
    /\ Length \in [Password -> Nat]
    /\ None \notin Username \cup Email \cup Password

VARIABLES
    accounts,     \* the password of the email's account, or None
    profiles,     \* the username in Users/{uid}, or None
    pending,      \* the device's uncommitted profile writes: <<e, n, owner>>, owner
                  \*     being the user who was signed in when it was made
    auth,         \* the uid that is signed in to Firebase Auth, or None
    flows,        \* sign-ups and logins in progress
    currentUser,  \* the uid of currentUser, or None
    taps,         \* taps used
    faults,       \* faults used
    overlap,      \* history: <<n, e>> when e's sign-up for n was open with another
    failed,       \* history: <<n, e>> when e's lookup of n failed
    broken,       \* history: emails whose sign-up was cut short after createUser
    crossed       \* history: <<d, e>> when another signed in on d during e's login
                  \*     or session

vars == <<accounts, profiles, pending, auth, flows, currentUser, taps, faults,
          overlap, failed, broken, crossed>>

firebase == <<accounts, profiles, pending>>
session  == <<auth, currentUser, crossed>>
causes   == <<overlap, failed, broken>>

-----------------------------------------------------------------------------
\* isPasswordValid: the pattern asks for a lower-case letter, a special
\* character, no character outside its class, and a length of eight.
isPasswordValid(p) ==
    /\ {"lower", "special"} \subseteq Kinds[p]
    /\ Kinds[p] \subseteq {"lower", "upper", "digit", "special"}
    /\ Length[p] >= 8

\* validateFields looks at the email and the password; not at the username.
validateFields(e, n, p) == e # Empty /\ isPasswordValid(p)

Flow == [dev   : Device,
         slot  : 1..MaxCalls,
         kind  : {"signUp", "logIn"},
         email : Email,
         name  : Username \cup {None},
         pass  : Password,
         phase : {"asked", "free", "taken", "created", "saving", "saved", "signedIn", "found"}]

\* The pending writes that device d shows and sends.
Mine(d) == {w \in pending[d] : w[3] = auth[d]}

\* The users with this name, as a lookup from device d finds them.
Holders(d, n) == {e \in Email : profiles[e] = n \/ \E w \in Mine(d) : w[1] = e /\ w[2] = n}

\* Mutant: the number of holders does not matter.
containsNever(holders) == FALSE

\* dbContainsUsername: true when the lookup gives exactly one user; none and
\* several are failures alike.
dbContainsUsername(holders) == Cardinality(holders) = 1

FreeSlots(d) == {s \in 1..MaxCalls : ~ \E f \in flows : f.dev = d /\ f.slot = s}
Becomes(f, phase) == flows' = (flows \ {f}) \cup {[f EXCEPT !.phase = phase]}
Ends(f) == flows' = flows \ {f}
Fault == faults < MaxFaults /\ faults' = faults + 1

\* Sign-ups that have found n free and whose profile is not on the server yet.
Open(n) ==
    {f.email : f \in {g \in flows : g.kind = "signUp" /\ g.name = n
                                    /\ g.phase \in {"free", "created", "saving"}}}
    \cup {e \in Email : \E d \in Device : \E w \in pending[d] : w[1] = e /\ w[2] = n}

Overlapping(f) ==
    LET others == Open(f.name) \ {f.email}
    IN  IF others = {} THEN {} ELSE {f.name} \X (others \cup {f.email})

\* Who else is logged in on the phone of f, or is logging in there.
Others(f) ==
    ({currentUser[f.dev]}
        \cup {g.email : g \in {h \in flows : h.dev = f.dev /\ h.phase \in {"signedIn", "found"}}})
    \ {None, f.email}

\* Firebase Auth takes the user of f for signed in.
SignsIn(f) ==
    /\ auth' = [auth EXCEPT ![f.dev] = f.email]
    /\ crossed' = crossed \cup {f.dev} \X Others(f)

-----------------------------------------------------------------------------
(* Sign-up *)

\* Both buttons are covered by the tab bar once somebody is logged in.
Tap(d, kind, e, n, p) ==
    /\ currentUser[d] = None
    /\ taps < MaxTaps
    /\ FreeSlots(d) # {}
    /\ taps' = taps + 1
    /\ flows' = flows \cup
           {[dev |-> d, slot |-> CHOOSE s \in FreeSlots(d) : TRUE, kind |-> kind,
             email |-> e, name |-> n, pass |-> p, phase |-> "asked"]}
    /\ UNCHANGED <<firebase, session, faults, causes>>

\* p and confirm are the two password fields.
createButtonTapped(d, e, n, p, confirm) ==
    /\ p = confirm
    /\ validateFields(e, n, p)
    /\ Tap(d, "signUp", e, n, p)

\* The lookup of the username is answered.
UsernameLookedUp(f) ==
    /\ f.kind = "signUp" /\ f.phase = "asked"
    /\ IF dbContainsUsername(Holders(f.dev, f.name))
       THEN Becomes(f, "taken") /\ UNCHANGED overlap
       ELSE /\ Becomes(f, "free")
            /\ overlap' = overlap \cup Overlapping(f)
    /\ UNCHANGED <<firebase, session, taps, faults, failed, broken>>

\* A failed lookup counts as a username that is free.
UsernameLookupFails(f) ==
    /\ f.kind = "signUp" /\ f.phase = "asked"
    /\ Fault
    /\ Becomes(f, "free")
    /\ failed' = failed \cup {<<f.name, f.email>>}
    /\ UNCHANGED <<firebase, session, taps, overlap, broken>>

\* "Username Taken".
UsernameTaken(f) ==
    /\ f.phase = "taken"
    /\ Ends(f)
    /\ UNCHANGED <<firebase, session, taps, faults, causes>>

\* createUser: Firebase Auth gives an email one account.
AccountCreated(f) ==
    /\ f.phase = "free"
    /\ accounts[f.email] = None
    /\ accounts' = [accounts EXCEPT ![f.email] = f.pass]
    /\ SignsIn(f)
    /\ Becomes(f, "created")
    /\ UNCHANGED <<profiles, pending, currentUser, taps, faults, causes>>

\* The email has an account.  The error goes to a delegate nobody sets: the
\* sign-up just ends.
AccountRefused(f) ==
    /\ f.phase = "free"
    /\ accounts[f.email] # None
    /\ Ends(f)
    /\ UNCHANGED <<firebase, session, taps, faults, causes>>

\* createUser fails for another reason, and no account is made.
AccountFails(f) ==
    /\ f.phase = "free"
    /\ Fault
    /\ Ends(f)
    /\ UNCHANGED <<firebase, session, taps, causes>>

\* The account is made, and the answer lost on the way back.
AccountAnswerLost(f) ==
    /\ f.phase = "free"
    /\ accounts[f.email] = None
    /\ Fault
    /\ accounts' = [accounts EXCEPT ![f.email] = f.pass]
    /\ broken' = broken \cup {f.email}
    /\ Ends(f)
    /\ UNCHANGED <<profiles, pending, session, taps, overlap, failed>>

\* Mutant: the profile is not written.
writeNothing(f) == pending' = pending

\* Mutant: uuid and username swapped.
writeSwapped(f) == pending' = [pending EXCEPT ![f.dev] = @ \cup {<<f.name, f.email, auth[f.dev]>>}]

\* setData of the new user's document, in the queue of whoever is signed in.
writeProfile(f) ==
    pending' = [pending EXCEPT ![f.dev] = @ \cup {<<f.email, f.name, auth[f.dev]>>}]

makeUserInDB(f) ==
    /\ f.phase = "created"
    /\ writeProfile(f)
    /\ Becomes(f, "saving")
    /\ UNCHANGED <<accounts, profiles, session, taps, faults, causes>>

\* The sign-up on d that waits for the write of the profile of e.
Notify(d, e) ==
    flows' = {IF f.dev = d /\ f.email = e /\ f.phase = "saving"
              THEN [f EXCEPT !.phase = "saved"] ELSE f : f \in flows}

\* Only the queue of the signed-in user is sent.
ProfileCommitted(d, w) ==
    /\ w \in Mine(d)
    /\ pending' = [pending EXCEPT ![d] = @ \ {w}]
    /\ profiles' = [profiles EXCEPT ![w[1]] = w[2]]
    /\ Notify(d, w[1])
    /\ UNCHANGED <<accounts, session, taps, faults, causes>>

\* The completion of setData does not look at the error.
ProfileRefused(d, w) ==
    /\ w \in Mine(d)
    /\ Fault
    /\ pending' = [pending EXCEPT ![d] = @ \ {w}]
    /\ broken' = broken \cup {w[1]}
    /\ Notify(d, w[1])
    /\ UNCHANGED <<accounts, profiles, session, taps, overlap, failed>>

\* Mutant: who has signed up is logged in.
SignUpLogsIn(f) ==
    /\ f.phase = "saved"
    /\ currentUser' = [currentUser EXCEPT ![f.dev] = f.email]
    /\ Ends(f)
    /\ UNCHANGED <<firebase, auth, crossed, taps, faults, causes>>

\* The toast "i logged u in"; currentUser stays what it was.
SignUpCompleted(f) ==
    /\ f.phase = "saved"
    /\ Ends(f)
    /\ UNCHANGED <<firebase, session, taps, faults, causes>>

-----------------------------------------------------------------------------
(* Login *)

logInButtonTapped(d, e, p) == Tap(d, "logIn", e, None, p)

\* signIn fails without an account and with another password than its own.
SignedIn(f) ==
    /\ f.kind = "logIn" /\ f.phase = "asked"
    /\ IF accounts[f.email] = f.pass
       THEN Becomes(f, "signedIn") /\ SignsIn(f)
       ELSE Ends(f) /\ UNCHANGED <<auth, crossed>>
    /\ UNCHANGED <<firebase, currentUser, taps, faults, causes>>

\* A call of the login fails, to sign in or to look the user up.
LogInFails(f) ==
    /\ f.phase = "signedIn" \/ (f.kind = "logIn" /\ f.phase = "asked")
    /\ Fault
    /\ Ends(f)
    /\ UNCHANGED <<firebase, session, taps, causes>>

\* Mutant: no look at how many documents were found.
noGuard(d, e) == TRUE

\* grabUserFromUuid: a document with this uuid was found.
grabUserFromUuid(d, e) == profiles[e] # None \/ \E w \in Mine(d) : w[1] = e

\* With no such document the error is presented.
UserLookedUp(f) ==
    /\ f.phase = "signedIn"
    /\ IF grabUserFromUuid(f.dev, f.email)
       THEN Becomes(f, "found") ELSE Ends(f)
    /\ UNCHANGED <<firebase, session, taps, faults, causes>>

UserGrabbed(f) ==
    /\ f.phase = "found"
    /\ currentUser' = [currentUser EXCEPT ![f.dev] = f.email]
    /\ Ends(f)
    /\ UNCHANGED <<firebase, auth, crossed, taps, faults, causes>>

\* The process dies; pending writes and the signed-in user are on disk and
\* survive it.
Crash(d) ==
    /\ Fault
    /\ flows' = {f \in flows : f.dev # d}
    /\ currentUser' = [currentUser EXCEPT ![d] = None]
    /\ broken' = broken \cup {f.email : f \in {g \in flows : g.dev = d /\ g.phase = "created"}}
    /\ crossed' = {c \in crossed : c[1] # d}
    /\ UNCHANGED <<firebase, auth, taps, overlap, failed>>

-----------------------------------------------------------------------------
Init ==
    /\ accounts = [e \in Email |-> None]
    /\ profiles = [e \in Email |-> None]
    /\ pending = [d \in Device |-> {}]
    /\ auth = [d \in Device |-> None]
    /\ flows = {}
    /\ currentUser = [d \in Device |-> None]
    /\ taps = 0
    /\ faults = 0
    /\ overlap = {}
    /\ failed = {}
    /\ broken = {}
    /\ crossed = {}

Answer(f) ==
    \/ UsernameLookedUp(f)
    \/ AccountCreated(f)
    \/ AccountRefused(f)
    \/ SignedIn(f)
    \/ UserLookedUp(f)

Completion(f) ==
    \/ UsernameTaken(f)
    \/ makeUserInDB(f)
    \/ SignUpCompleted(f)
    \/ UserGrabbed(f)

Next ==
    \/ \E d \in Device : \/ \E e \in Email \cup {Empty}, n \in Username, p, c \in Password :
                                createButtonTapped(d, e, n, p, c)
                         \/ \E e \in Email, p \in Password : logInButtonTapped(d, e, p)
                         \/ \E w \in pending[d] : ProfileCommitted(d, w) \/ ProfileRefused(d, w)
                         \/ Crash(d)
    \/ \E f \in flows : \/ Answer(f)
                        \/ Completion(f)
                        \/ UsernameLookupFails(f)
                        \/ AccountFails(f)
                        \/ AccountAnswerLost(f)
                        \/ LogInFails(f)

Spec == Init /\ [][Next]_vars

\* Firebase answers, commits what the signed-in user has queued, and the main
\* queue runs the completions.
Fairness ==
    \A d \in Device :
        /\ WF_vars(\E f \in flows : f.dev = d /\ Answer(f))
        /\ WF_vars(\E f \in flows : f.dev = d /\ Completion(f))
        /\ WF_vars(\E w \in pending[d] : ProfileCommitted(d, w))

FairSpec == Spec /\ Fairness

-----------------------------------------------------------------------------
(* Properties *)

\* Every variable keeps its type (what the flows of SignUpViewController and
\* LoginViewController2 hold, and what createUser and setData store).
TypeOK ==
    /\ accounts \in [Email -> Password \cup {None}]
    /\ profiles \in [Email -> Username \cup {None}]
    /\ pending \in [Device -> SUBSET (Email \X Username \X Email)]
    /\ auth \in [Device -> Email \cup {None}]
    /\ flows \in SUBSET Flow
    /\ currentUser \in [Device -> Email \cup {None}]
    /\ taps \in 0..MaxTaps
    /\ faults \in 0..MaxFaults
    /\ overlap \in SUBSET (Username \X Email)
    /\ failed \in SUBSET (Username \X Email)
    /\ broken \in SUBSET Email
    /\ crossed \in SUBSET (Device \X Email)

\* Two users share a username only where the check of dbContainsUsername could
\* not see it: the lookup of one who has it failed, or one's sign-up was between
\* its lookup and the commit of its profile when another's for that name was.
\* (A third user gets in after that: several holders count as none.)
NameClashHasCause ==
    \A a, b \in Email :
        a # b /\ profiles[a] # None /\ profiles[a] = profiles[b] =>
            \E e \in Email : /\ profiles[e] = profiles[a]
                             /\ <<profiles[e], e>> \in overlap \cup failed

\* The profile of e is there, or on its way from device d.
HasProfile(d, e) == profiles[e] # None \/ \E w \in pending[d] : w[1] = e

\* Whoever is logged in has a profile, or one on the way from that device, or
\* had its write refused: the login never makes a user out of a bare account.
LoggedInHasProfile ==
    \A d \in Device : \A e \in Email :
        currentUser[d] = e => HasProfile(d, e) \/ e \in broken

\* The app and Firebase Auth agree on who is logged in, unless another signed up
\* or signed in on the phone while that login, or its session, went on: the uid
\* of LoginViewController2.swift:33 is a whole lookup old at line 36.
SessionIsOne ==
    \A d \in Device :
        currentUser[d] # None => currentUser[d] = auth[d] \/ <<d, currentUser[d]>> \in crossed

\* The profile of e waits on a phone where its writer is not signed in any more.
Stranded(e) == \E d \in Device : \E w \in pending[d] \ Mine(d) : w[1] = e

\* Every account gets its profile, unless its sign-up was cut short after
\* createUser (process death, lost answer, refused write), which nothing
\* repairs, or its write is stranded, which ends when its writer signs in.
AccountGetsProfile ==
    \A e \in Email :
        accounts[e] # None ~> (profiles[e] # None \/ e \in broken \/ Stranded(e))
=============================================================================
