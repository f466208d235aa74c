---------------------------- MODULE Accounts_proofs ----------------------------
(***************************************************************************)
(* Theorems about Accounts for every set of devices, emails, usernames and   *)
(* passwords, and every bound.                                              *)
(*                                                                         *)
(* Two users get one username over many steps: a lookup, an account, a       *)
(* write, a commit.  The invariant follows the claim to a name through all   *)
(* of them, and counts the profile writes of an account, so that a committed *)
(* username is never overwritten by another one.                            *)
(***************************************************************************)
EXTENDS Accounts, FiniteSetTheorems, TLAPS

\* What a flow may be in each phase.
FlowsFit ==
    \A f \in flows :
        /\ f.phase \in {"free", "taken", "created", "saving", "saved"} => f.kind = "signUp"
        /\ f.kind = "signUp" => f.name \in Username

\* createUser succeeds once for an email; so one sign-up goes on to write a
\* profile, and one write of it is ever pending.
CreatedOnce ==
    \A f \in flows : f.phase = "created" =>
        /\ accounts[f.email] # None /\ profiles[f.email] = None
        /\ auth[f.dev] # None
        /\ \A d \in Device : \A w \in pending[d] : w[1] # f.email
        /\ \A g \in flows : g.phase = "created" /\ g.email = f.email => g = f

WrittenOnce ==
    \A d \in Device : \A w \in pending[d] :
        /\ accounts[w[1]] # None /\ profiles[w[1]] = None
        /\ \A c \in Device : \A v \in pending[c] : v[1] = w[1] => c = d /\ v = w

ProfilesHaveAccounts ==
    \A e \in Email : profiles[e] # None => accounts[e] # None

\* The emails that have the name n, or may still get it.
Claim(n) == Open(n) \cup {e \in Email : profiles[e] = n}

Marked(n, e) == <<n, e>> \in overlap \cup failed

Excused(n) == \E e \in Email : profiles[e] = n /\ Marked(n, e)

\* Of two claims to a name one is marked; or a user who has it already is: then
\* others may slip in unmarked, because several holders count as none.
ClaimsMarked ==
    \A n \in Username :
        Excused(n) \/ \A a, b \in Claim(n) : a # b => Marked(n, a) \/ Marked(n, b)

\* A profile that a login has found is still there, or on its way.
Backed(d, e) == HasProfile(d, e) \/ e \in broken

FoundIsBacked ==
    \A f \in flows : f.phase = "found" => Backed(f.dev, f.email)

IInv ==
    /\ TypeOK
    /\ FlowsFit
    /\ CreatedOnce
    /\ WrittenOnce
    /\ ProfilesHaveAccounts
    /\ ClaimsMarked
    /\ FoundIsBacked
    /\ LoggedInHasProfile

-----------------------------------------------------------------------------
(* Flows and claims *)

Phases == {"asked", "free", "taken", "created", "saving", "saved", "signedIn", "found"}

\* A completion moves a flow on and leaves the rest of it alone.
LEMMA PhaseOnly ==
    ASSUME NEW f \in Flow, NEW phase \in Phases
    PROVE  LET g == [f EXCEPT !.phase = phase] IN
           /\ g \in Flow /\ g.phase = phase
           /\ g.dev = f.dev /\ g.slot = f.slot /\ g.kind = f.kind
           /\ g.email = f.email /\ g.name = f.name /\ g.pass = f.pass
BY DEF Flow, Phases

\* The parts of a flow, one screen's way through sign-up or login.
LEMMA FlowInFlows ==
    ASSUME TypeOK, NEW f \in flows
    PROVE  f \in Flow /\ f.dev \in Device /\ f.email \in Email /\ f.pass \in Password
           /\ f.phase \in Phases /\ f.kind \in {"signUp", "logIn"}
BY DEF TypeOK, Flow, Phases

\* A username is not the value for no username.
LEMMA UsernameIsSome ==
    ASSUME NEW n \in Username
    PROVE  n # None
BY AccountsAssumption

\* Who has the name, writes it, or is about to, claims it.
LEMMA ClaimMembers ==
    ASSUME NEW n, NEW e
    PROVE  e \in Claim(n) <=>
              \/ \E f \in flows : /\ f.kind = "signUp" /\ f.name = n /\ f.email = e
                                  /\ f.phase \in {"free", "created", "saving"}
              \/ e \in Email /\ \E d \in Device : \E w \in pending[d] : w[1] = e /\ w[2] = n
              \/ e \in Email /\ profiles[e] = n
BY DEF Claim, Open

\* While no new claim is made, and no committed username is overwritten, the
\* marks still cover all clashes.
LEMMA ClaimsKept ==
    ASSUME IInv,
           \A n \in Username : Claim(n)' \subseteq Claim(n),
           \A e \in Email : profiles[e] \in Username => profiles'[e] = profiles[e],
           overlap \subseteq overlap', failed \subseteq failed'
    PROVE  ClaimsMarked'
<1>1. \A n, e : Marked(n, e) => Marked(n, e)'
  BY DEF Marked
<1>2. \A n \in Username : Excused(n) => Excused(n)'
  BY <1>1 DEF Excused
<1>3. ASSUME NEW n \in Username, ~ Excused(n)'
      PROVE  \A a, b \in Claim(n)' : a # b => Marked(n, a)' \/ Marked(n, b)'
  <2>1. \A a, b \in Claim(n) : a # b => Marked(n, a) \/ Marked(n, b)
    BY <1>2, <1>3 DEF IInv, ClaimsMarked
  <2>2. Claim(n)' \subseteq Claim(n)
    BY <1>3
  <2>3. QED
    BY <1>1, <2>1, <2>2
<1>4. QED
  BY <1>3 DEF ClaimsMarked

\* No new claim is made when every open sign-up, every pending write and every
\* profile belongs to a claim that was there.
LEMMA NoNewClaim ==
    ASSUME NEW n,
           \A g \in flows' : /\ g.kind = "signUp" /\ g.name = n
                             /\ g.phase \in {"free", "created", "saving"}
                             => g.email \in Claim(n),
           \A e \in Email : (\E d \in Device : \E w \in pending'[d] : w[1] = e /\ w[2] = n)
                              => e \in Claim(n),
           \A e \in Email : profiles'[e] = n => e \in Claim(n)
    PROVE  Claim(n)' \subseteq Claim(n)
<1> SUFFICES ASSUME NEW e \in Claim(n)'
             PROVE  e \in Claim(n)
  OBVIOUS
<1>1. \/ \E f \in flows' : /\ f.kind = "signUp" /\ f.name = n /\ f.email = e
                           /\ f.phase \in {"free", "created", "saving"}
      \/ e \in Email /\ \E d \in Device : \E w \in pending'[d] : w[1] = e /\ w[2] = n
      \/ e \in Email /\ profiles'[e] = n
  BY DEF Claim, Open
<1>2. QED
  BY <1>1

-----------------------------------------------------------------------------
(* Steps that leave Firebase alone *)

\* A flow that may be there after such a step.
Settled(g) ==
    /\ g \in Flow
    /\ g.phase \in {"free", "taken", "created", "saving", "saved"} => g.kind = "signUp"
    /\ g.kind = "signUp" => g.name \in Username
    /\ g.phase = "created" => g \in flows
    /\ g.phase = "found" => Backed(g.dev, g.email)

\* All of the invariant except the marks.
Unmarked ==
    /\ TypeOK /\ FlowsFit /\ CreatedOnce /\ WrittenOnce /\ ProfilesHaveAccounts
    /\ FoundIsBacked /\ LoggedInHasProfile

\* What every step does to who is signed in: nobody is signed out.
SessionMoves ==
    /\ auth' \in [Device -> Email \cup {None}]
    /\ crossed' \in SUBSET (Device \X Email)
    /\ \A d \in Device : auth[d] # None => auth'[d] # None

\* A step that leaves the session alone is one of them.
LEMMA SessionRests ==
    ASSUME IInv, UNCHANGED <<auth, crossed>>
    PROVE  SessionMoves
BY DEF SessionMoves, IInv, TypeOK

\* So is a sign-in, after which somebody is signed in.
LEMMA SessionSignsIn ==
    ASSUME IInv, NEW f \in flows, SignsIn(f)
    PROVE  /\ SessionMoves
           /\ auth'[f.dev] = f.email /\ f.email # None
           /\ \A d \in Device : d # f.dev => auth'[d] = auth[d]
<1>1. f.dev \in Device /\ f.email \in Email /\ f.email # None
  BY FlowInFlows, AccountsAssumption DEF IInv
<1>2. /\ auth' = [auth EXCEPT ![f.dev] = f.email]
      /\ auth \in [Device -> Email \cup {None}]
  BY DEF SignsIn, IInv, TypeOK
<1>3. Others(f) \subseteq Email
  <2>1. currentUser[f.dev] \in Email \cup {None}
    BY <1>1 DEF IInv, TypeOK
  <2>2. \A g \in flows : g.email \in Email
    BY FlowInFlows DEF IInv
  <2>3. QED
    BY <2>1, <2>2 DEF Others
<1>4. crossed' \in SUBSET (Device \X Email)
  BY <1>1, <1>3 DEF SignsIn, IInv, TypeOK
<1>5. QED
  BY <1>1, <1>2, <1>4 DEF SessionMoves

\* What the invariant says of each flow that is on its way.
LEMMA OldFlowsSettled ==
    ASSUME IInv, NEW g \in flows
    PROVE  Settled(g)
BY FlowInFlows DEF Settled, IInv, FlowsFit, FoundIsBacked

\* A step that changes flows, and neither Firebase nor what is pending, keeps the
\* invariant but for the marks.
LEMMA FlowsMove ==
    ASSUME IInv,
           UNCHANGED firebase, SessionMoves,
           \A g \in flows' : Settled(g),
           currentUser' \in [Device -> Email \cup {None}],
           \A d \in Device, e \in Email : currentUser'[d] = e => Backed(d, e),
           taps' \in 0..MaxTaps, faults' \in 0..MaxFaults,
           overlap' \in SUBSET (Username \X Email), failed' \in SUBSET (Username \X Email),
           broken' \in SUBSET Email, broken \subseteq broken'
    PROVE  Unmarked'
<1>1. UNCHANGED <<accounts, profiles, pending>>
  BY DEF firebase
<1>2. TypeOK'
  BY <1>1 DEF IInv, TypeOK, Settled, SessionMoves
<1>3. FlowsFit'
  BY DEF FlowsFit, Settled
<1>4. CreatedOnce' /\ WrittenOnce' /\ ProfilesHaveAccounts'
  <2>1. ASSUME NEW g \in flows', g.phase = "created"
        PROVE  /\ g \in flows /\ auth'[g.dev] # None
               /\ accounts'[g.email] # None /\ profiles'[g.email] = None
               /\ \A d \in Device : \A w \in pending'[d] : w[1] # g.email
               /\ \A h \in flows : h.phase = "created" /\ h.email = g.email => h = g
    <3>1. g \in flows /\ g.dev \in Device
      BY <2>1, FlowInFlows DEF Settled, IInv
    <3>2. QED
      BY <1>1, <2>1, <3>1 DEF IInv, CreatedOnce, SessionMoves
  <2>2. CreatedOnce'
    BY <2>1 DEF CreatedOnce
  <2>3. WrittenOnce' /\ ProfilesHaveAccounts'
    BY <1>1 DEF IInv, WrittenOnce, ProfilesHaveAccounts
  <2>4. QED
    BY <2>2, <2>3
<1>5. \A d, e : Backed(d, e) => Backed(d, e)'
  BY <1>1 DEF Backed, HasProfile
<1>6. FoundIsBacked' /\ LoggedInHasProfile'
  BY <1>5 DEF FoundIsBacked, LoggedInHasProfile, Settled, Backed
<1>7. QED
  BY <1>2, <1>3, <1>4, <1>6 DEF Unmarked

\* The two parts together are the invariant.
LEMMA UnmarkedAndMarks ==
    ASSUME Unmarked', ClaimsMarked'
    PROVE  IInv'
BY DEF Unmarked, IInv

\* Flows that end, a user that is grabbed, a process that dies.
LEMMA FlowsEnd ==
    ASSUME IInv, flows' \subseteq flows,
           UNCHANGED <<firebase, overlap, failed>>, SessionMoves,
           currentUser' \in [Device -> Email \cup {None}],
           \A d \in Device, e \in Email : currentUser'[d] = e => Backed(d, e),
           taps' \in 0..MaxTaps, faults' \in 0..MaxFaults,
           broken' \in SUBSET Email, broken \subseteq broken'
    PROVE  IInv'
<1>1. Unmarked'
  BY FlowsMove, OldFlowsSettled DEF IInv, TypeOK
<1>2. \A n \in Username : Claim(n)' \subseteq Claim(n)
  BY ClaimMembers, NoNewClaim DEF firebase
<1>3. ClaimsMarked'
  BY <1>2, ClaimsKept DEF firebase
<1>4. QED
  BY <1>1, <1>3, UnmarkedAndMarks

-----------------------------------------------------------------------------
(* The steps *)

\* Nobody has an account, a profile or a pending write.
LEMMA InitInv ==
    ASSUME Init
    PROVE  IInv
<1>1. TypeOK
  BY AccountsAssumption DEF Init, TypeOK
<1>2. FlowsFit /\ CreatedOnce /\ WrittenOnce /\ ProfilesHaveAccounts /\ FoundIsBacked
  BY DEF Init, FlowsFit, CreatedOnce, WrittenOnce, ProfilesHaveAccounts, FoundIsBacked
<1>3. \A n \in Username : Claim(n) = {}
  BY UsernameIsSome DEF Init, Claim, Open
<1>4. ClaimsMarked
  BY <1>3 DEF ClaimsMarked
<1>5. LoggedInHasProfile
  BY AccountsAssumption DEF Init, LoggedInHasProfile
<1>6. QED
  BY <1>1, <1>2, <1>4, <1>5 DEF IInv

\* Nobody new is logged in while currentUser stays as it is.
LEMMA LoggedInIsBacked ==
    ASSUME IInv
    PROVE  \A d \in Device, e \in Email : currentUser[d] = e => Backed(d, e)
BY DEF IInv, LoggedInHasProfile, Backed

\* A flow that moves on without a profile being found or an account made.
LEMMA MovesOn ==
    ASSUME IInv, NEW f \in flows, NEW phase \in Phases, Becomes(f, phase),
           UNCHANGED <<firebase, currentUser, taps, broken>>, SessionMoves,
           faults' \in 0..MaxFaults,
           overlap' \in SUBSET (Username \X Email), failed' \in SUBSET (Username \X Email),
           phase \in {"free", "taken"} => f.kind = "signUp",
           phase \notin {"created", "saving", "saved"},
           phase = "found" => Backed(f.dev, f.email)
    PROVE  Unmarked'
<1> DEFINE h == [f EXCEPT !.phase = phase]
<1>1. f \in Flow
  BY FlowInFlows DEF IInv
<1>2. /\ h \in Flow /\ h.phase = phase
      /\ h.dev = f.dev /\ h.kind = f.kind /\ h.email = f.email /\ h.name = f.name
  BY <1>1, PhaseOnly
<1> HIDE DEF h
<1>3. Settled(h)
  BY <1>2 DEF Settled, IInv, FlowsFit
<1>4. \A g \in flows' : Settled(g)
  BY <1>3, OldFlowsSettled DEF Becomes, h
<1>5. QED
  BY <1>4, FlowsMove, LoggedInIsBacked DEF IInv, TypeOK

\* A new flow waits for its first answer.
LEMMA TapInv ==
    ASSUME IInv, NEW d \in Device, NEW kind \in {"signUp", "logIn"}, NEW e \in Email,
           NEW n \in Username \cup {None}, NEW p \in Password,
           kind = "signUp" => n \in Username,
           Tap(d, kind, e, n, p)
    PROVE  IInv'
<1> DEFINE s == CHOOSE s \in FreeSlots(d) : TRUE
           h == [dev |-> d, slot |-> s, kind |-> kind, email |-> e, name |-> n, pass |-> p,
                 phase |-> "asked"]
<1>1. s \in 1..MaxCalls
  BY DEF Tap, FreeSlots
<1>2. h \in Flow /\ h.phase = "asked" /\ h.kind = kind /\ h.name = n
  BY <1>1 DEF Flow
<1>3. flows' = flows \cup {h}
  BY DEF Tap
<1> HIDE DEF h
<1>4. Settled(h)
  BY <1>2 DEF Settled
<1>5. \A g \in flows' : Settled(g)
  BY <1>3, <1>4, OldFlowsSettled
<1>6. /\ taps' \in 0..MaxTaps /\ UNCHANGED <<firebase, currentUser, faults, causes>>
      /\ SessionMoves
  BY AccountsAssumption, SessionRests DEF Tap, session, IInv, TypeOK
<1>7. Unmarked'
  BY <1>5, <1>6, FlowsMove, LoggedInIsBacked DEF IInv, TypeOK, causes
<1>8. \A m \in Username : Claim(m)' \subseteq Claim(m)
  <2> SUFFICES ASSUME NEW m \in Username
               PROVE  Claim(m)' \subseteq Claim(m)
    OBVIOUS
  <2>1. \A g \in flows' : /\ g.kind = "signUp" /\ g.name = m
                          /\ g.phase \in {"free", "created", "saving"}
                          => g.email \in Claim(m)
    BY <1>2, <1>3, ClaimMembers
  <2>2. QED
    BY <1>6, <2>1, ClaimMembers, NoNewClaim DEF firebase
<1>9. ClaimsMarked'
  BY <1>6, <1>8, ClaimsKept DEF firebase, causes
<1>10. QED
  BY <1>7, <1>9, UnmarkedAndMarks

\* Who claims the name after f has found it free: whoever did before, and f.
LEMMA FreeClaims ==
    ASSUME IInv, NEW f \in flows, f.kind = "signUp", Becomes(f, "free"), UNCHANGED firebase
    PROVE  /\ \A n \in Username : n # f.name => Claim(n)' \subseteq Claim(n)
           /\ Claim(f.name)' \subseteq Claim(f.name) \cup {f.email}
<1> DEFINE h == [f EXCEPT !.phase = "free"]
<1>1. f \in Flow
  BY FlowInFlows DEF IInv
<1>2. h.phase = "free" /\ h.email = f.email /\ h.name = f.name
  BY <1>1, PhaseOnly DEF Phases
<1>3. flows' = (flows \ {f}) \cup {h}
  BY DEF Becomes
<1> HIDE DEF h
<1>4. ASSUME NEW n \in Username, NEW e \in Claim(n)'
      PROVE  e \in Claim(n) \/ (n = f.name /\ e = f.email)
  <2>1. \/ \E g \in flows' : /\ g.kind = "signUp" /\ g.name = n /\ g.email = e
                             /\ g.phase \in {"free", "created", "saving"}
        \/ e \in Email /\ \E d \in Device : \E w \in pending[d] : w[1] = e /\ w[2] = n
        \/ e \in Email /\ profiles[e] = n
    BY DEF Claim, Open, firebase
  <2>2. QED
    BY <1>2, <1>3, <2>1, ClaimMembers
<1>5. f.name \in Username
  BY DEF IInv, FlowsFit
<1>6. QED
  BY <1>4, <1>5

\* A sign-up that finds the name free marks itself and all the open ones; those
\* who have it already are a single one, whom the lookup would have found, or
\* include a marked one.
LEMMA FreeKeepsMarks ==
    ASSUME IInv, NEW f \in flows, f.kind = "signUp", Becomes(f, "free"), UNCHANGED firebase,
           ~ dbContainsUsername(Holders(f.dev, f.name)),
           overlap' = overlap \cup Overlapping(f), UNCHANGED failed
    PROVE  ClaimsMarked'
<1>1. \A n, e : Marked(n, e) => Marked(n, e)'
  BY DEF Marked
<1>2. \A n \in Username : Excused(n) => Excused(n)'
  BY <1>1 DEF Excused, firebase
<1>3. ASSUME NEW n \in Username, n # f.name
      PROVE  Excused(n)' \/ \A a, b \in Claim(n)' : a # b => Marked(n, a)' \/ Marked(n, b)'
  <2>1. Claim(n)' \subseteq Claim(n)
    BY <1>3, FreeClaims
  <2>2. QED
    BY <1>1, <1>2, <1>3, <2>1 DEF IInv, ClaimsMarked
<1> DEFINE m == f.name
<1>4. ASSUME ~ Excused(m), NEW a \in Claim(m)', NEW b \in Claim(m)', a # b
      PROVE  Marked(m, a)' \/ Marked(m, b)'
  <2>1. m \in Username /\ f.email \in Email /\ f.dev \in Device
    BY FlowInFlows DEF IInv, FlowsFit
  <2>2. \A c, d \in Claim(m) : c # d => Marked(m, c) \/ Marked(m, d)
    BY <1>4, <2>1 DEF IInv, ClaimsMarked
  <2>3. a \in Claim(m) \cup {f.email} /\ b \in Claim(m) \cup {f.email}
    BY <1>4, FreeClaims
  <2>4. ASSUME NEW c \in Claim(m), c # f.email, f.email \notin Claim(m)
        PROVE  Marked(m, f.email)'
    <3>1. CASE Open(m) \ {f.email} # {}
      BY <3>1 DEF Overlapping, Marked
    <3>2. CASE Open(m) \ {f.email} = {}
      <4>1. \A d \in Claim(m) \ {f.email} : d \in Email /\ profiles[d] = m
        BY <3>2 DEF Claim
      <4>2. Holders(f.dev, m) \subseteq Claim(m)
        BY <2>1, ClaimMembers DEF Holders, Mine
      <4>3. c \in Holders(f.dev, m)
        BY <2>4, <4>1 DEF Holders
      <4>4. PICK d \in Holders(f.dev, m) : d # c
        <5>1. Holders(f.dev, m) # {c}
          BY FS_Singleton DEF dbContainsUsername
        <5>2. QED
          BY <4>3, <5>1
      <4>5. d \in Claim(m) \ {f.email}
        BY <2>4, <4>2, <4>4
      <4>6. Excused(m)
        BY <2>2, <2>4, <4>1, <4>4, <4>5 DEF Excused
      <4>7. QED
        BY <1>4, <4>6
    <3>3. QED
      BY <3>1, <3>2
  <2>5. CASE a \in Claim(m) /\ b \in Claim(m)
    BY <1>1, <1>4, <2>2, <2>5
  <2>6. CASE a \in Claim(m) /\ b = f.email /\ f.email \notin Claim(m)
    BY <1>4, <2>4, <2>6
  <2>7. CASE b \in Claim(m) /\ a = f.email /\ f.email \notin Claim(m)
    BY <1>4, <2>4, <2>7
  <2>8. QED
    BY <1>4, <2>3, <2>5, <2>6, <2>7
<1>5. m \in Username
  BY DEF IInv, FlowsFit
<1>6. QED
  BY <1>2, <1>3, <1>4, <1>5 DEF ClaimsMarked

\* A username that is found free is a claim, and claims that overlap are marked.
LEMMA UsernameLookedUpInv ==
    ASSUME IInv, NEW f \in flows, UsernameLookedUp(f)
    PROVE  IInv'
<1>1. /\ f.kind = "signUp" /\ f.name \in Username /\ f.email \in Email
      /\ UNCHANGED <<firebase, currentUser, taps, faults, failed, broken>> /\ SessionMoves
  BY FlowInFlows, SessionRests DEF UsernameLookedUp, session, IInv, FlowsFit
<1>2. CASE dbContainsUsername(Holders(f.dev, f.name))
  <2>1. Becomes(f, "taken") /\ UNCHANGED overlap
    BY <1>2 DEF UsernameLookedUp
  <2>2. Unmarked'
    BY <1>1, <2>1, MovesOn DEF Phases, IInv, TypeOK
  <2>3. \A n \in Username : Claim(n)' \subseteq Claim(n)
    <3> SUFFICES ASSUME NEW n \in Username
                 PROVE  Claim(n)' \subseteq Claim(n)
      OBVIOUS
    <3>1. [f EXCEPT !.phase = "taken"].phase = "taken"
      BY FlowInFlows, PhaseOnly DEF Phases, IInv
    <3>2. \A g \in flows' : /\ g.kind = "signUp" /\ g.name = n
                            /\ g.phase \in {"free", "created", "saving"}
                            => g.email \in Claim(n)
      BY <2>1, <3>1, ClaimMembers DEF Becomes
    <3>3. QED
      BY <1>1, <3>2, ClaimMembers, NoNewClaim DEF firebase
  <2>4. ClaimsMarked'
    BY <1>1, <2>1, <2>3, ClaimsKept DEF firebase
  <2>5. QED
    BY <2>2, <2>4, UnmarkedAndMarks
<1>3. CASE ~ dbContainsUsername(Holders(f.dev, f.name))
  <2>1. Becomes(f, "free") /\ overlap' = overlap \cup Overlapping(f)
    BY <1>3 DEF UsernameLookedUp
  <2>2. Overlapping(f) \subseteq Username \X Email
    <3>1. Open(f.name) \subseteq Email
      BY FlowInFlows DEF Open, IInv
    <3>2. QED
      BY <1>1, <3>1 DEF Overlapping
  <2>3. Unmarked'
    BY <1>1, <2>1, <2>2, MovesOn DEF Phases, IInv, TypeOK
  <2>4. ClaimsMarked'
    BY <1>1, <1>3, <2>1, FreeKeepsMarks
  <2>5. QED
    BY <2>3, <2>4, UnmarkedAndMarks
<1>4. QED
  BY <1>2, <1>3

\* A failed lookup marks the one whose lookup it was.
LEMMA UsernameLookupFailsInv ==
    ASSUME IInv, NEW f \in flows, UsernameLookupFails(f)
    PROVE  IInv'
<1>1. /\ f.kind = "signUp" /\ f.name \in Username /\ f.email \in Email
      /\ Becomes(f, "free")
      /\ failed' = failed \cup {<<f.name, f.email>>}
      /\ UNCHANGED <<firebase, currentUser, taps, overlap, broken>> /\ SessionMoves
  BY FlowInFlows, SessionRests DEF UsernameLookupFails, session, IInv, FlowsFit
<1>2. faults' \in 0..MaxFaults
  BY AccountsAssumption DEF UsernameLookupFails, Fault, IInv, TypeOK
<1>3. Unmarked'
  BY <1>1, <1>2, MovesOn DEF Phases, IInv, TypeOK
<1>4. (\A n, e : Marked(n, e) => Marked(n, e)') /\ Marked(f.name, f.email)'
  BY <1>1 DEF Marked
<1>5. \A n \in Username : Excused(n) => Excused(n)'
  BY <1>1, <1>4 DEF Excused, firebase
<1>6. ASSUME NEW n \in Username
      PROVE  Claim(n)' \subseteq Claim(n) \cup {e \in {f.email} : Marked(n, e)'}
  BY <1>1, <1>4, FreeClaims
<1>7. ClaimsMarked'
  BY <1>4, <1>5, <1>6 DEF IInv, ClaimsMarked
<1>8. QED
  BY <1>3, <1>7, UnmarkedAndMarks

\* The account of an email is made once: no profile of it was written before.
LEMMA AccountMadeEffect ==
    ASSUME IInv, NEW f \in flows, accounts[f.email] = None,
           accounts' = [accounts EXCEPT ![f.email] = f.pass],
           UNCHANGED <<profiles, pending>>
    PROVE  /\ accounts' \in [Email -> Password \cup {None}]
           /\ accounts'[f.email] # None
           /\ \A e \in Email : accounts[e] # None => accounts'[e] # None
           /\ profiles[f.email] = None
           /\ \A d \in Device : \A w \in pending[d] : w[1] # f.email
           /\ \A g \in flows : g.phase = "created" => g.email # f.email
           /\ WrittenOnce' /\ ProfilesHaveAccounts'
           /\ \A d, e : Backed(d, e) => HasProfile(d, e)' \/ e \in broken
<1>1. f.email \in Email /\ f.pass \in Password /\ f.pass # None
  BY FlowInFlows, AccountsAssumption DEF IInv
<1>2. /\ accounts' \in [Email -> Password \cup {None}]
      /\ accounts'[f.email] = f.pass
      /\ \A e \in Email : e # f.email => accounts'[e] = accounts[e]
  BY <1>1 DEF IInv, TypeOK
<1>3. /\ profiles[f.email] = None
      /\ \A d \in Device : \A w \in pending[d] : w[1] # f.email
      /\ \A g \in flows : g.phase = "created" => g.email # f.email
  BY <1>1 DEF IInv, ProfilesHaveAccounts, WrittenOnce, CreatedOnce
<1>4. \A e \in Email : accounts[e] # None => accounts'[e] # None
  BY <1>1, <1>2
<1>5. \A d \in Device : \A w \in pending[d] : w[1] \in Email
  BY DEF IInv, TypeOK
<1>6. WrittenOnce'
  BY <1>4, <1>5 DEF IInv, WrittenOnce
<1>7. ProfilesHaveAccounts'
  BY <1>4 DEF IInv, ProfilesHaveAccounts
<1>8. QED
  BY <1>1, <1>2, <1>3, <1>4, <1>6, <1>7 DEF Backed, HasProfile

\* createUser makes at most one account of an email, and one flow goes on with it.
LEMMA AccountCreatedInv ==
    ASSUME IInv, NEW f \in flows, AccountCreated(f)
    PROVE  IInv'
<1> DEFINE h == [f EXCEPT !.phase = "created"]
<1>1. /\ f.phase = "free" /\ accounts[f.email] = None
      /\ accounts' = [accounts EXCEPT ![f.email] = f.pass]
      /\ UNCHANGED <<profiles, pending, currentUser, taps, faults, overlap, failed, broken>>
      /\ SessionMoves /\ auth'[f.dev] # None
  BY SessionSignsIn DEF AccountCreated, causes
<1>2. /\ f \in Flow /\ f.email \in Email /\ f.kind = "signUp" /\ f.name \in Username
  BY <1>1, FlowInFlows DEF IInv, FlowsFit
<1>3. /\ h \in Flow /\ h.phase = "created"
      /\ h.dev = f.dev /\ h.kind = f.kind /\ h.email = f.email /\ h.name = f.name
  BY <1>2, PhaseOnly DEF Phases
<1>4. flows' = (flows \ {f}) \cup {h}
  BY DEF AccountCreated, Becomes
<1> HIDE DEF h
<1>5. /\ accounts' \in [Email -> Password \cup {None}]
      /\ accounts'[f.email] # None
      /\ \A e \in Email : accounts[e] # None => accounts'[e] # None
      /\ profiles[f.email] = None
      /\ \A d \in Device : \A w \in pending[d] : w[1] # f.email
      /\ \A g \in flows : g.phase = "created" => g.email # f.email
      /\ WrittenOnce' /\ ProfilesHaveAccounts'
  BY <1>1, AccountMadeEffect
<1>6. TypeOK'
  BY <1>1, <1>3, <1>4, <1>5 DEF IInv, TypeOK, SessionMoves
<1>7. FlowsFit'
  BY <1>2, <1>3, <1>4 DEF IInv, FlowsFit
<1>8. CreatedOnce'
  <2>1. \A g \in flows : g.email \in Email /\ g.dev \in Device
    BY FlowInFlows DEF IInv
  <2>2. QED
    BY <1>1, <1>3, <1>4, <1>5, <2>1 DEF IInv, CreatedOnce, SessionMoves
<1>9. FoundIsBacked' /\ LoggedInHasProfile'
  BY <1>1, <1>3, <1>4 DEF IInv, FoundIsBacked, LoggedInHasProfile, Backed, HasProfile
<1>10. \A n \in Username : Claim(n)' \subseteq Claim(n)
  <2> SUFFICES ASSUME NEW n \in Username
               PROVE  Claim(n)' \subseteq Claim(n)
    OBVIOUS
  <2>1. \A g \in flows' : /\ g.kind = "signUp" /\ g.name = n
                          /\ g.phase \in {"free", "created", "saving"}
                          => g.email \in Claim(n)
    <3>1. \A g \in flows : /\ g.kind = "signUp" /\ g.name = n
                           /\ g.phase \in {"free", "created", "saving"}
                           => g.email \in Claim(n)
      BY ClaimMembers
    <3>2. h.name = n => h.email \in Claim(n)
      BY <1>1, <1>2, <1>3, <3>1
    <3>3. QED
      BY <1>4, <3>1, <3>2
  <2>2. QED
    BY <1>1, <2>1, ClaimMembers, NoNewClaim
<1>11. ClaimsMarked'
  BY <1>1, <1>10, ClaimsKept
<1>12. QED
  BY <1>5, <1>6, <1>7, <1>8, <1>9, <1>11 DEF IInv

\* An account whose answer is lost has no profile, and is recorded as broken.
LEMMA AccountAnswerLostInv ==
    ASSUME IInv, NEW f \in flows, AccountAnswerLost(f)
    PROVE  IInv'
<1>1. /\ accounts[f.email] = None
      /\ accounts' = [accounts EXCEPT ![f.email] = f.pass]
      /\ flows' \subseteq flows
      /\ broken' = broken \cup {f.email}
      /\ UNCHANGED <<profiles, pending, auth, currentUser, crossed, taps, overlap, failed>>
  BY DEF AccountAnswerLost, Ends, session
<1>2. faults' \in 0..MaxFaults
  BY AccountsAssumption DEF AccountAnswerLost, Fault, IInv, TypeOK
<1>3. f.email \in Email
  BY FlowInFlows DEF IInv
<1>4. /\ accounts' \in [Email -> Password \cup {None}]
      /\ \A e \in Email : accounts[e] # None => accounts'[e] # None
      /\ WrittenOnce' /\ ProfilesHaveAccounts'
  BY <1>1, AccountMadeEffect
<1>5. TypeOK'
  BY <1>1, <1>2, <1>3, <1>4 DEF IInv, TypeOK
<1>6. FlowsFit'
  BY <1>1 DEF IInv, FlowsFit
<1>7. CreatedOnce'
  <2>1. \A g \in flows : g.email \in Email
    BY FlowInFlows DEF IInv
  <2>2. QED
    BY <1>1, <1>4, <2>1 DEF IInv, CreatedOnce
<1>8. FoundIsBacked' /\ LoggedInHasProfile'
  BY <1>1 DEF IInv, FoundIsBacked, LoggedInHasProfile, Backed, HasProfile
<1>9. \A n \in Username : Claim(n)' \subseteq Claim(n)
  BY <1>1, ClaimMembers, NoNewClaim
<1>10. ClaimsMarked'
  BY <1>1, <1>9, ClaimsKept
<1>11. QED
  BY <1>4, <1>5, <1>6, <1>7, <1>8, <1>10 DEF IInv

\* The one sign-up that made the account writes the one profile.
LEMMA MakeUserInDBInv ==
    ASSUME IInv, NEW f \in flows, makeUserInDB(f)
    PROVE  IInv'
<1> DEFINE h == [f EXCEPT !.phase = "saving"]
           w == <<f.email, f.name, auth[f.dev]>>
<1>1. /\ f.phase = "created"
      /\ pending' = [pending EXCEPT ![f.dev] = @ \cup {w}]
      /\ UNCHANGED <<accounts, profiles, auth, currentUser, crossed, taps, faults,
                     overlap, failed, broken>>
  BY DEF makeUserInDB, writeProfile, causes, session
<1>2. /\ f \in Flow /\ f.email \in Email /\ f.dev \in Device
      /\ f.kind = "signUp" /\ f.name \in Username
  BY <1>1, FlowInFlows DEF IInv, FlowsFit
<1>3. /\ h \in Flow /\ h.phase = "saving"
      /\ h.kind = f.kind /\ h.email = f.email /\ h.name = f.name
  BY <1>2, PhaseOnly DEF Phases
<1>4. flows' = (flows \ {f}) \cup {h}
  BY DEF makeUserInDB, Becomes
<1> HIDE DEF h
<1>5. /\ accounts[f.email] # None /\ profiles[f.email] = None /\ auth[f.dev] \in Email
      /\ \A d \in Device : \A v \in pending[d] : v[1] # f.email
      /\ \A g \in flows : g.phase = "created" /\ g.email = f.email => g = f
  BY <1>1, <1>2 DEF IInv, CreatedOnce, TypeOK
<1>6. /\ w \in Email \X Username \X Email /\ w[1] = f.email /\ w[2] = f.name
      /\ \A d \in Device : pending'[d] = IF d = f.dev THEN pending[d] \cup {w} ELSE pending[d]
  BY <1>1, <1>2, <1>5 DEF IInv, TypeOK
<1>7. pending' \in [Device -> SUBSET (Email \X Username \X Email)]
  BY <1>1, <1>2, <1>6 DEF IInv, TypeOK
<1> HIDE DEF w
<1>8. TypeOK'
  BY <1>1, <1>3, <1>4, <1>7 DEF IInv, TypeOK
<1>9. FlowsFit'
  BY <1>2, <1>3, <1>4 DEF IInv, FlowsFit
<1>10. CreatedOnce'
  BY <1>1, <1>3, <1>4, <1>5, <1>6 DEF IInv, CreatedOnce
<1>11. WrittenOnce' /\ ProfilesHaveAccounts'
  BY <1>1, <1>5, <1>6 DEF IInv, WrittenOnce, ProfilesHaveAccounts
<1>12. FoundIsBacked' /\ LoggedInHasProfile'
  <2>1. \A d \in Device, e \in Email : Backed(d, e) => Backed(d, e)'
    BY <1>1, <1>6 DEF Backed, HasProfile
  <2>2. \A g \in flows : g.dev \in Device /\ g.email \in Email
    BY FlowInFlows DEF IInv
  <2>3. QED
    BY <1>1, <1>3, <1>4, <2>1, <2>2
       DEF IInv, FoundIsBacked, LoggedInHasProfile, Backed
<1>13. \A n \in Username : Claim(n)' \subseteq Claim(n)
  <2> SUFFICES ASSUME NEW n \in Username
               PROVE  Claim(n)' \subseteq Claim(n)
    OBVIOUS
  <2>1. \A g \in flows' : /\ g.kind = "signUp" /\ g.name = n
                          /\ g.phase \in {"free", "created", "saving"}
                          => g.email \in Claim(n)
    <3>1. \A g \in flows : /\ g.kind = "signUp" /\ g.name = n
                           /\ g.phase \in {"free", "created", "saving"}
                           => g.email \in Claim(n)
      BY ClaimMembers
    <3>2. h.name = n => h.email \in Claim(n)
      BY <1>1, <1>2, <1>3, <3>1
    <3>3. QED
      BY <1>4, <3>1, <3>2
  <2>2. \A e \in Email : (\E d \in Device : \E v \in pending'[d] : v[1] = e /\ v[2] = n)
                             => e \in Claim(n)
    BY <1>1, <1>2, <1>6, ClaimMembers
  <2>3. QED
    BY <1>1, <2>1, <2>2, ClaimMembers, NoNewClaim
<1>14. ClaimsMarked'
  BY <1>1, <1>13, ClaimsKept
<1>15. QED
  BY <1>8, <1>9, <1>10, <1>11, <1>12, <1>14 DEF IInv

\* The completion of setData moves one sign-up from saving to saved, and makes no
\* flow of another phase.
LEMMA NotifyEffect ==
    ASSUME IInv, NEW d, NEW e, Notify(d, e)
    PROVE  \A g \in flows' :
              /\ g \in Flow
              /\ g.phase \in {"free", "taken", "created", "saving", "saved"} => g.kind = "signUp"
              /\ g.kind = "signUp" => g.name \in Username
              /\ g.phase # "saved" => g \in flows
<1> SUFFICES ASSUME NEW f \in flows,
                    NEW g, g = IF f.dev = d /\ f.email = e /\ f.phase = "saving"
                               THEN [f EXCEPT !.phase = "saved"] ELSE f
             PROVE  /\ g \in Flow
                    /\ g.phase \in {"free", "taken", "created", "saving", "saved"} =>
                           g.kind = "signUp"
                    /\ g.kind = "signUp" => g.name \in Username
                    /\ g.phase # "saved" => g \in flows
  BY DEF Notify
<1>1. f \in Flow
  BY FlowInFlows DEF IInv
<1>2. CASE g = f
  BY <1>1, <1>2 DEF IInv, FlowsFit
<1>3. CASE g = [f EXCEPT !.phase = "saved"] /\ f.phase = "saving"
  <2>1. g \in Flow /\ g.phase = "saved" /\ g.kind = f.kind /\ g.name = f.name
    BY <1>1, <1>3 DEF Flow
  <2>2. QED
    BY <1>3, <2>1 DEF IInv, FlowsFit
<1>4. QED
  BY <1>2, <1>3

\* A pending write is of a profile that is not there yet, and the only one of it.
LEMMA PendingWrite ==
    ASSUME IInv, NEW d \in Device, NEW w \in pending[d],
           pending' = [pending EXCEPT ![d] = @ \ {w}]
    PROVE  /\ w[1] \in Email /\ w[2] \in Username
           /\ pending' \in [Device -> SUBSET (Email \X Username \X Email)]
           /\ accounts[w[1]] # None /\ profiles[w[1]] = None
           /\ \A f \in flows : f.phase = "created" => f.email # w[1]
           /\ \A c \in Device : \A v \in pending'[c] : v \in pending[c] /\ v[1] # w[1]
           /\ \A c \in Device : \A v \in pending[c] :
                 v[1] # w[1] => v \in pending'[c]
<1>1. w[1] \in Email /\ w[2] \in Username
  BY DEF IInv, TypeOK
<1>2. \A c \in Device : pending'[c] = IF c = d THEN pending[d] \ {w} ELSE pending[c]
  BY DEF IInv, TypeOK
<1>3. pending' \in [Device -> SUBSET (Email \X Username \X Email)]
  BY DEF IInv, TypeOK
<1>4. /\ accounts[w[1]] # None /\ profiles[w[1]] = None
      /\ \A c \in Device : \A v \in pending[c] : v[1] = w[1] => c = d /\ v = w
  BY DEF IInv, WrittenOnce
<1>5. \A f \in flows : f.phase = "created" => f.email # w[1]
  BY DEF IInv, CreatedOnce
<1>6. QED
  BY <1>1, <1>2, <1>3, <1>4, <1>5

\* The write that is committed or refused was the only one of its profile.
LEMMA WriteGoneClaims ==
    ASSUME IInv, NEW d \in Device, NEW w \in pending[d],
           pending' = [pending EXCEPT ![d] = @ \ {w}],
           Notify(d, w[1]),
           \/ profiles' = [profiles EXCEPT ![w[1]] = w[2]]
           \/ profiles' = profiles
    PROVE  \A n \in Username : Claim(n)' \subseteq Claim(n)
<1> SUFFICES ASSUME NEW n \in Username
             PROVE  Claim(n)' \subseteq Claim(n)
  OBVIOUS
<1>1. /\ w[1] \in Email
      /\ \A c \in Device : \A v \in pending'[c] : v \in pending[c]
  BY PendingWrite
<1>2. \A g \in flows' : /\ g.kind = "signUp" /\ g.name = n
                        /\ g.phase \in {"free", "created", "saving"}
                        => g.email \in Claim(n)
  <2>1. \A g \in flows' : g.phase # "saved" => g \in flows
    BY NotifyEffect
  <2>2. \A g \in flows : /\ g.kind = "signUp" /\ g.name = n
                         /\ g.phase \in {"free", "created", "saving"}
                         => g.email \in Claim(n)
    BY ClaimMembers
  <2>3. QED
    BY <2>1, <2>2
<1>3. \A e \in Email : (\E c \in Device : \E v \in pending'[c] : v[1] = e /\ v[2] = n)
                           => e \in Claim(n)
  BY <1>1, ClaimMembers
<1>4. \A e \in Email : profiles'[e] = n => e \in Claim(n)
  <2>1. w[2] = n => w[1] \in Claim(n)
    BY <1>1, ClaimMembers
  <2>2. \A e \in Email : profiles[e] = n => e \in Claim(n)
    BY ClaimMembers
  <2>3. QED
    BY <1>1, <2>1, <2>2 DEF IInv, TypeOK
<1>5. QED
  BY <1>2, <1>3, <1>4, NoNewClaim

\* The profile that reaches the server is the first of its email.
LEMMA ProfileCommittedInv ==
    ASSUME IInv, NEW d \in Device, NEW w \in pending[d], ProfileCommitted(d, w)
    PROVE  IInv'
<1>1. /\ pending' = [pending EXCEPT ![d] = @ \ {w}]
      /\ profiles' = [profiles EXCEPT ![w[1]] = w[2]]
      /\ Notify(d, w[1])
      /\ UNCHANGED <<accounts, auth, currentUser, crossed, taps, faults, overlap, failed, broken>>
  BY DEF ProfileCommitted, causes, session
<1>2. /\ w[1] \in Email /\ w[2] \in Username
      /\ pending' \in [Device -> SUBSET (Email \X Username \X Email)]
      /\ accounts[w[1]] # None /\ profiles[w[1]] = None
      /\ \A f \in flows : f.phase = "created" => f.email # w[1]
      /\ \A c \in Device : \A v \in pending'[c] : v \in pending[c] /\ v[1] # w[1]
      /\ \A c \in Device : \A v \in pending[c] : v[1] # w[1] => v \in pending'[c]
  BY <1>1, PendingWrite
<1>3. /\ w[2] # None
      /\ \A e \in Email : profiles'[e] = IF e = w[1] THEN w[2] ELSE profiles[e]
  BY <1>1, <1>2, UsernameIsSome DEF IInv, TypeOK
<1>4. profiles' \in [Email -> Username \cup {None}]
  BY <1>1, <1>2 DEF IInv, TypeOK
<1>5. \A g \in flows' :
          /\ g \in Flow
          /\ g.phase \in {"free", "taken", "created", "saving", "saved"} => g.kind = "signUp"
          /\ g.kind = "signUp" => g.name \in Username
          /\ g.phase # "saved" => g \in flows
  BY <1>1, NotifyEffect
<1>6. TypeOK' /\ FlowsFit'
  BY <1>1, <1>2, <1>4, <1>5 DEF IInv, TypeOK, FlowsFit
<1>7. CreatedOnce'
  <2>1. \A g \in flows' : g.phase = "created" => g \in flows /\ g.email \in Email
    BY <1>5 DEF Flow
  <2>2. QED
    BY <1>1, <1>2, <1>3, <2>1 DEF IInv, CreatedOnce
<1>8. WrittenOnce'
  <2>1. \A c \in Device : \A v \in pending[c] : v[1] \in Email
    BY DEF IInv, TypeOK
  <2>2. QED
    BY <1>1, <1>2, <1>3, <2>1 DEF IInv, WrittenOnce
<1>9. ProfilesHaveAccounts'
  BY <1>1, <1>2, <1>3 DEF IInv, ProfilesHaveAccounts
<1>10. FoundIsBacked' /\ LoggedInHasProfile'
  <2>1. \A c \in Device, e \in Email : Backed(c, e) => Backed(c, e)'
    BY <1>1, <1>2, <1>3 DEF Backed, HasProfile
  <2>2. \A g \in flows : g.dev \in Device /\ g.email \in Email
    BY FlowInFlows DEF IInv
  <2>3. QED
    BY <1>1, <1>5, <2>1, <2>2 DEF IInv, FoundIsBacked, LoggedInHasProfile, Backed
<1>11. ClaimsMarked'
  <2>1. \A n \in Username : Claim(n)' \subseteq Claim(n)
    BY <1>1, WriteGoneClaims
  <2>2. \A e \in Email : profiles[e] \in Username => profiles'[e] = profiles[e]
    BY <1>2, <1>3, UsernameIsSome
  <2>3. QED
    BY <1>1, <2>1, <2>2, ClaimsKept
<1>12. QED
  BY <1>6, <1>7, <1>8, <1>9, <1>10, <1>11 DEF IInv

\* The email of a refused profile is recorded as broken.
LEMMA ProfileRefusedInv ==
    ASSUME IInv, NEW d \in Device, NEW w \in pending[d], ProfileRefused(d, w)
    PROVE  IInv'
<1>1. /\ pending' = [pending EXCEPT ![d] = @ \ {w}]
      /\ Notify(d, w[1])
      /\ broken' = broken \cup {w[1]}
      /\ UNCHANGED <<accounts, profiles, auth, currentUser, crossed, taps, overlap, failed>>
  BY DEF ProfileRefused, session
<1>2. /\ w[1] \in Email
      /\ pending' \in [Device -> SUBSET (Email \X Username \X Email)]
      /\ \A c \in Device : \A v \in pending'[c] : v \in pending[c] /\ v[1] # w[1]
      /\ \A c \in Device : \A v \in pending[c] : v[1] # w[1] => v \in pending'[c]
  BY <1>1, PendingWrite
<1>3. \A g \in flows' :
          /\ g \in Flow
          /\ g.phase \in {"free", "taken", "created", "saving", "saved"} => g.kind = "signUp"
          /\ g.kind = "signUp" => g.name \in Username
          /\ g.phase # "saved" => g \in flows
  BY <1>1, NotifyEffect
<1>4. faults' \in 0..MaxFaults
  BY AccountsAssumption DEF ProfileRefused, Fault, IInv, TypeOK
<1>5. TypeOK' /\ FlowsFit'
  BY <1>1, <1>2, <1>3, <1>4 DEF IInv, TypeOK, FlowsFit
<1>6. CreatedOnce'
  BY <1>1, <1>2, <1>3 DEF IInv, CreatedOnce
<1>7. WrittenOnce' /\ ProfilesHaveAccounts'
  BY <1>1, <1>2 DEF IInv, WrittenOnce, ProfilesHaveAccounts
<1>8. FoundIsBacked' /\ LoggedInHasProfile'
  <2>1. \A c \in Device, e \in Email : Backed(c, e) => Backed(c, e)'
    BY <1>1, <1>2 DEF Backed, HasProfile
  <2>2. \A g \in flows : g.dev \in Device /\ g.email \in Email
    BY FlowInFlows DEF IInv
  <2>3. QED
    BY <1>1, <1>3, <2>1, <2>2 DEF IInv, FoundIsBacked, LoggedInHasProfile, Backed
<1>9. ClaimsMarked'
  <2>1. \A n \in Username : Claim(n)' \subseteq Claim(n)
    BY <1>1, WriteGoneClaims
  <2>2. QED
    BY <1>1, <2>1, ClaimsKept
<1>10. QED
  BY <1>5, <1>6, <1>7, <1>8, <1>9 DEF IInv

\* Signing in needs the account, and only starts the lookup of the profile.
LEMMA SignedInInv ==
    ASSUME IInv, NEW f \in flows, SignedIn(f)
    PROVE  IInv'
<1>1. UNCHANGED <<firebase, currentUser, taps, faults, overlap, failed, broken>>
  BY DEF SignedIn, causes
<1>2. CASE Ends(f) /\ UNCHANGED <<auth, crossed>>
  BY <1>1, <1>2, FlowsEnd, LoggedInIsBacked, SessionRests DEF Ends, IInv, TypeOK
<1>3. CASE Becomes(f, "signedIn") /\ SignsIn(f)
  <2>1. Unmarked'
    BY <1>1, <1>3, MovesOn, SessionSignsIn DEF Phases, IInv, TypeOK
  <2>2. \A n \in Username : Claim(n)' \subseteq Claim(n)
    <3>1. [f EXCEPT !.phase = "signedIn"].phase = "signedIn"
      BY FlowInFlows, PhaseOnly DEF Phases, IInv
    <3>2. \A g \in flows' : g.phase \in {"free", "created", "saving"} => g \in flows
      BY <1>3, <3>1 DEF Becomes
    <3>3. QED
      BY <1>1, <3>2, ClaimMembers, NoNewClaim DEF firebase
  <2>3. ClaimsMarked'
    BY <1>1, <2>2, ClaimsKept DEF firebase
  <2>4. QED
    BY <2>1, <2>3, UnmarkedAndMarks
<1>4. QED
  BY <1>2, <1>3 DEF SignedIn

\* A login goes on only with a profile that was found.
LEMMA UserLookedUpInv ==
    ASSUME IInv, NEW f \in flows, UserLookedUp(f)
    PROVE  IInv'
<1>1. /\ UNCHANGED <<firebase, currentUser, taps, faults, overlap, failed, broken>>
      /\ SessionMoves
  BY SessionRests DEF UserLookedUp, causes, session
<1>2. CASE Ends(f)
  BY <1>1, <1>2, FlowsEnd, LoggedInIsBacked DEF Ends, IInv, TypeOK
<1>3. CASE Becomes(f, "found") /\ grabUserFromUuid(f.dev, f.email)
  <2>1. Unmarked'
    BY <1>1, <1>3, MovesOn DEF Phases, IInv, TypeOK, grabUserFromUuid, Mine, Backed,
                                      HasProfile
  <2>2. \A n \in Username : Claim(n)' \subseteq Claim(n)
    <3>1. [f EXCEPT !.phase = "found"].phase = "found"
      BY FlowInFlows, PhaseOnly DEF Phases, IInv
    <3>2. \A g \in flows' : g.phase \in {"free", "created", "saving"} => g \in flows
      BY <1>3, <3>1 DEF Becomes
    <3>3. QED
      BY <1>1, <3>2, ClaimMembers, NoNewClaim DEF firebase
  <2>3. ClaimsMarked'
    BY <1>1, <2>2, ClaimsKept DEF firebase
  <2>4. QED
    BY <2>1, <2>3, UnmarkedAndMarks
<1>4. QED
  BY <1>2, <1>3 DEF UserLookedUp

\* currentUser is the user that the login has found.
LEMMA UserGrabbedInv ==
    ASSUME IInv, NEW f \in flows, UserGrabbed(f)
    PROVE  IInv'
<1>1. /\ f.phase = "found"
      /\ flows' \subseteq flows
      /\ currentUser' = [currentUser EXCEPT ![f.dev] = f.email]
      /\ UNCHANGED <<firebase, taps, faults, overlap, failed, broken>> /\ SessionMoves
  BY SessionRests DEF UserGrabbed, Ends, causes
<1>2. f.dev \in Device /\ f.email \in Email /\ Backed(f.dev, f.email)
  BY <1>1, FlowInFlows DEF IInv, FoundIsBacked
<1>3. currentUser' \in [Device -> Email \cup {None}]
  BY <1>1, <1>2 DEF IInv, TypeOK
<1>4. \A d \in Device, e \in Email : currentUser'[d] = e => Backed(d, e)
  BY <1>1, <1>2, LoggedInIsBacked DEF IInv, TypeOK
<1>5. QED
  BY <1>1, <1>3, <1>4, FlowsEnd DEF IInv, TypeOK

\* A crash ends the flows of a device; what is pending survives it.
LEMMA CrashInv ==
    ASSUME IInv, NEW d \in Device, Crash(d)
    PROVE  IInv'
<1>1. /\ flows' \subseteq flows
      /\ currentUser' = [currentUser EXCEPT ![d] = None]
      /\ UNCHANGED <<firebase, taps, overlap, failed>> /\ SessionMoves
  BY DEF Crash, SessionMoves, IInv, TypeOK
<1>2. broken' \in SUBSET Email /\ broken \subseteq broken'
  BY FlowInFlows DEF Crash, IInv, TypeOK
<1>3. faults' \in 0..MaxFaults
  BY AccountsAssumption DEF Crash, Fault, IInv, TypeOK
<1>4. currentUser' \in [Device -> Email \cup {None}]
  BY <1>1 DEF IInv, TypeOK
<1>5. \A c \in Device, e \in Email : currentUser'[c] = e => Backed(c, e)
  BY <1>1, LoggedInIsBacked, AccountsAssumption DEF IInv, TypeOK
<1>6. QED
  BY <1>1, <1>2, <1>3, <1>4, <1>5, FlowsEnd DEF IInv, TypeOK

\* "Username Taken", an account or a login that fails, the toast at the end.
LEMMA FlowOverInv ==
    ASSUME IInv, NEW f \in flows,
           \/ UsernameTaken(f) \/ AccountRefused(f) \/ SignUpCompleted(f)
           \/ AccountFails(f) \/ LogInFails(f)
    PROVE  IInv'
<1>1. /\ flows' \subseteq flows
      /\ UNCHANGED <<firebase, currentUser, taps, overlap, failed, broken>> /\ SessionMoves
  BY SessionRests
     DEF UsernameTaken, AccountRefused, SignUpCompleted, AccountFails, LogInFails, Ends, causes,
         session
<1>2. faults' \in 0..MaxFaults
  BY AccountsAssumption
     DEF UsernameTaken, AccountRefused, SignUpCompleted, AccountFails, LogInFails, Fault,
         IInv, TypeOK
<1>3. QED
  BY <1>1, <1>2, FlowsEnd, LoggedInIsBacked DEF IInv, TypeOK

\* The two buttons.
LEMMA TapsInv ==
    ASSUME IInv, NEW d \in Device, NEW p \in Password,
           \/ \E e \in Email \cup {Empty}, n \in Username, c \in Password :
                  createButtonTapped(d, e, n, p, c)
           \/ \E e \in Email : logInButtonTapped(d, e, p)
    PROVE  IInv'
<1>1. ASSUME NEW e \in Email \cup {Empty}, NEW n \in Username, NEW c \in Password,
             createButtonTapped(d, e, n, p, c)
      PROVE  IInv'
  <2>1. e \in Email /\ Tap(d, "signUp", e, n, p)
    BY <1>1 DEF createButtonTapped, validateFields
  <2>2. QED
    BY <2>1, TapInv
<1>2. ASSUME NEW e \in Email, logInButtonTapped(d, e, p)
      PROVE  IInv'
  BY <1>2, TapInv DEF logInButtonTapped
<1>3. QED
  BY <1>1, <1>2

\* No step at all changes nothing.
LEMMA StutterInv ==
    ASSUME IInv, UNCHANGED vars
    PROVE  IInv'
<1>1. /\ UNCHANGED <<firebase, flows, currentUser, taps, faults, overlap, failed, broken>>
      /\ SessionMoves
  BY SessionRests DEF vars, firebase
<1>2. QED
  BY <1>1, FlowsEnd, LoggedInIsBacked DEF IInv, TypeOK

\* Every step keeps the invariant.
LEMMA NextInv ==
    ASSUME IInv, [Next]_vars
    PROVE  IInv'
<1>1. ASSUME NEW d \in Device, NEW e \in Email \cup {Empty}, NEW n \in Username,
             NEW p \in Password, NEW c \in Password, createButtonTapped(d, e, n, p, c)
      PROVE  IInv'
  BY <1>1, TapsInv
<1>2. ASSUME NEW d \in Device, NEW e \in Email, NEW p \in Password, logInButtonTapped(d, e, p)
      PROVE  IInv'
  BY <1>2, TapsInv
<1>3. ASSUME NEW d \in Device, NEW w \in pending[d], ProfileCommitted(d, w) \/ ProfileRefused(d, w)
      PROVE  IInv'
  BY <1>3, ProfileCommittedInv, ProfileRefusedInv
<1>4. ASSUME NEW d \in Device, Crash(d)
      PROVE  IInv'
  BY <1>4, CrashInv
<1>5. ASSUME NEW f \in flows, Answer(f)
      PROVE  IInv'
  BY <1>5, UsernameLookedUpInv, AccountCreatedInv, FlowOverInv, SignedInInv, UserLookedUpInv
     DEF Answer
<1>6. ASSUME NEW f \in flows, Completion(f)
      PROVE  IInv'
  BY <1>6, FlowOverInv, MakeUserInDBInv, UserGrabbedInv DEF Completion
<1>7. ASSUME NEW f \in flows, \/ UsernameLookupFails(f) \/ AccountAnswerLost(f)
                              \/ AccountFails(f) \/ LogInFails(f)
      PROVE  IInv'
  BY <1>7, UsernameLookupFailsInv, AccountAnswerLostInv, FlowOverInv
<1>8. CASE UNCHANGED vars
  BY <1>8, StutterInv
<1>9. QED
  BY <1>1, <1>2, <1>3, <1>4, <1>5, <1>6, <1>7, <1>8 DEF Next

\* The invariant that carries the properties: claims to a name are marked, an
\* account writes one profile, and what a login has found is backed.
THEOREM Invariance == Spec => []IInv
<1>1. Init => IInv
  BY InitInv
<1>2. IInv /\ [Next]_vars => IInv'
  BY NextInv
<1>3. QED
  BY <1>1, <1>2, PTL DEF Spec

\* Every variable of sign-up and login keeps its type.
THEOREM TypeCorrect == Spec => []TypeOK
BY Invariance, PTL DEF IInv

\* Two users share a username only where dbContainsUsername could not see it: one
\* who has it signed up while another's sign-up for it was open, or with a failed
\* lookup.
THEOREM ClashesHaveCause == Spec => []NameClashHasCause
<1>1. IInv => NameClashHasCause
  <2> SUFFICES ASSUME IInv, NEW a \in Email, NEW b \in Email, a # b,
                      profiles[a] # None, profiles[a] = profiles[b]
               PROVE  \E e \in Email : /\ profiles[e] = profiles[a]
                                       /\ <<profiles[e], e>> \in overlap \cup failed
    BY DEF NameClashHasCause
  <2> DEFINE n == profiles[a]
  <2>1. n \in Username
    BY DEF IInv, TypeOK
  <2>2. a \in Claim(n) /\ b \in Claim(n)
    BY ClaimMembers
  <2>3. Excused(n) \/ Marked(n, a) \/ Marked(n, b)
    BY <2>1, <2>2 DEF IInv, ClaimsMarked
  <2>4. QED
    BY <2>3 DEF Excused, Marked
<1>2. QED
  BY <1>1, Invariance, PTL

\* grabUserFromUuid makes a user only of a profile that is there, or on its way
\* from this device: a bare account logs nobody in.
THEOREM LoginsHaveProfile == Spec => []LoggedInHasProfile
BY Invariance, PTL DEF IInv

\* No later sign-up, crash or late commit ever changes the username of a profile
\* that is on the server: createUser succeeds once, and makeUserInDB runs once
\* for it.
NameIsForLife == [][\A e \in Email : profiles[e] # None => profiles'[e] = profiles[e]]_vars

\* A profile on the server keeps its username in every later state.
THEOREM NamesAreForLife == Spec => NameIsForLife
<1> DEFINE Kept == \A e \in Email : profiles[e] # None => profiles'[e] = profiles[e]
<1>1. IInv /\ [Next]_vars => [Kept]_vars
  <2> SUFFICES ASSUME IInv, Next
               PROVE  Kept
    OBVIOUS
  <2>1. ASSUME NEW d \in Device, NEW w \in pending[d], ProfileCommitted(d, w)
        PROVE  Kept
    <3>1. /\ pending' = [pending EXCEPT ![d] = @ \ {w}]
          /\ profiles' = [profiles EXCEPT ![w[1]] = w[2]]
      BY <2>1 DEF ProfileCommitted
    <3>2. w[1] \in Email /\ profiles[w[1]] = None
      BY <3>1, PendingWrite
    <3>3. QED
      BY <3>1, <3>2 DEF IInv, TypeOK
  <2>2. ASSUME NEW d \in Device, NEW w \in pending[d], ProfileRefused(d, w)
        PROVE  Kept
    BY <2>2 DEF ProfileRefused
  <2>3. ASSUME NEW d \in Device,
               \/ \E e \in Email \cup {Empty}, n \in Username, p, c \in Password :
                      createButtonTapped(d, e, n, p, c)
               \/ \E e \in Email, p \in Password : logInButtonTapped(d, e, p)
               \/ Crash(d)
        PROVE  Kept
    BY <2>3 DEF createButtonTapped, logInButtonTapped, Tap, Crash, firebase
  <2>4. ASSUME NEW f \in flows, \/ Answer(f) \/ Completion(f) \/ UsernameLookupFails(f)
                                \/ AccountAnswerLost(f) \/ AccountFails(f) \/ LogInFails(f)
        PROVE  Kept
    BY <2>4 DEF Answer, Completion, UsernameLookedUp, UsernameLookupFails, UsernameTaken,
                AccountCreated, AccountRefused, AccountAnswerLost, AccountFails, LogInFails,
                makeUserInDB, SignUpCompleted, SignedIn, UserLookedUp, UserGrabbed, firebase
  <2>5. QED
    BY <2>1, <2>2, <2>3, <2>4 DEF Next
<1>2. QED
  BY <1>1, Invariance, PTL DEF Spec, NameIsForLife

-----------------------------------------------------------------------------
(* Who is signed in *)

\* A login that has signed in is the one that is, or another one has come after it.
LoginsSignedIn ==
    \A f \in flows : f.phase \in {"signedIn", "found"} =>
        auth[f.dev] = f.email \/ <<f.dev, f.email>> \in crossed

\* The logins on their way and the user of the app, together.
SessionInv == LoginsSignedIn /\ SessionIsOne

\* A sign-in crosses whoever else is logged in on the phone, or is logging in.
LEMMA SignInCrosses ==
    ASSUME IInv, SessionInv, NEW f \in flows, SignsIn(f), UNCHANGED currentUser
    PROVE  /\ \A g \in flows : g.phase \in {"signedIn", "found"} =>
                  auth'[g.dev] = g.email \/ <<g.dev, g.email>> \in crossed'
           /\ SessionIsOne'
<1>1. /\ auth'[f.dev] = f.email
      /\ \A d \in Device : d # f.dev => auth'[d] = auth[d]
  BY SessionSignsIn
<1>2. crossed' = crossed \cup ({f.dev} \X Others(f))
  BY DEF SignsIn
<1>3. ASSUME NEW g \in flows, g.phase \in {"signedIn", "found"}
      PROVE  auth'[g.dev] = g.email \/ <<g.dev, g.email>> \in crossed'
  <2>1. g.dev \in Device /\ g.email \in Email /\ g.email # None
    BY FlowInFlows, AccountsAssumption DEF IInv
  <2>2. CASE g.dev = f.dev
    <3>1. g.email = f.email \/ g.email \in Others(f)
      BY <1>3, <2>1, <2>2 DEF Others
    <3>2. QED
      BY <1>1, <1>2, <2>2, <3>1
  <2>3. CASE g.dev # f.dev
    BY <1>1, <1>2, <1>3, <2>1, <2>3 DEF SessionInv, LoginsSignedIn
  <2>4. QED
    BY <2>2, <2>3
<1>4. ASSUME NEW d \in Device, currentUser[d] # None
      PROVE  auth'[d] = currentUser[d] \/ <<d, currentUser[d]>> \in crossed'
  <2>1. CASE d = f.dev
    <3>1. currentUser[d] = f.email \/ currentUser[d] \in Others(f)
      BY <1>4, <2>1 DEF Others
    <3>2. QED
      BY <1>1, <1>2, <2>1, <3>1
  <2>2. CASE d # f.dev
    BY <1>1, <1>2, <1>4, <2>2 DEF SessionInv, SessionIsOne
  <2>3. QED
    BY <2>1, <2>2
<1>5. QED
  BY <1>3, <1>4 DEF SessionIsOne

\* While the session rests, no flow but one that has been there gets past its sign-in.
LEMMA SessionKept ==
    ASSUME SessionInv, UNCHANGED <<auth, currentUser, crossed>>,
           \A g \in flows' : g.phase \in {"signedIn", "found"} =>
               \E f \in flows : /\ f.phase \in {"signedIn", "found"}
                                /\ f.dev = g.dev /\ f.email = g.email
    PROVE  SessionInv'
BY DEF SessionInv, LoginsSignedIn, SessionIsOne

\* A flow moves to a phase that is not past a sign-in, or was past it already.
LEMMA BecomesKept ==
    ASSUME IInv, SessionInv, UNCHANGED session, NEW f \in flows,
           NEW phase \in Phases, Becomes(f, phase),
           phase \in {"signedIn", "found"} => f.phase \in {"signedIn", "found"}
    PROVE  SessionInv'
<1>1. /\ [f EXCEPT !.phase = phase].phase = phase
      /\ [f EXCEPT !.phase = phase].dev = f.dev
      /\ [f EXCEPT !.phase = phase].email = f.email
  BY FlowInFlows, PhaseOnly DEF IInv
<1>2. QED
  BY <1>1, SessionKept DEF Becomes, session

\* Where flows only end, or are told of a commit, nothing is said of a new one.
LEMMA EndsKept ==
    ASSUME SessionInv, UNCHANGED session,
           \A g \in flows' : g.phase \in {"signedIn", "found"} => g \in flows
    PROVE  SessionInv'
BY SessionKept DEF session

\* An account that is made signs its user in, which crosses the others.
LEMMA AccountCreatedSession ==
    ASSUME IInv, SessionInv, NEW f \in flows, AccountCreated(f)
    PROVE  SessionInv'
<1>1. [f EXCEPT !.phase = "created"].phase = "created"
  BY FlowInFlows, PhaseOnly DEF IInv, Phases
<1>2. \A g \in flows' : g.phase \in {"signedIn", "found"} => g \in flows
  BY <1>1 DEF AccountCreated, Becomes
<1>3. QED
  BY <1>2, SignInCrosses DEF AccountCreated, SessionInv, LoginsSignedIn

\* So does a login that has signed in, which is then the one that is.
LEMMA SignedInSession ==
    ASSUME IInv, SessionInv, NEW f \in flows, SignedIn(f)
    PROVE  SessionInv'
<1>1. CASE Ends(f) /\ UNCHANGED <<auth, crossed>>
  BY <1>1, EndsKept DEF SignedIn, Ends, session
<1>2. CASE Becomes(f, "signedIn") /\ SignsIn(f)
  <2>1. /\ [f EXCEPT !.phase = "signedIn"].dev = f.dev
        /\ [f EXCEPT !.phase = "signedIn"].email = f.email
    BY FlowInFlows, PhaseOnly DEF IInv, Phases
  <2>2. auth'[f.dev] = f.email
    BY <1>2, SessionSignsIn
  <2>3. UNCHANGED currentUser
    BY DEF SignedIn
  <2>4. QED
    BY <1>2, <2>1, <2>2, <2>3, SignInCrosses DEF Becomes, SessionInv, LoginsSignedIn
<1>3. QED
  BY <1>1, <1>2 DEF SignedIn

\* The app takes the user of a login that is signed in, or was crossed.
LEMMA UserGrabbedSession ==
    ASSUME IInv, SessionInv, NEW f \in flows, UserGrabbed(f)
    PROVE  SessionInv'
<1>1. f.dev \in Device /\ currentUser \in [Device -> Email \cup {None}]
  BY FlowInFlows DEF IInv, TypeOK
<1>2. auth[f.dev] = f.email \/ <<f.dev, f.email>> \in crossed
  BY DEF UserGrabbed, SessionInv, LoginsSignedIn
<1>3. SessionIsOne'
  BY <1>1, <1>2 DEF UserGrabbed, SessionInv, SessionIsOne
<1>4. LoginsSignedIn'
  BY DEF UserGrabbed, Ends, SessionInv, LoginsSignedIn
<1>5. QED
  BY <1>3, <1>4 DEF SessionInv

\* After a crash nobody is logged in, and no login is on its way.
LEMMA CrashSession ==
    ASSUME IInv, SessionInv, NEW d \in Device, Crash(d)
    PROVE  SessionInv'
<1>1. /\ flows' = {f \in flows : f.dev # d}
      /\ currentUser' = [currentUser EXCEPT ![d] = None]
      /\ crossed' = {c \in crossed : c[1] # d}
      /\ UNCHANGED auth
  BY DEF Crash
<1>2. currentUser'[d] = None /\ \A c \in Device : c # d => currentUser'[c] = currentUser[c]
  BY <1>1 DEF IInv, TypeOK
<1>3. \A c, e : c # d /\ <<c, e>> \in crossed => <<c, e>> \in crossed'
  BY <1>1
<1>4. LoginsSignedIn'
  BY <1>1, <1>3 DEF SessionInv, LoginsSignedIn
<1>5. SessionIsOne'
  BY <1>1, <1>2, <1>3 DEF SessionInv, SessionIsOne
<1>6. QED
  BY <1>4, <1>5 DEF SessionInv

\* Every step keeps what is said of the session.
LEMMA SessionNext ==
    ASSUME IInv, SessionInv, [Next]_vars
    PROVE  SessionInv'
<1>1. ASSUME NEW d \in Device, NEW kind, NEW e, NEW n, NEW p, Tap(d, kind, e, n, p)
      PROVE  SessionInv'
  BY <1>1, EndsKept DEF Tap
<1>2. ASSUME NEW d \in Device, NEW w \in pending[d], ProfileCommitted(d, w) \/ ProfileRefused(d, w)
      PROVE  SessionInv'
  <2>1. Notify(d, w[1]) /\ UNCHANGED session
    BY <1>2 DEF ProfileCommitted, ProfileRefused
  <2>2. \A g \in flows' : g.phase # "saved" => g \in flows
    BY <2>1, NotifyEffect
  <2>3. QED
    BY <2>1, <2>2, EndsKept
<1>3. ASSUME NEW f \in flows, UsernameLookedUp(f) \/ UsernameLookupFails(f) \/ makeUserInDB(f)
                                \/ UserLookedUp(f)
      PROVE  SessionInv'
  <2>1. UNCHANGED session
    BY <1>3 DEF UsernameLookedUp, UsernameLookupFails, makeUserInDB, UserLookedUp
  <2>2. CASE Ends(f)
    BY <2>1, <2>2, EndsKept DEF Ends
  <2>3. CASE \E phase \in {"taken", "free", "saving"} : Becomes(f, phase)
    BY <2>1, <2>3, BecomesKept DEF Phases
  <2>4. CASE Becomes(f, "found") /\ f.phase = "signedIn"
    BY <2>1, <2>4, BecomesKept DEF Phases
  <2>5. QED
    BY <1>3, <2>2, <2>3, <2>4
       DEF UsernameLookedUp, UsernameLookupFails, makeUserInDB, UserLookedUp
<1>4. ASSUME NEW f \in flows, \/ UsernameTaken(f) \/ AccountRefused(f) \/ SignUpCompleted(f)
                              \/ AccountFails(f) \/ AccountAnswerLost(f) \/ LogInFails(f)
      PROVE  SessionInv'
  BY <1>4, EndsKept
     DEF UsernameTaken, AccountRefused, SignUpCompleted, AccountFails, AccountAnswerLost,
         LogInFails, Ends
<1>5. CASE UNCHANGED vars
  BY <1>5, EndsKept DEF vars, session
<1>6. ASSUME NEW f \in flows, Answer(f) \/ Completion(f)
      PROVE  SessionInv'
  BY <1>3, <1>4, <1>6, AccountCreatedSession, SignedInSession, UserGrabbedSession
     DEF Answer, Completion
<1>7. QED
  BY <1>1, <1>2, <1>3, <1>4, <1>5, <1>6, CrashSession
     DEF Next, createButtonTapped, logInButtonTapped

\* currentUser, which LoginViewController2 assigns a lookup after the sign-in, is the
\* user that Firebase Auth has signed in, unless another sign-up or login on the
\* phone signed in meanwhile.
THEOREM SessionsAreOne == Spec => []SessionIsOne
<1>1. Init => SessionInv
  BY DEF Init, SessionInv, LoginsSignedIn, SessionIsOne
<1>2. IInv /\ SessionInv /\ [Next]_vars => SessionInv'
  BY SessionNext
<1>3. SessionInv => SessionIsOne
  BY DEF SessionInv
<1>4. QED
  BY <1>1, <1>2, <1>3, Invariance, PTL DEF Spec
================================================================================
