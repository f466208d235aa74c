-------------------------- MODULE EventSearch_proofs --------------------------
(***************************************************************************)
(* Theorems about EventSearch for every set of strings, of documents and of  *)
(* profiles, and every bound.                                               *)
(*                                                                         *)
(* The properties are not inductive alone.  That the table stays empty rests *)
(* on the fact that the array of a search is still untouched when it is      *)
(* handed on; that a completion is called at most twice, on the count of the  *)
(* calls made by a conversion that still waits.  IInv adds these facts.       *)
(***************************************************************************)
EXTENDS EventSearch, SequenceTheorems, TLAPS

\* Search n has found nothing, and no completion of its events was called.
Untouched(n) == results[n] = {} /\ \A d \in Events : told[<<n, d>>] = <<>>

\* A query under way has started no conversion, and each tap has one query.
QueriesUntouched ==
    /\ \A s \in searches : /\ s.tap <= taps
                           /\ Untouched(s.tap)
                           /\ \A c \in conversions : c.tap # s.tap
    /\ \A s, t \in searches : s.tap = t.tap => s = t

FutureUntouched == \A n \in 1..MaxTaps : n > taps => Untouched(n)

\* A conversion has called its completion once when it waits for the attendee,
\* and not before.
ConversionsCounted ==
    \A c \in conversions : /\ c.tap <= taps
                           /\ c.doc.attending # <<>>
                           /\ c.waits = "creator" => told[Job(c)] = <<>>
                           /\ c.waits = "attendee" => Len(told[Job(c)]) = 1

IInv ==
    /\ TypeOK
    /\ QueriesUntouched
    /\ FutureUntouched
    /\ ConversionsCounted
    /\ NothingIsShown
    /\ CompletesTwiceWithError

-----------------------------------------------------------------------------
(* Documents, conversions and what they tell *)

\* The documents a query finds name the term among their attendees.
LEMMA MatchingAttended ==
    ASSUME NEW term, NEW d \in Matching(term)
    PROVE  d \in Events /\ d \in Document /\ d.attending # <<>>
<1>1. d \in Events /\ d \in Document
  BY SearchAssumption DEF Matching
<1>2. d.attending \in Seq(String) /\ DOMAIN d.attending # {}
  BY <1>1 DEF Matching, Document
<1>3. QED
  BY <1>1, <1>2

\* A conversion's key is one of told's.
LEMMA JobIsKey ==
    ASSUME TypeOK, NEW c \in conversions
    PROVE  /\ c \in Conversion /\ c.tap \in 1..MaxTaps /\ c.doc \in Events
           /\ Job(c) = <<c.tap, c.doc>>
           /\ Job(c) \in (1..MaxTaps) \X Events
BY DEF TypeOK, Conversion, Job

\* There is one conversion of a document for a search, whatever it waits for.
LEMMA ConversionOfJob ==
    ASSUME TypeOK, ConversionsCounted,
           NEW c \in conversions, NEW b \in conversions, Job(b) = Job(c)
    PROVE  b = c
<1>1. b.tap = c.tap /\ b.doc = c.doc
  BY DEF Job
<1>2. b.waits = c.waits
  <2>1. Len(<<>>) # 1
    BY EmptySeq
  <2>2. QED
    BY <2>1 DEF ConversionsCounted, TypeOK, Conversion
<1>3. b \in Conversion /\ c \in Conversion
  BY DEF TypeOK
<1>4. QED
  BY <1>1, <1>2, <1>3 DEF Conversion

\* Calling a completion adds one outcome to one conversion's calls.
LEMMA TellEffect ==
    ASSUME TypeOK, NEW c \in conversions, NEW outcome \in {"event", "error"},
           Tell(c, outcome)
    PROVE  /\ told' \in [(1..MaxTaps) \X Events -> Seq({"event", "error"})]
           /\ \A n \in 1..MaxTaps, d \in Events :
                 told'[<<n, d>>] = IF <<n, d>> = Job(c) THEN Append(told[Job(c)], outcome)
                                                       ELSE told[<<n, d>>]
<1>1. Job(c) \in (1..MaxTaps) \X Events /\ told[Job(c)] \in Seq({"event", "error"})
  BY JobIsKey DEF TypeOK
<1>2. Append(told[Job(c)], outcome) \in Seq({"event", "error"})
  BY <1>1, AppendProperties
<1>3. QED
  BY <1>1, <1>2 DEF Tell, TypeOK

\* An outcome appended to none is the only one; to one, the second.
LEMMA AppendedOutcome ==
    ASSUME NEW t \in Seq({"event", "error"}), NEW outcome \in {"event", "error"}
    PROVE  /\ t = <<>> => Len(Append(t, outcome)) = 1 /\ Append(t, outcome)[1] = outcome
           /\ Append(t, outcome) # <<>>
           /\ Len(Append(t, outcome)) = Len(t) + 1
           /\ Len(t) = 1 => /\ Append(t, outcome)[1] = t[1]
                            /\ Append(t, outcome)[2] = outcome
                            /\ t # <<>>
<1>1. /\ Len(Append(t, outcome)) = Len(t) + 1 /\ Append(t, outcome) # <<>>
      /\ \A i \in 1..Len(t) : Append(t, outcome)[i] = t[i]
      /\ Append(t, outcome)[Len(t) + 1] = outcome
      /\ Len(t) \in Nat
  BY AppendProperties, LenProperties
<1>2. t = <<>> => Len(t) = 0
  BY EmptySeq
<1>3. Len(t) = 1 => t # <<>>
  <2>1. Len(<<>>) # 1
    BY EmptySeq
  <2>2. QED
    BY <2>1, Zenon
<1>4. QED
  BY <1>1, <1>2, <1>3

-----------------------------------------------------------------------------
(* The steps *)

\* Nothing is asked and nothing is shown at the start.
LEMMA InitInv ==
    ASSUME Init
    PROVE  IInv
<1>1. \A n \in 1..MaxTaps, d \in Events : told[<<n, d>>] = <<>>
  BY DEF Init
<1>2. \A n \in 1..MaxTaps : results[n] = {}
  BY DEF Init
<1>3. TypeOK
  <2>1. <<>> \in Seq({"event", "error"})
    BY EmptySeq
  <2>2. told \in [(1..MaxTaps) \X Events -> Seq({"event", "error"})]
    BY <2>1 DEF Init
  <2>3. QED
    BY <2>2, SearchAssumption DEF Init, TypeOK
<1>4. CompletesTwiceWithError
  <2> SUFFICES ASSUME NEW n \in 1..MaxTaps, NEW d \in Events
               PROVE  LET t == told[<<n, d>>] IN
                      /\ Len(t) <= 2
                      /\ Len(t) = 2 => t[2] = "error"
                      /\ n \notin died =>
                             (d \in results[n] <=> (t # <<>> /\ t[1] = "event"))
    BY DEF CompletesTwiceWithError
  <2>1. Len(<<>>) = 0
    BY EmptySeq
  <2>2. Len(told[<<n, d>>]) = 0
    BY <1>1, <2>1, Zenon
  <2>3. QED
    BY <1>1, <1>2, <2>2
<1>5. QED
  BY <1>1, <1>2, <1>3, <1>4
     DEF Init, IInv, QueriesUntouched, FutureUntouched, Untouched, ConversionsCounted,
         NothingIsShown

\* A new search has a tap of its own, which nothing has touched.
LEMMA TextDidChangeInv ==
    ASSUME IInv, NEW term \in String, TextDidChange(term)
    PROVE  IInv'
<1>1. /\ taps \in Nat /\ taps + 1 \in 1..MaxTaps /\ taps' = taps + 1
      /\ UNCHANGED <<conversions, results, pulledEvents, told, died, faults>>
  BY SearchAssumption DEF TextDidChange, IInv, TypeOK
<1>2. TypeOK'
  BY <1>1, SearchAssumption DEF TextDidChange, IInv, TypeOK, Search
<1>3. \A n \in 1..MaxTaps : Untouched(n)' <=> Untouched(n)
  BY <1>1 DEF Untouched
<1>4. QueriesUntouched'
  <2>1. Untouched(taps + 1)
    BY <1>1 DEF IInv, FutureUntouched
  <2>2. \A s \in searches : s.tap \in 1..MaxTaps /\ s.tap <= taps
    BY DEF IInv, TypeOK, Search, QueriesUntouched
  <2>3. \A c \in conversions : c.tap \in 1..MaxTaps /\ c.tap <= taps
    BY JobIsKey DEF IInv, ConversionsCounted
  <2>4. ASSUME NEW s \in searches'
        PROVE  s.tap <= taps' /\ Untouched(s.tap)' /\ \A c \in conversions' : c.tap # s.tap
    <3>1. CASE s \in searches
      BY <1>1, <1>3, <2>2, <3>1 DEF IInv, QueriesUntouched
    <3>2. CASE s.tap = taps + 1
      BY <1>1, <1>3, <2>1, <2>3, <3>2
    <3>3. QED
      BY <3>1, <3>2 DEF TextDidChange
  <2>5. ASSUME NEW s \in searches', NEW t \in searches', s.tap = t.tap
        PROVE  s = t
    BY <1>1, <2>2, <2>5 DEF TextDidChange, IInv, QueriesUntouched
  <2>6. QED
    BY <2>4, <2>5 DEF QueriesUntouched
<1>5. FutureUntouched'
  BY <1>1, <1>3 DEF IInv, FutureUntouched
<1>6. ConversionsCounted'
  <2>1. \A c \in conversions : c.tap \in 1..MaxTaps
    BY JobIsKey DEF IInv
  <2>2. \A c \in conversions : c.tap <= taps'
    BY <1>1, <2>1 DEF IInv, ConversionsCounted
  <2>3. QED
    BY <1>1, <2>2 DEF IInv, ConversionsCounted, Job
<1>7. NothingIsShown' /\ CompletesTwiceWithError'
  BY <1>1 DEF IInv, NothingIsShown, CompletesTwiceWithError
<1>8. QED
  BY <1>2, <1>4, <1>5, <1>6, <1>7 DEF IInv

\* A failed query leaves nothing behind.
LEMMA SearchFailsInv ==
    ASSUME IInv, NEW s \in searches, SearchFails(s)
    PROVE  IInv'
<1>1. /\ searches' \subseteq searches
      /\ UNCHANGED <<conversions, results, pulledEvents, told, died, taps>>
      /\ faults' \in 0..MaxFaults
  BY SearchAssumption DEF SearchFails, Mishap, IInv, TypeOK
<1>2. TypeOK'
  BY <1>1 DEF IInv, TypeOK
<1>3. \A n : Untouched(n)' <=> Untouched(n)
  BY <1>1 DEF Untouched
<1>4. QueriesUntouched'
  BY <1>1, <1>3 DEF IInv, QueriesUntouched
<1>5. FutureUntouched'
  BY <1>1, <1>3 DEF IInv, FutureUntouched
<1>6. ConversionsCounted'
  BY <1>1 DEF IInv, ConversionsCounted, Job
<1>7. NothingIsShown' /\ CompletesTwiceWithError'
  BY <1>1 DEF IInv, NothingIsShown, CompletesTwiceWithError
<1>8. QED
  BY <1>2, <1>4, <1>5, <1>6, <1>7 DEF IInv

\* The array is handed on before a conversion has touched it; the documents
\* that cannot be converted are told so, once.
LEMMA SearchAnsweredInv ==
    ASSUME IInv, NEW s \in searches, SearchAnswered(s)
    PROVE  IInv'
<1> DEFINE docs == Matching(s.term)
           whole == Readable(docs)
           New == {[tap |-> s.tap, doc |-> d, waits |-> "creator"] : d \in whole}
<1>1. /\ s \in Search /\ s.tap \in 1..MaxTaps /\ s.tap <= taps /\ Untouched(s.tap)
      /\ \A c \in conversions : c.tap # s.tap
  BY DEF IInv, TypeOK, QueriesUntouched, Search
<1>2. /\ searches' = searches \ {s}
      /\ conversions' = conversions \cup New
      /\ UNCHANGED <<results, died, taps, faults>>
      /\ pulledEvents' = {}
  BY <1>1 DEF SearchAnswered, Untouched, Found
<1>3. whole \subseteq docs /\ docs \subseteq Events /\ \A d \in docs : d.attending # <<>>
  BY MatchingAttended DEF Readable
<1>4. \A n \in 1..MaxTaps, d \in Events :
          told'[<<n, d>>] = IF n = s.tap /\ d \in docs \ whole THEN <<"error">>
                                                               ELSE told[<<n, d>>]
  BY DEF SearchAnswered, IInv, TypeOK
<1>5. \A n \in 1..MaxTaps : n # s.tap => (Untouched(n)' <=> Untouched(n))
  BY <1>2, <1>4 DEF Untouched
<1>6. TypeOK'
  <2>1. New \subseteq Conversion
    BY <1>1, <1>3 DEF Conversion, Readable
  <2>2. told' \in [(1..MaxTaps) \X Events -> Seq({"event", "error"})]
    <3>1. <<"error">> \in Seq({"event", "error"})
      OBVIOUS
    <3>2. QED
      BY <3>1 DEF SearchAnswered, IInv, TypeOK
  <2> HIDE DEF New
  <2>3. QED
    BY <1>2, <2>1, <2>2 DEF IInv, TypeOK
<1> HIDE DEF docs, whole
<1>7. QueriesUntouched'
  <2>1. ASSUME NEW t \in searches'
        PROVE  t.tap <= taps' /\ Untouched(t.tap)' /\ \A c \in conversions' : c.tap # t.tap
    <3>1. t \in searches /\ t.tap # s.tap /\ t.tap \in 1..MaxTaps
      BY <1>2 DEF IInv, QueriesUntouched, TypeOK, Search
    <3>2. t.tap <= taps' /\ Untouched(t.tap)'
      BY <1>2, <1>5, <3>1 DEF IInv, QueriesUntouched
    <3>3. \A c \in conversions' : c.tap # t.tap
      BY <1>2, <3>1 DEF IInv, QueriesUntouched
    <3>4. QED
      BY <3>2, <3>3
  <2>2. QED
    BY <1>2, <2>1 DEF IInv, QueriesUntouched
<1>8. FutureUntouched'
  <2>1. taps \in Nat
    BY SearchAssumption DEF IInv, TypeOK
  <2>2. QED
    BY <1>1, <1>2, <1>5, <2>1 DEF IInv, FutureUntouched
<1>9. ConversionsCounted'
  <2>1. ASSUME NEW c \in conversions'
        PROVE  /\ c.tap <= taps' /\ c.doc.attending # <<>>
               /\ c.waits = "creator" => told'[Job(c)] = <<>>
               /\ c.waits = "attendee" => Len(told'[Job(c)]) = 1
    <3>1. CASE c \in conversions
      <4>1. c.tap \in 1..MaxTaps /\ c.doc \in Events /\ c.tap # s.tap
        BY <1>1, <3>1, JobIsKey DEF IInv
      <4>2. told'[Job(c)] = told[Job(c)]
        BY <1>4, <4>1 DEF Job
      <4>3. QED
        BY <1>2, <3>1, <4>2 DEF IInv, ConversionsCounted
    <3>2. ASSUME NEW d \in whole, c = [tap |-> s.tap, doc |-> d, waits |-> "creator"]
          PROVE  /\ c.tap <= taps' /\ c.doc.attending # <<>>
                 /\ c.waits = "creator" /\ told'[Job(c)] = <<>>
      <4>1. told'[<<s.tap, d>>] = <<>>
        BY <1>1, <1>3, <1>4 DEF Untouched
      <4>2. QED
        BY <1>1, <1>2, <1>3, <3>2, <4>1 DEF Job
    <3>3. QED
      BY <1>2, <3>1, <3>2
  <2>2. QED
    BY <2>1 DEF ConversionsCounted, Job
<1>10. NothingIsShown'
  BY <1>2 DEF IInv, NothingIsShown
<1>11. CompletesTwiceWithError'
  <2> SUFFICES ASSUME NEW n \in 1..MaxTaps, NEW d \in Events
               PROVE  LET t == told'[<<n, d>>] IN
                      /\ Len(t) <= 2
                      /\ Len(t) = 2 => t[2] = "error"
                      /\ n \notin died' =>
                             (d \in results'[n] <=> (t # <<>> /\ t[1] = "event"))
    BY DEF CompletesTwiceWithError
  <2>1. CASE n = s.tap /\ d \in docs \ whole
    <3>1. told'[<<n, d>>] = <<"error">> /\ results'[n] = {}
      BY <1>1, <1>2, <1>4, <2>1 DEF Untouched
    <3>2. QED
      BY <3>1
  <2>2. CASE ~ (n = s.tap /\ d \in docs \ whole)
    BY <1>2, <1>4, <2>2 DEF IInv, CompletesTwiceWithError
  <2>3. QED
    BY <2>1, <2>2
<1>12. QED
  BY <1>6, <1>7, <1>8, <1>9, <1>10, <1>11 DEF IInv

\* The process dies with every search and conversion; what was told stays.
LEMMA SearchTrapsInv ==
    ASSUME IInv, NEW s \in searches, SearchTraps(s)
    PROVE  IInv'
<1>1. /\ searches' = {} /\ conversions' = {} /\ pulledEvents' = {}
      /\ \A n \in 1..MaxTaps : results'[n] = {}
      /\ died' = 1..taps
      /\ UNCHANGED <<told, taps, faults>>
      /\ taps \in 0..MaxTaps
  BY DEF SearchTraps, IInv, TypeOK
<1>2. TypeOK'
  <2>1. results' \in [1..MaxTaps -> SUBSET Events]
    BY DEF SearchTraps
  <2>2. 1..taps \subseteq 1..MaxTaps
    BY <1>1, SearchAssumption
  <2>3. QED
    BY <1>1, <2>1, <2>2 DEF IInv, TypeOK
<1>3. QueriesUntouched' /\ ConversionsCounted' /\ NothingIsShown'
  BY <1>1 DEF QueriesUntouched, ConversionsCounted, NothingIsShown
<1>4. FutureUntouched'
  BY <1>1 DEF IInv, FutureUntouched, Untouched
<1>5. CompletesTwiceWithError'
  <2> SUFFICES ASSUME NEW n \in 1..MaxTaps, NEW d \in Events
               PROVE  LET t == told'[<<n, d>>] IN
                      /\ Len(t) <= 2
                      /\ Len(t) = 2 => t[2] = "error"
                      /\ n \notin died' =>
                             (d \in results'[n] <=> (t # <<>> /\ t[1] = "event"))
    BY DEF CompletesTwiceWithError
  <2>1. n \notin died' => told'[<<n, d>>] = <<>>
    BY <1>1, SearchAssumption DEF IInv, FutureUntouched, Untouched
  <2>2. QED
    BY <1>1, <2>1 DEF IInv, CompletesTwiceWithError
<1>6. QED
  BY <1>2, <1>3, <1>4, <1>5 DEF IInv

\* A conversion calls its completion: with an event, or with an error; and it
\* ends, or goes on to wait for the attendee.
Completes(c, outcome) ==
    /\ Tell(c, outcome)
    /\ \/ outcome = "event" /\ c.waits = "creator" /\ Arrives(c)
       \/ outcome = "error" /\ UNCHANGED results
    /\ \/ Becomes(c, {})
       \/ c.waits = "creator" /\ Becomes(c, {[c EXCEPT !.waits = "attendee"]})
    /\ faults' \in 0..MaxFaults
    /\ UNCHANGED <<searches, pulledEvents, died, taps>>

\* What is called, and what arrives, concerns the conversion's own job only.
OwnJobOnly(c, outcome) ==
    /\ c.tap \in 1..MaxTaps /\ c.doc \in Events
    /\ \A n \in 1..MaxTaps, d \in Events :
          told'[<<n, d>>] = IF n = c.tap /\ d = c.doc
                            THEN Append(told[<<c.tap, c.doc>>], outcome)
                            ELSE told[<<n, d>>]
    /\ \A n \in 1..MaxTaps :
          results'[n] = IF n = c.tap /\ outcome = "event"
                        THEN results[n] \cup {c.doc}
                        ELSE results[n]
    /\ results' \in [1..MaxTaps -> SUBSET Events]
    /\ pulledEvents' = {}

\* The completion of a conversion touches the job that started it and no other.
LEMMA CompletesEffect ==
    ASSUME IInv, NEW c \in conversions, NEW outcome \in {"event", "error"},
           Completes(c, outcome)
    PROVE  OwnJobOnly(c, outcome)
<1>1. c.tap \in 1..MaxTaps /\ c.doc \in Events /\ Job(c) = <<c.tap, c.doc>>
  BY JobIsKey DEF IInv
<1>2. \A n \in 1..MaxTaps, d \in Events :
          told'[<<n, d>>] = IF n = c.tap /\ d = c.doc
                            THEN Append(told[<<c.tap, c.doc>>], outcome)
                            ELSE told[<<n, d>>]
  <2>1. \A n \in 1..MaxTaps, d \in Events :
            told'[<<n, d>>] = IF <<n, d>> = Job(c) THEN Append(told[Job(c)], outcome)
                                                  ELSE told[<<n, d>>]
    <3>1. TypeOK /\ Tell(c, outcome)
      BY DEF Completes, IInv
    <3>2. QED
      BY <3>1, TellEffect
  <2>2. \A n, d : <<n, d>> = Job(c) <=> n = c.tap /\ d = c.doc
    BY DEF Job
  <2>3. Job(c) = <<c.tap, c.doc>>
    BY <1>1
  <2> SUFFICES ASSUME NEW n \in 1..MaxTaps, NEW d \in Events
               PROVE  told'[<<n, d>>] = IF n = c.tap /\ d = c.doc
                                        THEN Append(told[<<c.tap, c.doc>>], outcome)
                                        ELSE told[<<n, d>>]
    OBVIOUS
  <2>4. told'[<<n, d>>] = IF <<n, d>> = Job(c) THEN Append(told[Job(c)], outcome)
                                              ELSE told[<<n, d>>]
    BY <2>1
  <2>5. QED
    BY <2>2, <2>3, <2>4, Zenon
<1>3. \A n \in 1..MaxTaps :
          results'[n] = IF n = c.tap /\ outcome = "event"
                        THEN results[n] \cup {c.doc}
                        ELSE results[n]
  BY <1>1 DEF Completes, Arrives, IInv, TypeOK
<1>4. results' \in [1..MaxTaps -> SUBSET Events]
  <2>1. results \in [1..MaxTaps -> SUBSET Events]
    BY DEF IInv, TypeOK
  <2>2. CASE Arrives(c)
    BY <1>1, <2>1, <2>2 DEF Arrives
  <2>3. CASE UNCHANGED results
    BY <2>1, <2>3
  <2>4. QED
    BY <2>2, <2>3 DEF Completes
<1>5. pulledEvents' = {}
  BY DEF Completes, Arrives, IInv, NothingIsShown
<1>6. QED
  BY <1>1, <1>2, <1>3, <1>4, <1>5 DEF OwnJobOnly

\* It waits with no call made, or with one.
LEMMA CallsMade ==
    ASSUME IInv, NEW c \in conversions
    PROVE  LET t == told[<<c.tap, c.doc>>] IN
           /\ t \in Seq({"event", "error"})
           /\ c.waits = "creator" => t = <<>>
           /\ c.waits = "attendee" => Len(t) = 1
           /\ c.waits \in {"creator", "attendee"}
BY JobIsKey DEF IInv, TypeOK, ConversionsCounted, Conversion

\* The conversions that go on keep their count of calls.
LEMMA CompletesCounts ==
    ASSUME IInv, NEW c \in conversions, NEW outcome \in {"event", "error"},
           Completes(c, outcome)
    PROVE  conversions' \subseteq Conversion /\ ConversionsCounted'
<1>0. OwnJobOnly(c, outcome)
  BY CompletesEffect
<1>1. c \in Conversion /\ c.tap <= taps /\ c.doc.attending # <<>>
  BY DEF IInv, TypeOK, ConversionsCounted
<1>2. taps' = taps
  BY DEF Completes
<1>3. ASSUME NEW b \in conversions', b \in conversions, b # c
      PROVE  told'[Job(b)] = told[Job(b)]
  <2>1. b.tap \in 1..MaxTaps /\ b.doc \in Events
    BY <1>3, JobIsKey DEF IInv
  <2>2. ~ (b.tap = c.tap /\ b.doc = c.doc)
    BY <1>3, ConversionOfJob DEF IInv, Job
  <2>3. QED
    BY <2>1, <2>2, <1>0 DEF Job, OwnJobOnly
<1>4. ASSUME NEW b \in conversions', b = [c EXCEPT !.waits = "attendee"], c.waits = "creator"
      PROVE  /\ b \in Conversion /\ b.tap <= taps /\ b.doc.attending # <<>>
             /\ b.waits = "attendee" /\ Len(told'[Job(b)]) = 1
  <2>1. b \in Conversion /\ b.tap = c.tap /\ b.doc = c.doc /\ b.waits = "attendee"
    BY <1>1, <1>4 DEF Conversion
  <2>2. told'[<<c.tap, c.doc>>] = Append(told[<<c.tap, c.doc>>], outcome)
    BY <1>0 DEF OwnJobOnly
  <2>3. Len(told'[<<c.tap, c.doc>>]) = 1
    BY <1>4, <2>2, CallsMade, AppendedOutcome
  <2>4. QED
    BY <1>1, <2>1, <2>3 DEF Job
<1>5. \A b \in conversions' : \/ b \in conversions /\ b # c
                              \/ b = [c EXCEPT !.waits = "attendee"] /\ c.waits = "creator"
  BY DEF Completes, Becomes
<1>6. conversions' \subseteq Conversion
  BY <1>4, <1>5 DEF IInv, TypeOK
<1>7. ASSUME NEW b \in conversions'
      PROVE  /\ b.tap <= taps' /\ b.doc.attending # <<>>
             /\ b.waits = "creator" => told'[Job(b)] = <<>>
             /\ b.waits = "attendee" => Len(told'[Job(b)]) = 1
  <2>1. CASE b \in conversions /\ b # c
    BY <1>2, <1>3, <2>1 DEF IInv, ConversionsCounted
  <2>2. CASE b = [c EXCEPT !.waits = "attendee"] /\ c.waits = "creator"
    BY <1>2, <1>4, <2>2
  <2>3. QED
    BY <1>5, <2>1, <2>2
<1>8. QED
  BY <1>6, <1>7 DEF ConversionsCounted, Job

\* The second call is an error; an event arrives with the first call only.
LEMMA CompletesTwiceKept ==
    ASSUME IInv, NEW c \in conversions, NEW outcome \in {"event", "error"},
           Completes(c, outcome)
    PROVE  CompletesTwiceWithError'
<1> SUFFICES ASSUME NEW n \in 1..MaxTaps, NEW d \in Events
             PROVE  LET t == told'[<<n, d>>] IN
                    /\ Len(t) <= 2
                    /\ Len(t) = 2 => t[2] = "error"
                    /\ n \notin died' =>
                           (d \in results'[n] <=> (t # <<>> /\ t[1] = "event"))
  BY DEF CompletesTwiceWithError
<1>0. OwnJobOnly(c, outcome)
  BY CompletesEffect
<1> DEFINE t0 == told[<<c.tap, c.doc>>]
           t1 == Append(t0, outcome)
<1>1. died' = died
  BY DEF Completes
<1>2. /\ t0 \in Seq({"event", "error"})
      /\ c.waits = "creator" => t0 = <<>>
      /\ c.waits = "attendee" => Len(t0) = 1
      /\ c.waits \in {"creator", "attendee"}
  BY CallsMade
<1>3. /\ t1 # <<>>
      /\ t0 = <<>> => Len(t1) = 1 /\ t1[1] = outcome
      /\ Len(t0) = 1 => Len(t1) = 2 /\ t1[1] = t0[1] /\ t1[2] = outcome /\ t0 # <<>>
  BY <1>2, AppendedOutcome
<1>4. CASE n = c.tap /\ d = c.doc
  <2>1. told'[<<n, d>>] = t1
    BY <1>4, <1>0 DEF OwnJobOnly
  <2>2. n \notin died => (d \in results[n] <=> (t0 # <<>> /\ t0[1] = "event"))
    BY <1>4 DEF IInv, CompletesTwiceWithError
  <2>3. outcome = "event" => c.waits = "creator"
    BY DEF Completes
  <2>4. outcome = "event" => d \in results'[n]
    BY <1>4, <1>0 DEF OwnJobOnly
  <2>5. outcome = "error" => results'[n] = results[n]
    BY <1>0 DEF OwnJobOnly
  <2> HIDE DEF t0, t1
  <2>6. CASE c.waits = "creator"
    <3>1. Len(t1) = 1 /\ t1 # <<>> /\ t1[1] = outcome
      BY <1>2, <1>3, <2>6
    <3>2. n \notin died' => (d \in results'[n] <=> outcome = "event")
      BY <1>1, <1>2, <2>2, <2>4, <2>5, <2>6
    <3>3. QED
      BY <2>1, <3>1, <3>2
  <2>7. CASE c.waits = "attendee"
    <3>1. /\ Len(t1) = 2 /\ t1 # <<>> /\ t1[1] = t0[1] /\ t1[2] = outcome /\ t0 # <<>>
          /\ outcome = "error"
      BY <1>2, <1>3, <2>3, <2>7
    <3>2. QED
      BY <1>1, <2>1, <2>2, <2>5, <3>1
  <2>8. QED
    BY <1>2, <2>6, <2>7
<1>5. CASE ~ (n = c.tap /\ d = c.doc)
  <2>1. told'[<<n, d>>] = told[<<n, d>>]
    BY <1>5, <1>0 DEF OwnJobOnly
  <2>2. d \in results'[n] <=> d \in results[n]
    BY <1>5, <1>0 DEF OwnJobOnly
  <2>3. QED
    BY <1>1, <2>1, <2>2 DEF IInv, CompletesTwiceWithError
<1>6. QED
  BY <1>4, <1>5

\* A conversion that completes is counted, and shows nothing.
LEMMA CompletesInv ==
    ASSUME IInv, NEW c \in conversions, NEW outcome \in {"event", "error"},
           Completes(c, outcome)
    PROVE  IInv'
<1>0. OwnJobOnly(c, outcome)
  BY CompletesEffect
<1>1. UNCHANGED <<searches, died, taps>> /\ faults' \in 0..MaxFaults
  BY DEF Completes
<1>2. c.tap \in 1..MaxTaps /\ c.tap <= taps /\ c.doc.attending # <<>>
  BY <1>0 DEF IInv, ConversionsCounted, OwnJobOnly
<1>3. \A n \in 1..MaxTaps : n # c.tap => (Untouched(n)' <=> Untouched(n))
  BY <1>0 DEF Untouched, OwnJobOnly
<1>4. TypeOK'
  <2>1. told' \in [(1..MaxTaps) \X Events -> Seq({"event", "error"})]
    BY TellEffect DEF Completes, IInv
  <2>2. QED
    BY <1>1, <2>1, <1>0, CompletesCounts DEF IInv, TypeOK, OwnJobOnly
<1>5. QueriesUntouched'
  <2>1. \A b \in conversions' : \E a \in conversions : b.tap = a.tap
    <3>1. c \in Conversion
      BY DEF IInv, TypeOK
    <3>2. [c EXCEPT !.waits = "attendee"].tap = c.tap
      BY <3>1 DEF Conversion
    <3>3. QED
      BY <3>2 DEF Completes, Becomes
  <2>2. ASSUME NEW s \in searches
        PROVE  s.tap <= taps' /\ Untouched(s.tap)' /\ \A b \in conversions' : b.tap # s.tap
    <3>1. s.tap # c.tap /\ s.tap \in 1..MaxTaps
      BY DEF IInv, QueriesUntouched, TypeOK, Search
    <3>2. QED
      BY <1>1, <1>3, <2>1, <3>1 DEF IInv, QueriesUntouched
  <2>3. QED
    BY <1>1, <2>2 DEF IInv, QueriesUntouched
<1>6. FutureUntouched'
  <2>1. taps \in Nat
    BY SearchAssumption DEF IInv, TypeOK
  <2>2. QED
    BY <1>1, <1>2, <1>3, <2>1 DEF IInv, FutureUntouched
<1>7. NothingIsShown'
  BY <1>0 DEF NothingIsShown, OwnJobOnly
<1>8. QED
  BY <1>4, <1>5, <1>6, <1>7, CompletesCounts, CompletesTwiceKept DEF IInv

\* The three steps in which a completion is called.
LEMMA CreatorFoundInv ==
    ASSUME IInv, NEW c \in conversions, CreatorFound(c)
    PROVE  IInv'
<1>1. \/ Completes(c, "event")
      \/ Completes(c, "error")
  BY DEF CreatorFound, Completes, IInv, TypeOK
<1>2. QED
  BY <1>1, CompletesInv

\* A creator who is not found completes the conversion with an error.
LEMMA CreatorMissingInv ==
    ASSUME IInv, NEW c \in conversions, CreatorMissing(c)
    PROVE  IInv'
<1>1. Completes(c, "error")
  BY SearchAssumption DEF CreatorMissing, Completes, Mishap, IInv, TypeOK
<1>2. QED
  BY <1>1, CompletesInv

\* So does an attendee who is not found, without ending the others.
LEMMA AttendeeMissingInv ==
    ASSUME IInv, NEW c \in conversions, AttendeeMissing(c)
    PROVE  IInv'
<1>1. Completes(c, "error")
  BY SearchAssumption DEF AttendeeMissing, Completes, Mishap, IInv, TypeOK
<1>2. QED
  BY <1>1, CompletesInv

\* The attendee found changes nothing that is still read.
LEMMA AttendeeFoundInv ==
    ASSUME IInv, NEW c \in conversions, AttendeeFound(c)
    PROVE  IInv'
<1>1. /\ conversions' \subseteq conversions
      /\ UNCHANGED <<searches, results, pulledEvents, told, died, taps, faults>>
  BY DEF AttendeeFound, Becomes
<1>2. TypeOK'
  BY <1>1 DEF IInv, TypeOK
<1>3. \A n : Untouched(n)' <=> Untouched(n)
  BY <1>1 DEF Untouched
<1>4. QueriesUntouched' /\ FutureUntouched'
  BY <1>1, <1>3 DEF IInv, QueriesUntouched, FutureUntouched
<1>5. ConversionsCounted'
  BY <1>1 DEF IInv, ConversionsCounted, Job
<1>6. NothingIsShown' /\ CompletesTwiceWithError'
  BY <1>1 DEF IInv, NothingIsShown, CompletesTwiceWithError
<1>7. QED
  BY <1>2, <1>4, <1>5, <1>6 DEF IInv

\* No step at all changes nothing.
LEMMA StutterInv ==
    ASSUME IInv, UNCHANGED vars
    PROVE  IInv'
<1>1. UNCHANGED <<searches, conversions, results, pulledEvents, told, died, taps, faults>>
  BY DEF vars
<1>2. \A n : Untouched(n)' <=> Untouched(n)
  BY <1>1 DEF Untouched
<1>3. QED
  BY <1>1, <1>2
     DEF IInv, TypeOK, QueriesUntouched, FutureUntouched, ConversionsCounted, Job,
         NothingIsShown, CompletesTwiceWithError

\* The invariant that carries the properties: arrays handed on are untouched, and
\* the calls of every completion are counted.
THEOREM Invariance == Spec => []IInv
<1>1. Init => IInv
  BY InitInv
<1>2. IInv /\ [Next]_vars => IInv'
  <2> SUFFICES ASSUME IInv, [Next]_vars
               PROVE  IInv'
    OBVIOUS
  <2>1. ASSUME NEW term \in String, TextDidChange(term)
        PROVE  IInv'
    BY <2>1, TextDidChangeInv
  <2>2. ASSUME NEW s \in searches, SearchFails(s) \/ SearchAnswered(s) \/ SearchTraps(s)
        PROVE  IInv'
    BY <2>2, SearchFailsInv, SearchAnsweredInv, SearchTrapsInv
  <2>3. ASSUME NEW c \in conversions, \/ CreatorFound(c) \/ CreatorMissing(c)
                                      \/ AttendeeFound(c) \/ AttendeeMissing(c)
        PROVE  IInv'
    BY <2>3, CreatorFoundInv, CreatorMissingInv, AttendeeFoundInv, AttendeeMissingInv
  <2>4. CASE UNCHANGED vars
    BY <2>4, StutterInv
  <2>5. QED
    BY <2>1, <2>2, <2>3, <2>4 DEF Next
<1>3. QED
  BY <1>1, <1>2, PTL DEF Spec

\* Every variable of the search keeps its type, whatever documents there are.
THEOREM TypeCorrect == Spec => []TypeOK
BY Invariance, PTL DEF IInv

\* getAllEventsMatching hands on its array before a conversion has appended to it:
\* the table of SearchEventsViewController stays empty in every behaviour.
THEOREM TableStaysEmpty == Spec => []NothingIsShown
BY Invariance, PTL DEF IInv

\* fromFireObj calls its completion at most twice, the second time with an error,
\* and an event arrives exactly when the first call said so.
THEOREM CompletionCalls == Spec => []CompletesTwiceWithError
BY Invariance, PTL DEF IInv
=============================================================================
