----------------------------- MODULE EventSearch -----------------------------
(***************************************************************************)
(* The search for events: the search bar of SearchEventsViewController,     *)
(* EventController.getAllEventsMatching, Event.fromFireObj with its nested  *)
(* lookups of the creator and of an attendee, and the table they fill.      *)
(*                                                                         *)
(* A completion that runs at once is part of the step that causes it; the   *)
(* answers to queries and lookups are steps of the main queue, in any       *)
(* order.  Strings are model values: a term, a date and a uuid are the same *)
(* kind of thing, because the query compares them all to the term.          *)
(***************************************************************************)
EXTENDS Naturals, Sequences

CONSTANTS
    String,     \* what can be typed or stored
    Dates,      \* the strings that the full date style can read
    Holders,    \* the uuids of the users who have a profile
    Events,     \* the documents of the collection, which the app only reads
    MaxTaps,    \* bound: changes of the search text
    MaxFaults   \* bound: queries and lookups that fail

\* A document.  Its location is two numbers, two parts that are no numbers, or
\* lacks the comma; "incomplete" is one with a field missing or of another type.
Document == [title : String, eventTime : String, instruments : String,
             creator : String, attending : Seq(String),
             location : {"numbers", "words", "noComma", "incomplete"}]

ASSUME SearchAssumption ==
    /\ Dates \subseteq String /\ Holders \subseteq String
    /\ Events \subseteq Document
    /\ MaxTaps \in Nat /\ MaxFaults \in Nat

VARIABLES
    searches,     \* queries under way: the tap that started them and the term
    conversions,  \* calls of fromFireObj that wait for a lookup
    results,      \* results[n]: the array that search n appends its events to
    pulledEvents, \* what the table shows
    told,         \* history: what each conversion has called its completion with
    died,         \* history: the searches that a trap has ended
    taps, faults

vars == <<searches, conversions, results, pulledEvents, told, died, taps, faults>>

Search == [tap : 1..MaxTaps, term : String]

\* Only a document whose fields and numbers can be read gets as far as a lookup.
Conversion == [tap : 1..MaxTaps, doc : {d \in Events : d.location = "numbers"},
               waits : {"creator", "attendee"}]

Job(c) == <<c.tap, c.doc>>

-----------------------------------------------------------------------------
(* The search *)

\* Four equalities, all with the one term.
Matching(term) ==
    {d \in Events : /\ d.title = term /\ d.eventTime = term /\ d.instruments = term
                    /\ \E i \in DOMAIN d.attending : d.attending[i] = term}

Mishap == faults < MaxFaults /\ faults' = faults + 1

\* Each change of the text starts a query; an empty text does not.
TextDidChange(term) ==
    /\ taps < MaxTaps
    /\ taps' = taps + 1
    /\ searches' = searches \cup {[tap |-> taps + 1, term |-> term]}
    /\ UNCHANGED <<conversions, results, pulledEvents, told, died, faults>>

\* An error or no document: the user is told, the table stays.
SearchFails(s) ==
    /\ \/ Mishap
       \/ Matching(s.term) = {} /\ UNCHANGED faults
    /\ searches' = searches \ {s}
    /\ UNCHANGED <<conversions, results, pulledEvents, told, died, taps>>

\* Mutant: the coordinates are not checked.
ReadableUnchecked(docs) == {d \in docs : d.location # "incomplete"}

\* The guards of fromFireObj: every field is there, both coordinates are numbers.
Readable(docs) == {d \in docs : d.location = "numbers"}

\* Mutant: one array for all searches.
FoundByAny(n) == UNION {results[m] : m \in 1..MaxTaps}

\* The array of search n, which is a value.
Found(n) == results[n]

\* The array is handed on as soon as the conversions are started.
SearchAnswered(s) ==
    LET docs == Matching(s.term)
        whole == Readable(docs)
    IN
    /\ docs # {}
    /\ \A d \in docs : d.location # "noComma"
    /\ searches' = searches \ {s}
    /\ conversions' = conversions \cup
           {[tap |-> s.tap, doc |-> d, waits |-> "creator"] : d \in whole}
    /\ told' = [j \in DOMAIN told |->
                  IF j[1] = s.tap /\ j[2] \in docs \ whole THEN <<"error">> ELSE told[j]]
    /\ pulledEvents' = Found(s.tap)
    /\ UNCHANGED <<results, died, taps, faults>>

\* array[1] is read although the location may have no second part: the process
\* dies, and the screen starts anew.
SearchTraps(s) ==
    /\ \E d \in Matching(s.term) : d.location = "noComma"
    /\ searches' = {} /\ conversions' = {} /\ pulledEvents' = {}
    /\ results' = [n \in 1..MaxTaps |-> {}]
    /\ died' = 1..taps
    /\ UNCHANGED <<told, taps, faults>>

-----------------------------------------------------------------------------
(* fromFireObj *)

Becomes(c, S) == conversions' = (conversions \ {c}) \cup S
Tell(c, outcome) == told' = [told EXCEPT ![Job(c)] = Append(@, outcome)]

\* The caller's completion appends the event to its own array.  An event is named
\* by its document; nothing reads its attendees.
Arrives(c) == results' = [results EXCEPT ![c.tap] = @ \cup {c.doc}]

\* Mutant: without a date nobody is told.
CreatorFoundSilent(c) ==
    /\ c.waits = "creator"
    /\ c.doc.creator \in Holders
    /\ Becomes(c, {[c EXCEPT !.waits = "attendee"]})
    /\ UNCHANGED <<searches, results, pulledEvents, told, died, taps, faults>>

\* The creator is found: the loop over the attendees returns in its first turn,
\* with the lookup of the first attendee on its way.
CreatorFound(c) ==
    /\ c.waits = "creator"
    /\ c.doc.creator \in Holders
    /\ Becomes(c, {[c EXCEPT !.waits = "attendee"]})
    /\ \/ /\ c.doc.eventTime \in Dates
          /\ Arrives(c)
          /\ Tell(c, "event")
       \/ /\ c.doc.eventTime \notin Dates
          /\ Tell(c, "error")
          /\ UNCHANGED results
    /\ UNCHANGED <<searches, pulledEvents, died, taps, faults>>

\* An unknown creator or a failed lookup ends the conversion.
CreatorMissing(c) ==
    /\ c.waits = "creator"
    /\ \/ Mishap
       \/ c.doc.creator \notin Holders /\ UNCHANGED faults
    /\ Becomes(c, {})
    /\ Tell(c, "error")
    /\ UNCHANGED <<searches, results, pulledEvents, died, taps>>

\* The attendee found is appended to an array that nobody reads any more.
AttendeeFound(c) ==
    /\ c.waits = "attendee"
    /\ c.doc.attending[1] \in Holders
    /\ Becomes(c, {})
    /\ UNCHANGED <<searches, results, pulledEvents, told, died, taps, faults>>

\* Mutant: the error is reported and the lookup repeated.
AttendeeMissingRetried(c) ==
    /\ c.waits = "attendee"
    /\ \/ Mishap
       \/ c.doc.attending[1] \notin Holders /\ UNCHANGED faults
    /\ Len(told[Job(c)]) < 3
    /\ Tell(c, "error")
    /\ UNCHANGED <<searches, conversions, results, pulledEvents, died, taps>>

\* Its failure calls the completion once more.
AttendeeMissing(c) ==
    /\ c.waits = "attendee"
    /\ \/ Mishap
       \/ c.doc.attending[1] \notin Holders /\ UNCHANGED faults
    /\ Becomes(c, {})
    /\ Tell(c, "error")
    /\ UNCHANGED <<searches, results, pulledEvents, died, taps>>

-----------------------------------------------------------------------------
Init ==
    /\ searches = {} /\ conversions = {} /\ pulledEvents = {}
    /\ results = [n \in 1..MaxTaps |-> {}]
    /\ told = [j \in (1..MaxTaps) \X Events |-> <<>>]
    /\ died = {} /\ taps = 0 /\ faults = 0

Next ==
    \/ \E term \in String : TextDidChange(term)
    \/ \E s \in searches : SearchFails(s) \/ SearchAnswered(s) \/ SearchTraps(s)
    \/ \E c \in conversions : \/ CreatorFound(c) \/ CreatorMissing(c)
                              \/ AttendeeFound(c) \/ AttendeeMissing(c)

Spec == Init /\ [][Next]_vars

\* Every lookup is answered, in one way or the other.
Fairness ==
    \A n \in 1..MaxTaps : \A d \in Events :
        WF_vars(\E c \in conversions : Job(c) = <<n, d>> /\ (CreatorFound(c) \/ CreatorMissing(c)))

FairSpec == Spec /\ Fairness

-----------------------------------------------------------------------------
(* Properties *)

\* Every variable keeps its type (EventController, Event, SearchEventsViewController).
TypeOK ==
    /\ searches \subseteq Search
    /\ conversions \subseteq Conversion
    /\ results \in [1..MaxTaps -> SUBSET Events]
    /\ pulledEvents \subseteq Events
    /\ told \in [(1..MaxTaps) \X Events -> Seq({"event", "error"})]
    /\ died \subseteq 1..MaxTaps
    /\ taps \in 0..MaxTaps /\ faults \in 0..MaxFaults

\* The table never shows an event, however many are found: getAllEventsMatching
\* hands on its array before any conversion has appended to it, and an array is a
\* value.  So the late answers of two searches cannot disturb the table either,
\* and the quick look is never reached.
NothingIsShown == pulledEvents = {}

\* fromFireObj may call its completion twice, but the second time only to report
\* the failed lookup of the first attendee; an event arrives at most once, and
\* exactly when the first call said so.
CompletesTwiceWithError ==
    \A n \in 1..MaxTaps : \A d \in Events :
        LET t == told[<<n, d>>] IN
        /\ Len(t) <= 2
        /\ Len(t) = 2 => t[2] = "error"
        /\ n \notin died =>
               (d \in results[n] <=> (t # <<>> /\ t[1] = "event"))

\* Every conversion that a search starts calls its completion, unless the search
\* of another term kills the process.
ConversionCompletes ==
    \A n \in 1..MaxTaps : \A d \in Events :
        (\E c \in conversions : Job(c) = <<n, d>>) ~> (told[<<n, d>>] # <<>> \/ n \in died)
=============================================================================
