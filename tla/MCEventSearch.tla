---------------------------- MODULE MCEventSearch ----------------------------
(* A small instance of EventSearch: may and jun are dates, jazz and rock are    *)
(* not; ann has a profile and bob has none.                                     *)
EXTENDS EventSearch

CONSTANTS may, jun, jazz, rock, ann, bob

Listed(term, creator, attending, location) ==
    [title |-> term, eventTime |-> term, instruments |-> term,
     creator |-> creator, attending |-> attending, location |-> location]

MCEvents ==
    {Listed(may, ann, <<may>>, "numbers"),
     Listed(may, ann, <<ann, may>>, "numbers"),
     Listed(may, bob, <<bob, may>>, "numbers"),
     Listed(jazz, ann, <<ann, jazz>>, "numbers"),
     Listed(jazz, ann, <<jazz>>, "words"),
     Listed(jazz, bob, <<jazz>>, "incomplete"),
     Listed(rock, ann, <<rock>>, "noComma"),
     [Listed(jun, ann, <<jun>>, "numbers") EXCEPT !.title = may]}
=============================================================================
