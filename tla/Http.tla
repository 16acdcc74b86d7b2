---------------------------------- MODULE Http ----------------------------------
(***************************************************************************)
(* The front of the nginx module (src/src/ngx_http_dbrelay_module.c): the  *)
(* handler that admits a request and asks for its body, the callback that  *)
(* runs it when the body is there, and the header values both look at.     *)
(* What the request then does is QueryString and Response.                 *)
(*                                                                         *)
(* Headers are kept as nginx keeps them, in a list of parts.  A header     *)
(* value is the sequence of its items, cut at the commas; an item is a     *)
(* word, alone or with a blank before it or a ;q= behind it.               *)
(***************************************************************************)
EXTENDS Naturals, Sequences, SequencesExt

CONSTANTS
    Keys,         \* the header names sent
    Words,        \* the items of header values
    MaxHeaders, MaxItems

HttpAssumption ==
    /\ MaxHeaders \in Nat /\ MaxItems \in Nat

VARIABLES
    method, uri,  \* the request line; uri is "ok", "slash" or "zero"
    parts,        \* headers_in.headers
    origins,      \* vlcf->origin, <<>> when not configured
    pc,           \* where the request is
    status,       \* what nginx answers, "none" before
    content_type,
    runs          \* times the request was run

input == <<method, uri, parts, origins>>
vars == <<input, pc, status, content_type, runs>>

Items == [word : Words, alone : BOOLEAN]
Headers == [key : Keys, value : BoundedSeq(Items, MaxItems) \ {<<>>}]

\* The ways nginx fills two parts; only the last one has room left.
Lists == LET all == BoundedSeq(Headers, MaxHeaders)
         IN  {<<h>> : h \in all} \cup
             {<<SubSeq(h, 1, 1), SubSeq(h, 2, Len(h))>> : h \in {g \in all : Len(g) > 1}}

Init ==
    /\ method \in {"GET", "HEAD", "POST", "PUT"} /\ uri \in {"ok", "slash", "zero"}
    /\ parts \in Lists
    /\ origins \in {<<>>, <<"one">>, <<"two", "one">>, <<"*">>}
    /\ pc = "handler" /\ status = "none" /\ content_type = "none" /\ runs = 0

--------------------------------------------------------------------------------
None == <<>>

\* strncmp(key, name, strlen(name)): a shorter name than the key is enough.
Begins(name, key) == name = key \/ <<name, key>> \in {<<"Acc", "Accept">>, <<"O", "Origin">>}

\* Mutant: the index is not put back at the next part.
get_header_value_skips(key) ==
    LET find[p \in 1..Len(parts)] == [i \in 0..MaxHeaders |->
            IF i < Len(parts[p])
            THEN IF Begins(parts[p][i + 1].key, key)
                 THEN parts[p][i + 1].value ELSE find[p][i + 1]
            ELSE IF p = Len(parts) THEN None ELSE find[p + 1][i]]
    IN  find[1][0]

\* The value of the first header whose name is a beginning of the key, as the
\* comparison is as long as the name.
get_header_value(key) ==
    LET find[p \in 1..Len(parts)] == [i \in 0..MaxHeaders |->
            IF i < Len(parts[p])
            THEN IF Begins(parts[p][i + 1].key, key)
                 THEN parts[p][i + 1].value ELSE find[p][i + 1]
            ELSE IF p = Len(parts) THEN None ELSE find[p + 1][0]]
    IN  find[1][0]

\* strcmp of one item with a word: nothing may stand before or behind it.
Is(item, word) == item = [word |-> word, alone |-> TRUE]

\* The whole value is one origin; a pattern that is a star matches any.
origin_matches ==
    LET value == get_header_value("Origin")
    IN  value # None /\ \E o \in Range(origins) :
            o = "*" \/ (Len(value) = 1 /\ Is(value[1], o))

\* Mutant: the result of strcmp is taken for a truth value.
accepts_anything_json ==
    LET value == get_header_value("Accept")
    IN  \E n \in DOMAIN value : ~ Is(value[n], "application/json")

\* The loop that is to cut off the weight ends at the first character.
accepts_application_json ==
    LET value == get_header_value("Accept")
    IN  \E n \in DOMAIN value : Is(value[n], "application/json")

--------------------------------------------------------------------------------
Refuse(s) ==
    /\ pc = "handler" /\ pc' = "end"
    /\ status' = s
    /\ UNCHANGED <<input, content_type, runs>>

NotAllowed == method \notin {"GET", "HEAD", "POST"} /\ Refuse("405")
Declined == method \in {"GET", "HEAD", "POST"} /\ uri # "ok" /\ Refuse("declined")
Forbidden ==
    /\ method \in {"GET", "HEAD", "POST"} /\ uri = "ok"
    /\ origins # <<>> /\ ~ origin_matches
    /\ Refuse("403")

Admitted ==
    /\ method \in {"GET", "HEAD", "POST"} /\ uri = "ok"
    /\ origins = <<>> \/ origin_matches

\* nginx reads the body and calls back when it has all of it, or ends the
\* request itself.
ReadBody ==
    /\ pc = "handler" /\ Admitted
    /\ pc' = "body"
    /\ UNCHANGED <<input, status, content_type, runs>>

BodyFails ==
    /\ pc = "body" /\ pc' = "end"
    /\ status' = "400"
    /\ UNCHANGED <<input, content_type, runs>>

\* send_response up to the buffer for the answer.
BodyHandler ==
    /\ pc = "body" /\ pc' = "buffer"
    /\ runs' = runs + 1
    /\ UNCHANGED <<input, status, content_type>>

\* Without memory for the buffer the status is returned to the callback, which
\* drops it.
NoBuffer ==
    /\ pc = "buffer" /\ pc' = "dropped"
    /\ UNCHANGED <<input, status, content_type, runs>>

Send ==
    /\ pc = "buffer" /\ pc' = "end"
    /\ content_type' = IF accepts_application_json THEN "application/json" ELSE "text/plain"
    /\ status' = "200"
    /\ UNCHANGED <<input, runs>>

Handler == NotAllowed \/ Declined \/ Forbidden \/ ReadBody
Callback == BodyFails \/ BodyHandler \/ NoBuffer \/ Send
Next == Handler \/ Callback

Spec == Init /\ [][Next]_vars

--------------------------------------------------------------------------------
\* The states the variables range over; only a request that was run is answered
\* with 200.
TypeOK ==
    /\ method \in {"GET", "HEAD", "POST", "PUT"} /\ uri \in {"ok", "slash", "zero"}
    /\ parts \in Seq(Seq(Headers)) /\ Range(origins) \subseteq {"one", "two", "*"}
    /\ pc \in {"handler", "body", "buffer", "dropped", "end"}
    /\ status \in {"none", "405", "declined", "403", "400", "200"}
    /\ content_type \in {"none", "application/json", "text/plain"}
    /\ runs \in 0..1
    /\ status = "200" <=> (pc = "end" /\ runs = 1)

\* The places, part and number, of the headers named key, and of those whose
\* name is shorter and begins it.
HeaderAt(place) == parts[place[1]][place[2]]
Places == {place \in (1..Len(parts)) \X (1..MaxHeaders) : place[2] =< Len(parts[place[1]])}
Named(key) == {place \in Places : HeaderAt(place).key = key}
Shorter(key) == {place \in Places : HeaderAt(place).key # key /\ Begins(HeaderAt(place).key, key)}
Before(place, other) == place[1] < other[1] \/ (place[1] = other[1] /\ place[2] < other[2])

\* get_header_value finds the first header of a name in whatever part it is, and
\* nothing when there is none (ngx_http_dbrelay_module.c 212-242).  That is not
\* so when a header with a shorter name that begins the key comes first.
FindsHeader ==
    \A key \in {"Accept", "Origin"} :
        /\ Named(key) \cup Shorter(key) = {} => get_header_value(key) = None
        /\ \A place \in Named(key) :
              (\A other \in Named(key) \cup Shorter(key) : ~ Before(other, place)) =>
                  get_header_value(key) = HeaderAt(place).value

\* The answer is sent as application/json only to a client that lists that
\* very type in its Accept (ngx 185-210), or sent a header with a shorter name.
JsonOnlyIfListed ==
    content_type = "application/json" /\ Shorter("Accept") = {} =>
        \E place \in Named("Accept") : \E item \in Range(HeaderAt(place).value) :
            item.word = "application/json"
================================================================================
