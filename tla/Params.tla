--------------------------------- MODULE Params ---------------------------------
(***************************************************************************)
(* The parameters of a query: dbrelay_resolve_params, find_placeholder and *)
(* is_quoted_param of src/src/db.c, which put them in the place of the     *)
(* question marks of the text, and the two ways the query goes from there, *)
(* to the driver or to a connector (run_query, client.c).                  *)
(*                                                                         *)
(* A text is a sequence of quotes, question marks and other characters; a  *)
(* parameter is one item of the result.  pos is an offset into the text as *)
(* in C, from 0.                                                           *)
(***************************************************************************)
EXTENDS Integers, Sequences, SequencesExt, FiniteSetsExt

CONSTANTS
    MaxText,      \* the longest text
    MaxParams,    \* the most parameters
    Values,       \* what the parameters are
    Magic         \* TRUE: built with a text to put before each query

ParamsAssumption ==
    /\ MaxText \in Nat \ {0} /\ Magic \in BOOLEAN
    /\ IsFiniteSet(Values) /\ MaxParams \in 0..Cardinality(Values)

VARIABLES
    sql,          \* request->sql
    params,       \* TRUE for each parameter that goes in quotes
    nomagic,      \* the flag
    named,        \* the request names a connection
    i, pos, sb,   \* the loop of resolve_params
    pc,
    sent          \* the text the server gets

input == <<sql, params, nomagic, named>>
vars == <<input, i, pos, sb, pc, sent>>

Texts == BoundedSeq({"'", "?", "x"}, MaxText)
Value(n) == SetToSeq(Values)[n]

WithMagic == Magic /\ ~ nomagic

Init ==
    /\ sql \in Texts \ {<<>>}
    /\ params \in BoundedSeq(BOOLEAN, MaxParams)
    /\ nomagic \in BOOLEAN /\ named \in BOOLEAN
    /\ i = 0 /\ pos = 0 /\ pc = "loop"
    /\ sb = IF WithMagic THEN <<"magic">> ELSE <<>>
    /\ sent = <<>>

--------------------------------------------------------------------------------
\* Mutant: quotes are not minded.
find_placeholder_anywhere(text) ==
    LET scan[k \in 0..Len(text)] ==
            IF k = Len(text) THEN -1 ELSE IF text[k + 1] = "?" THEN k ELSE scan[k + 1]
    IN  scan[0]

\* The offset of the first question mark outside quotes, or -1.
find_placeholder(text) ==
    LET scan[k \in 0..Len(text)] == [quoted \in BOOLEAN |->
            IF k = Len(text) THEN -1
            ELSE LET now == quoted # (text[k + 1] = "'")
                 IN  IF ~ now /\ text[k + 1] = "?" THEN k ELSE scan[k + 1][now]]
    IN  scan[0][FALSE]

Quoted(n) == IF params[n] THEN <<"'", Value(n), "'">> ELSE <<Value(n)>>

\* One turn of the loop.  pos is tested for -1 after the offset of the search
\* was added to it; a text without a further placeholder is then appended to
\* its end, the NUL at pos being behind its beginning.
Resolve ==
    LET found == pos + find_placeholder(SubSeq(sql, pos + 1, Len(sql)))
    IN  /\ pc = "loop" /\ i < Len(params)
        /\ IF found = -1
           THEN UNCHANGED <<pos, sb>>
           ELSE /\ sb' = sb \o SubSeq(sql, pos + 1, IF found < pos THEN Len(sql) ELSE found)
                            \o Quoted(i + 1)
                /\ pos' = found + 1
        /\ i' = i + 1
        /\ UNCHANGED <<input, pc, sent>>

\* The rest of the text is appended.
ResolveEnd ==
    /\ pc = "loop" /\ i = Len(params)
    /\ sb' = sb \o SubSeq(sql, pos + 1, Len(sql))
    /\ pc' = "send"
    /\ UNCHANGED <<input, i, pos, sent>>

\* Mutant: the driver gets the text of the request.
SendUnresolved ==
    /\ pc = "send" /\ pc' = "done"
    /\ sent' = sql
    /\ UNCHANGED <<input, i, pos, sb>>

\* exec_query gets newsql, send_request sends request->sql.
Send ==
    /\ pc = "send" /\ pc' = "done"
    /\ sent' = IF named THEN sql ELSE sb
    /\ UNCHANGED <<input, i, pos, sb>>

Next == Resolve \/ ResolveEnd \/ Send

Spec == Init /\ [][Next]_vars /\ WF_vars(Next)

--------------------------------------------------------------------------------
\* What the text means: the n-th placeholder is replaced by the n-th parameter,
\* placeholders and parameters without a counterpart stay as they are.
Quotes(text) == Cardinality({k \in DOMAIN text : text[k] = "'"})
Placeholders(text) ==
    {k \in DOMAIN text : text[k] = "?" /\ Quotes(SubSeq(text, 1, k)) % 2 = 0}
Ordinal(k) == Cardinality({m \in Placeholders(sql) : m =< k})
Replaced ==
    FlattenSeq([k \in DOMAIN sql |->
        IF k \in Placeholders(sql) /\ Ordinal(k) =< Len(params)
        THEN Quoted(Ordinal(k)) ELSE <<sql[k]>>])
Reference == (IF WithMagic THEN <<"magic">> ELSE <<>>) \o Replaced

\* The states the variables range over.
TypeOK ==
    /\ sql \in Texts /\ params \in BoundedSeq(BOOLEAN, MaxParams)
    /\ nomagic \in BOOLEAN /\ named \in BOOLEAN
    /\ i \in 0..Len(params) /\ pos \in 0..Len(sql)
    /\ pc \in {"loop", "send", "done"}
    /\ Range(sb) \subseteq {"'", "?", "x", "magic"} \cup {Value(n) : n \in 1..MaxParams}

\* Each parameter takes the place of its question mark and nothing else in the
\* text changes, when there is a place for each or for none: a question mark
\* in quotes is not one (resolve_params, db.c 782-816).
ResolvesPlaceholders ==
    pc # "loop" /\ (Placeholders(sql) = {} \/ Len(params) =< Cardinality(Placeholders(sql)))
        => sb = Reference

\* The server of a request without a connection name gets the resolved text.
DriverGetsResolved == pc = "done" /\ ~ named => sent = sb

\* "ignore missing placeholders" (db.c:798): a parameter that has no
\* placeholder leaves no trace, wherever the search for it began.
MissingIgnored == pc # "loop" => sb = Reference
================================================================================
