-------------------------------- MODULE Json --------------------------------
(***************************************************************************)
(* The JSON writer (src/src/json.c) over the string builder                *)
(* (src/src/stringbuf.c), as operators on a writer.                         *)
(*                                                                         *)
(* What has been written is abstracted to the state of a reader that has    *)
(* read it: what encloses the next token, and what that may be.  Tokens are *)
(* brackets, commas, "key" (a quoted name and its colon), "value" (a        *)
(* string, a number or null, escaped), the pieces of the CSV strings that    *)
(* db.c writes by itself, the callbacks around the whole, and "raw" (data    *)
(* that need an escape or quotes and are written without).  Layout is left   *)
(* out.                                                                     *)
(***************************************************************************)
EXTENDS Naturals, Sequences

\* `open' has the brackets that are open, the innermost first; `call' the
\* callback around the text.
Begin == [open |-> <<>>, next |-> "value", call |-> "none"]
End(call) == [open |-> <<>>, next |-> "end", call |-> call]
Bad == [open |-> <<>>, next |-> "bad", call |-> "none"]

\* Past raw data: a quote ends the string too early, a backslash takes the
\* character after it along, a text without quotes is no value.
Lost == [open |-> <<>>, next |-> "lost", call |-> "none"]

\* Members of an object that is yet to be put around them.
Members == [open |-> <<"{">>, next |-> "first", call |-> "none"]

Inside(r) == IF r.open = <<>> THEN "nothing" ELSE Head(r.open)
WantsValue(r) == r.next = "value" \/ (r.next = "first" /\ Inside(r) = "[")
WantsKey(r) == r.next = "key" \/ (r.next = "first" /\ Inside(r) = "{")

\* Past a value: a callback ends with its parenthesis, the text by itself.
AfterValue(r) ==
    [r EXCEPT !.next = IF r.open = <<>> /\ r.call = "none" THEN "end" ELSE "comma"]

Closes(r, t) ==
    /\ r.next \in {"first", "comma"}
    /\ <<Inside(r), t>> \in {<<"{", "}">>, <<"[", "]">>}

ReadInString(r, t) ==
    IF t = "quote" THEN AfterValue(r)
    ELSE IF t \in {"text", "escape", ","} THEN r ELSE Bad

ReadToken(r, t) ==
    CASE t \in {"{", "["} /\ WantsValue(r) ->
            [r EXCEPT !.open = <<t>> \o @, !.next = "first"]
      [] t \in {"js_callback", "js_error"} /\ r = Begin -> [r EXCEPT !.call = t]
      [] t = ")" /\ r.open = <<>> /\ r.next = "comma" -> End(r.call)
      [] t = "quote" /\ WantsValue(r) -> [r EXCEPT !.next = "string"]
      [] t = "value" /\ WantsValue(r) -> AfterValue(r)
      [] t = "key" /\ WantsKey(r) -> [r EXCEPT !.next = "value"]
      [] t = "," /\ r.next = "comma" /\ Inside(r) = "{" -> [r EXCEPT !.next = "key"]
      [] t = "," /\ r.next = "comma" /\ Inside(r) = "[" -> [r EXCEPT !.next = "value"]
      [] Closes(r, t) -> AfterValue([r EXCEPT !.open = Tail(@)])
      [] OTHER -> Bad

Read(r, t) ==
    IF r.next \in {"bad", "lost"} THEN r
    ELSE IF t = "raw" THEN Lost
    ELSE IF r.next = "string" THEN ReadInString(r, t)
    ELSE ReadToken(r, t)

ReadAll(r, text) ==
    LET after[n \in 0 .. Len(text)] == IF n = 0 THEN r ELSE Read(after[n - 1], text[n])
    IN  after[Len(text)]

-----------------------------------------------------------------------------
\* A writer: its text so far, for each open object and array whether it has
\* items (the innermost first), and whether a key waits for its value.
New == [text |-> Begin, stack |-> <<>>, pending |-> FALSE]

\* sb_append, and json_add_json, which tells the writer nothing.
AddJson(j, tokens) == [j EXCEPT !.text = ReadAll(@, tokens)]

\* json_add_json of what another writer wrote, which began as Members.
AddText(j, text) ==
    [j EXCEPT !.text = IF ~ WantsKey(@) THEN Bad
                       ELSE IF text = Lost THEN Lost
                       ELSE IF text = [Members EXCEPT !.next = "comma"]
                            THEN [@ EXCEPT !.next = "comma"] ELSE Bad]

HasItems(j) == j.stack # <<>> /\ Head(j.stack)
CountItem(j) == IF j.stack = <<>> THEN j ELSE [j EXCEPT !.stack = <<TRUE>> \o Tail(@)]
Comma(j) == IF HasItems(j) /\ ~ j.pending THEN <<",">> ELSE <<>>

\* json_new_object and json_new_array
Open(j, bracket) ==
    [text |-> ReadAll(j.text, Append(Comma(j), bracket)),
     stack |-> <<FALSE>> \o CountItem(j).stack,
     pending |-> FALSE]

\* json_end_object and json_end_array: the node of the stack goes, whatever
\* its type is.
Close(j, bracket) == [AddJson(j, <<bracket>>) EXCEPT !.stack = IF @ = <<>> THEN @ ELSE Tail(@)]

\* json_add_key: the name goes between its quotes as it is, so `key' is "raw" for
\* a name with a character that JSON escapes.
AddKeyAs(j, key) == [CountItem(AddJson(j, Append(Comma(j), key))) EXCEPT !.pending = TRUE]
AddKey(j) == AddKeyAs(j, "key")

\* json_add_string (its value escaped), json_add_number (as the caller gives it),
\* json_add_null
AddMemberAs(j, key, value) == [AddJson(AddKeyAs(j, key), <<value>>) EXCEPT !.pending = FALSE]
AddMember(j) == AddMemberAs(j, "key", "value")

AddMembers(j, n) ==
    LET with[k \in 0 .. n] == IF k = 0 THEN j ELSE AddMember(with[k - 1]) IN with[n]

NewObject(j) == Open(j, "{")
EndObject(j) == Close(j, "}")
NewArray(j) == Open(j, "[")
EndArray(j) == Close(j, "]")

\* A member whose value is an object or an array that the caller fills.
KeyedObject(j) == NewObject(AddKey(j))
KeyedArray(j) == NewArray(AddKey(j))
=============================================================================
