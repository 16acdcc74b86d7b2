---------------------------- MODULE QueryString ----------------------------
(***************************************************************************)
(* How the web server's module takes the fields of a request out of a query *)
(* string or a posted body (src/src/ngx_http_dbrelay_module.c:603): a loop   *)
(* over the characters with one buffer for the key and one for the value,    *)
(* which is unescaped in place and used again for the next field.           *)
(*                                                                         *)
(* A key, and a character of a value in the way it is sent, are a token     *)
(* each; "%2B" and "%0A" become "+" and a newline.  The buffers have a fixed *)
(* room that nobody compares with: the loop may leave them, and what the     *)
(* program does after that is not modelled.                                 *)
(***************************************************************************)
EXTENDS Integers, Sequences

CONSTANTS
    Keys,       \* the keys a request is sent with
    Tokens,     \* the characters of values, as they are sent
    MaxPairs, MaxValue,     \* bounds on a request
    ValueSize,  \* value[4000]: the room for a value, when it comes in the address
    FieldLen,   \* DBRELAY_OBJ_SZ and the like: the room of a field
    MaxParams   \* DBRELAY_MAX_PARAMS

QueryAssumption ==
    /\ {MaxPairs, MaxValue} \subseteq Nat /\ {ValueSize, FieldLen, MaxParams} \subseteq Nat \ {0}
    /\ Keys \subseteq {"sql", "sql_user", "status", "log_level", "flags", "param0", "param1", "param3",
                      "long"}     \* any key that key[100] has no room for
    /\ Tokens \subseteq {"x", ",", "+", "%2B", "%0A"}

VARIABLES
    way,        \* "get", or "post" (a body in memory or in a file)
    pairs,      \* what the client means to send
    input, s,   \* the characters it sends, and the next one
    key, target,\* the key so far; whether a value is being read
    value, v,   \* the buffer of the value, and where its next character goes
    fields,     \* the request
    at          \* "read", "done", or "overrun": it wrote outside its buffers

vars == <<way, pairs, input, s, key, target, value, v, fields, at>>

Fields == (Keys \ {"long"}) \cup {"param2"}
Strings == UNION {[1 .. n -> Tokens] : n \in 0 .. MaxValue}

\* A field may come without "=": only its being there matters.
Pairs == [key : Keys, bare : {FALSE}, val : Strings] \cup [key : Keys, bare : {TRUE}, val : {<<>>}]

Text(p) == IF p.bare THEN <<p.key>> ELSE <<p.key, "=">> \o p.val
Encoded(ps) ==
    LET upto[n \in 1 .. Len(ps)] ==
            IF n = 1 THEN Text(ps[1]) ELSE upto[n - 1] \o <<"&">> \o Text(ps[n])
    IN  upto[Len(ps)]

\* The cells from where the buffer for values begins; its own are those before
\* Room.  A posted value gets as much as the whole body takes.
Cells == 0 .. MaxPairs * (MaxValue + 3)
Room == IF way = "get" THEN ValueSize ELSE Len(input)

\* The buffer is not cleared; what lies in it may be newlines.
Init ==
    /\ way \in {"get", "post"}
    /\ \E n \in 1 .. MaxPairs : pairs \in [1 .. n -> Pairs]
    /\ \E newline \in {<<>>, <<"\n">>} :
          /\ way = "get" => newline = <<>>
          /\ input = Encoded(pairs) \o newline
    /\ s = 1 /\ key = <<>> /\ target = "key"
    /\ \E stale \in {"stale", "\n"} : value = [c \in Cells |-> stale]
    /\ v = 0
    /\ fields = [f \in Fields |-> <<"unset">>]
    /\ at = "read"

-----------------------------------------------------------------------------
(* write_value: unescape in place, and store by the key. *)

Unescape(t) == CASE t = "+" -> " " [] t = "%2B" -> "+" [] t = "%0A" -> "\n" [] OTHER -> t

\* The string that begins at the first cell: up to the NUL.
StringIn(cells) ==
    LET ends == {c \in Cells : cells[c] = "NUL"}
        len  == IF ends = {} THEN Len(input) ELSE CHOOSE c \in ends : \A e \in ends : c <= e
    IN  [k \in 1 .. len |-> cells[k - 1]]

Unescaped(str) == [k \in DOMAIN str |-> Unescape(str[k])]
UnescapedIn(cells) ==
    [c \in Cells |-> IF c < Len(StringIn(cells)) THEN Unescape(cells[c]) ELSE cells[c]]

\* dbrelay_copy_string
Truncated(str) == SubSeq(str, 1, IF Len(str) < FieldLen THEN Len(str) ELSE FieldLen - 1)

ParamNumber(k) ==
    CASE k = "param0" -> 0 [] k = "param1" -> 1 [] k = "param2" -> 2 [] k = "param3" -> 3

Param(i) == IF i = 1 THEN "param1" ELSE "param2"

\* write_flag_values: a word between commas.
HasFlag(str, flag) ==
    \E k \in DOMAIN str :
        /\ str[k] = flag
        /\ k = 1 \/ str[k - 1] = ","
        /\ k = Len(str) \/ str[k + 1] = ","

Stored(k, str) ==
    CASE k = <<"sql">> -> [fields EXCEPT !["sql"] = str]
      [] k = <<"sql_user">> -> [fields EXCEPT !["sql_user"] = Truncated(str)]
      [] k = <<"status">> -> [fields EXCEPT !["status"] = <<"1">>]
      [] k = <<"log_level">> /\ str = <<"x">> -> [fields EXCEPT !["log_level"] = str]
      [] k = <<"flags">> /\ HasFlag(str, "x") -> [fields EXCEPT !["flags"] = <<"x">>]
      [] Len(k) = 1 /\ k[1] \in {"param0", "param1", "param3"} /\ ParamNumber(k[1]) \in 1 .. MaxParams ->
            [fields EXCEPT ![Param(ParamNumber(k[1]))] = str]
      [] OTHER -> fields

WriteValue(cells) ==
    /\ fields' = Stored(key, Unescaped(StringIn(cells)))
    /\ value' = UnescapedIn(cells)

-----------------------------------------------------------------------------
(* The loop, the same in its three copies. *)

Char(c) == at = "read" /\ s <= Len(input) /\ input[s] = c

PairEndUnterminated ==                                                  \* mutant
    /\ Char("&") /\ v < Room
    /\ WriteValue(value)
    /\ target' = "key" /\ key' = <<>>
    /\ s' = s + 1
    /\ UNCHANGED <<way, pairs, input, v, at>>
PairEnd ==
    /\ Char("&") /\ v < Room
    /\ WriteValue([value EXCEPT ![v] = "NUL"])
    /\ target' = "key" /\ key' = <<>>
    /\ s' = s + 1
    /\ UNCHANGED <<way, pairs, input, v, at>>

EqualsKeepsPlace ==                                                     \* mutant
    /\ Char("=")
    /\ target' = "value"
    /\ s' = s + 1
    /\ UNCHANGED <<way, pairs, input, key, value, v, fields, at>>
Equals ==
    /\ Char("=")
    /\ target' = "value" /\ v' = 0
    /\ s' = s + 1
    /\ UNCHANGED <<way, pairs, input, key, value, fields, at>>

Other == at = "read" /\ s <= Len(input) /\ input[s] \notin {"&", "="}

KeyChar ==
    /\ Other /\ target = "key" /\ input[s] # "long"
    /\ key' = Append(key, input[s])
    /\ s' = s + 1
    /\ UNCHANGED <<way, pairs, input, target, value, v, fields, at>>

ValueCharSkips ==                                                       \* mutant
    /\ Other /\ target = "value" /\ v < Room
    /\ value' = [value EXCEPT ![v] = input[s]]
    /\ v' = v + 2
    /\ s' = s + 1
    /\ UNCHANGED <<way, pairs, input, key, target, fields, at>>
ValueChar ==
    /\ Other /\ target = "value" /\ v < Room
    /\ value' = [value EXCEPT ![v] = input[s]]
    /\ v' = v + 1
    /\ s' = s + 1
    /\ UNCHANGED <<way, pairs, input, key, target, fields, at>>

\* At the end newlines are cut off, from the cell past the value backwards.
\* A get then ends the string there; a post only if there were none.
LastLine == CHOOSE c \in -1 .. v : /\ \A e \in c + 1 .. v : value[e] = "\n"
                                   /\ c >= 0 => value[c] # "\n"
Ended ==
    [c \in Cells |-> IF c \in LastLine + 1 .. v \/ (c = LastLine /\ (way = "get" \/ c = v))
                     THEN "NUL" ELSE value[c]]

\* A get writes before its buffer when there is nothing but newlines up to v.
BeforeValue == way = "get" /\ LastLine = -1

Finish ==
    /\ at = "read" /\ s > Len(input) /\ v < Room /\ ~ BeforeValue
    /\ WriteValue(Ended)
    /\ at' = "done"
    /\ UNCHANGED <<way, pairs, input, s, key, target, v>>

\* There is no room for the next character, or for the NUL.
Overrun ==
    /\ \/ Other /\ target = "key" /\ input[s] = "long"
       \/ Other /\ target = "value" /\ v >= Room
       \/ Char("&") /\ v >= Room
       \/ at = "read" /\ s > Len(input) /\ (v >= Room \/ BeforeValue)
    /\ at' = "overrun"
    /\ UNCHANGED <<way, pairs, input, s, key, target, value, v, fields>>

Next == PairEnd \/ Equals \/ KeyChar \/ ValueChar \/ Finish \/ Overrun

Spec == Init /\ [][Next]_vars

-----------------------------------------------------------------------------
\* The states of the parser: its places stay inside what was sent (ngx
\* 603-833).
TypeOK ==
    /\ s \in 1 .. Len(input) + 1 /\ v \in Cells /\ (v > 0 => v + 3 <= s)
    /\ DOMAIN value = Cells /\ DOMAIN fields = Fields
    /\ target \in {"key", "value"} /\ at \in {"read", "done", "overrun"}

\* A posted value never leaves its buffer, whatever came before it (ngx 715,
\* 766: malloc of the size of the body).  One in the address does only when it
\* does not fit, or when the last of all is empty: then the loop that cuts off
\* newlines may find one, of an earlier field, in the first cell (ngx 825).  A
\* key does only when it is itself too long for key[100].
OverrunOnlyIf ==
    at = "overrun" =>
        \/ \E n \in DOMAIN pairs : pairs[n].key = "long"
        \/ way = "get" /\ \E n \in DOMAIN pairs : Len(pairs[n].val) >= ValueSize
        \/ way = "get" /\ pairs[Len(pairs)].val = <<>>

LastPair(f) == CHOOSE n \in DOMAIN pairs :
    pairs[n].key = f /\ \A m \in DOMAIN pairs : pairs[m].key = f => m <= n

\* What may become of the last value of all: a newline at the end of a body
\* stays or goes, and a get may lose the last character, when the cell past the
\* value happens to hold a newline (an earlier value left it there, say).
Kept(str, last) ==
    {str} \cup (IF last /\ way = "post" THEN {Append(str, "\n")} ELSE {})
          \cup (IF last /\ way = "get" /\ str # <<>> THEN {SubSeq(str, 1, Len(str) - 1)} ELSE {})

\* In a request that was read to its end, each field has the last value that was
\* sent for it, unescaped once and cut to its room, whatever came before it in
\* the request and in the buffers (ngx_http_dbrelay_module.c:715 to 732).  One
\* that was last sent without "=" is left out: it takes what is in the buffer.
FieldsAsSent ==
    at = "done" =>
        \A f \in Keys \cap {"sql", "sql_user", "param1"} :
            (\E n \in DOMAIN pairs : pairs[n].key = f) =>
                LET n == LastPair(f) IN
                ~ pairs[n].bare =>
                    \E str \in Kept(Unescaped(pairs[n].val), n = Len(pairs)) :
                        fields[f] = IF f = "sql_user" THEN Truncated(str) ELSE str

\* No field has a character that the request did not send, not even one that
\* was sent without a value (the buffers are never cleared).
NothingStale ==
    \A f \in Fields : \A k \in DOMAIN fields[f] : fields[f][k] # "stale"
=============================================================================
