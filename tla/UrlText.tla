--------------------------------- MODULE UrlText ---------------------------------
(***************************************************************************)
(* The URL of a request: get_url of manager/requestmanager.h, with the     *)
(* basic parameters a manager has been given and the parameters that       *)
(* gen_map of jni.cpp takes from Java's lists.                             *)
(*                                                                         *)
(* A text is a sequence of characters. A STRING_MAP is a function, whose   *)
(* keys are visited in the order of KeyOrder. A host that does not begin   *)
(* with http, which host_valid refuses, is the empty text.                 *)
(***************************************************************************)
EXTENDS Integers, SequencesExt

CONSTANTS
    Char,
    KeyOrder,           \* the keys as sorted by std::map
    Values,             \* of parameters
    Hosts, StrPaths,
    MaxParams           \* bound on the lists Java passes

Texts == Seq(Char)

ASSUME UrlAssumption ==
    /\ {"/", "?", "&", "="} \subseteq Char
    /\ KeyOrder \in Seq(Texts)
    /\ Values \subseteq Texts /\ Hosts \subseteq Texts /\ StrPaths \subseteq Texts
    /\ MaxParams \in Nat

Keys == {KeyOrder[i] : i \in DOMAIN KeyOrder}
Lists(S) == UNION {[1 .. n -> S] : n \in 0 .. MaxParams}

VARIABLES
    m_host, m_basic_params,
    str_path, keys, values,     \* the last request: its path and its lists
    url                         \* what get_url has returned for it

request == <<str_path, keys, values, url>>
urlVars == <<m_host, m_basic_params, request>>

NoParams == [k \in {} |-> <<>>]

UrlInit ==
    /\ m_host = <<>> /\ m_basic_params = NoParams
    /\ str_path = <<>> /\ keys = <<>> /\ values = <<>> /\ url = <<>>

-------------------------------------------------------------------------------
EndsWith(text, c) == text # <<>> /\ Last(text) = c

Without(text, c) == IF EndsWith(text, c) THEN Front(text) ELSE text

Behind(text, c) == IF text # <<>> /\ Head(text) = c THEN Tail(text) ELSE text

(* mutant: a host with a slash gets another *)
BaseSlash(host, path) == host \o <<"/">> \o path

Base(host, path) ==
    IF host = <<>> THEN path
    ELSE (IF EndsWith(host, "/") THEN host ELSE Append(host, "/")) \o Behind(path, "/")

Written(map) ==
    FlattenSeq([i \in DOMAIN KeyOrder |->
        LET k == KeyOrder[i]
        IN  IF k \in DOMAIN map THEN k \o <<"=">> \o map[k] \o <<"&">> ELSE <<>>])

get_url(host, path, params, basic) ==
    LET resource == Without(Base(host, path), "/")
        started == IF resource = <<>> \/ EndsWith(resource, "?") THEN resource
                                                                 ELSE Append(resource, "?")
    IN  Without(Without(started \o Written(params) \o Written(basic), "&"), "?")

(* the position in Java's list whose value a key is assigned last *)
Assigned(ks, k) == CHOOSE i \in DOMAIN ks :
                       ks[i] = k /\ \A j \in i + 1 .. Len(ks) : ks[j] # k

(* Lists of different lengths give no parameters. jni.cpp:238 skips a pair with a null
   entry; the model's lists have none. *)
gen_map(ks, vs) ==
    IF Len(ks) # Len(vs) THEN NoParams
    ELSE [k \in {ks[i] : i \in DOMAIN ks} |-> vs[Assigned(ks, k)]]

-------------------------------------------------------------------------------
set_host(host) ==
    /\ m_host' = host
    /\ str_path' = <<>> /\ keys' = <<>> /\ values' = <<>> /\ url' = <<>>
    /\ UNCHANGED m_basic_params

add_basic_url_params(k, v) ==
    /\ m_basic_params' = [j \in DOMAIN m_basic_params \cup {k} |->
                              IF j = k THEN v ELSE m_basic_params[j]]
    /\ str_path' = <<>> /\ keys' = <<>> /\ values' = <<>> /\ url' = <<>>
    /\ UNCHANGED m_host

get(path, ks, vs) ==
    /\ str_path' = path /\ keys' = ks /\ values' = vs
    /\ url' = get_url(m_host, path, gen_map(ks, vs), m_basic_params)
    /\ UNCHANGED <<m_host, m_basic_params>>

UrlNext ==
    \/ \E h \in Hosts : set_host(h)
    \/ \E k \in Keys, v \in Values : add_basic_url_params(k, v)
    \/ \E p \in StrPaths, ks \in Lists(Keys), vs \in Lists(Values) : get(p, ks, vs)

UrlSpec == UrlInit /\ [][UrlNext]_urlVars

-------------------------------------------------------------------------------
(* What a reader of the arguments expects. There are two places for each key in the
   URL: one among the parameters of the request, and behind all of these one among
   those of the manager. *)
Places == 1 .. 2 * Len(KeyOrder)
Own(p) == p <= Len(KeyOrder)
Key(p) == KeyOrder[IF Own(p) THEN p ELSE p - Len(KeyOrder)]

(* where the lists have the key *)
Mentions(k) == {i \in DOMAIN keys : keys[i] = k /\ Len(keys) = Len(values)}

Given == {p \in Places : IF Own(p) THEN Mentions(Key(p)) # {}
                                   ELSE Key(p) \in DOMAIN m_basic_params}

(* the value given last *)
Value(p) == IF Own(p) THEN values[Max(Mentions(Key(p)))] ELSE m_basic_params[Key(p)]

(* "key=value", joined with "&" *)
Joined ==
    FlattenSeq([p \in Places |->
        IF p \notin Given THEN <<>>
        ELSE (IF \E q \in Given : q < p THEN <<"&">> ELSE <<>>)
             \o (Key(p) \o <<"=">> \o Value(p))])

(* One slash between host and path, and at most one less at the end *)
Resource ==
    Without(IF m_host = <<>> THEN str_path
            ELSE Without(m_host, "/") \o <<"/">> \o Behind(str_path, "/"), "/")

Readable == \A p \in Given : (\A q \in Given : q <= p) => ~ EndsWith(Value(p), "?")

(* The URL is the host and the path with one slash between them, without one at the
   end, and then the parameters of the request and those of the manager, in the order
   of the keys and each with the value given last: nothing is lost, doubled or left
   over, unless the last value ends in a question mark, which is taken for the one that
   precedes parameters (requestmanager.h:328-390, jni.cpp:213-257). *)
UrlAsGiven ==
    url # <<>> /\ Readable =>
        url = Without(Resource, "?")
              \o (IF Given = {} THEN <<>>
                  ELSE (IF Resource = <<>> THEN <<>> ELSE <<"?">>) \o Joined)
===============================================================================
