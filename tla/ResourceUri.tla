----------------------------- MODULE ResourceUri -----------------------------
(***************************************************************************)
(* server::valid_resource_uri: the absolute URIs of RFC 3986, accepted by   *)
(* cutting the text at delimiters; and the grammar of the RFC itself.       *)
(*                                                                          *)
(* A text is a sequence of characters, each standing for its class:         *)
(*   "x"  a letter that is no hex digit ("v" is one that is told apart)     *)
(*   "f"  a letter that is one         "1"  a digit                         *)
(*   "~"  an unreserved character      "!"  a sub-delim                     *)
(*   " "  whatever a URI may not contain                                    *)
(* and : / ? # [ ] @ % . are themselves. A group of an IPv6 address is short *)
(* enough here, and a well-formed IPv4 tail of one is the character "4".    *)
(***************************************************************************)
EXTENDS Naturals, Sequences, Iteration

CONSTANT Groups   \* groups in an IPv6 address: 8

ASSUME GroupsAssumption == Groups \in Nat \ {0}

-----------------------------------------------------------------------------
(* What the two have in common: the classes of characters. *)

Alpha == {"x", "v", "f"}
Digit == {"1"}
Hex == {"1", "f"}
Unreserved == Alpha \cup Digit \cup {"~", "."}
SubDelims == {"!"}
Characters == Alpha \cup Unreserved \cup SubDelims
              \cup {" ", ":", "/", "?", "#", "[", "]", "@", "%", "4"}

PathExtra == {":", "@", "/"}
QueryExtra == PathExtra \cup {"?"}

AllIn(text, set) == \A i \in 1 .. Len(text) : text[i] \in set

\* A group of 16 bits from a to b.
IsGroup(text, a, b) == a <= b /\ \A i \in a .. b : text[i] \in Hex

-----------------------------------------------------------------------------
(* The validator. *)

\* find: the first place, 0 for npos.
First(places) == IF places = {} THEN 0 ELSE CHOOSE i \in places : \A j \in places : i <= j
FindFrom(text, ch, from) == First({i \in from .. Len(text) : text[i] = ch})
Find(text, ch) == FindFrom(text, ch, 1)
FindPair(text) == First({i \in 1 .. Len(text) - 1 : text[i] = ":" /\ text[i + 1] = ":"})
Before(text, at) == SubSeq(text, 1, at - 1)
After(text, at) == SubSeq(text, at + 1, Len(text))
\* substr(0, find(ch)) and what follows it: all and nothing without such a ch.
Head1(text, ch) == IF Find(text, ch) = 0 THEN text ELSE Before(text, Find(text, ch))
Tail1(text, ch) == IF Find(text, ch) = 0 THEN <<>> ELSE After(text, Find(text, ch))

\* component, at one character: an escape is taken with the two digits it needs.
Escape(text, i) == i + 2 <= Len(text) /\ text[i + 1] \in Hex /\ text[i + 2] \in Hex

LookAt(st, text, i, extra) ==
    IF ~st.ok THEN st
    ELSE IF st.skip > 0 THEN [ok |-> TRUE, skip |-> st.skip - 1]
    ELSE IF text[i] = "%" THEN [ok |-> Escape(text, i), skip |-> 2]
    ELSE [ok |-> text[i] \in Unreserved \cup SubDelims \cup extra, skip |-> 0]

Looks == [ok : BOOLEAN, skip : 0 .. 2]

Looked(text, extra) ==
    Iterate([ok |-> TRUE, skip |-> 0],
            [i \in 1 .. Len(text) |-> [st \in Looks |-> LookAt(st, text, i, extra)]])

Component(text, extra) == Looked(text, extra)[Len(text)].ok

\* count_groups, for one group: it begins at st.at, and at the end nothing is left.
CountGroup(st, part, tail) ==
    LET separator == FindFrom(part, ":", st.at)
        last == IF separator = 0 THEN Len(part) ELSE separator - 1
        ipv4 == tail /\ separator = 0 /\ st.at = last /\ part[last] = "4"
    IN  IF st.at > Len(part) THEN st
        ELSE IF (~ipv4 /\ ~IsGroup(part, st.at, last)) \/ separator = Len(part)
        THEN [at |-> Len(part) + 1, groups |-> st.groups, ok |-> FALSE]
        ELSE [at |-> last + (IF separator = 0 THEN 1 ELSE 2),
              groups |-> st.groups + (IF ipv4 THEN 2 ELSE 1), ok |-> TRUE]

Counts == [at : Nat, groups : Nat, ok : BOOLEAN]

CountedGroups(part, tail) ==
    Iterate([at |-> 1, groups |-> 0, ok |-> TRUE],
            [i \in 1 .. Len(part) |-> [st \in Counts |-> CountGroup(st, part, tail)]])

CountGroups(part, tail) == CountedGroups(part, tail)[Len(part)]

IpFuture(address) ==
    LET dot == Find(address, ".") IN
    /\ dot > 2 /\ dot < Len(address)
    /\ AllIn(SubSeq(address, 2, dot - 1), Hex)
    /\ Find(After(address, dot), "%") = 0
    /\ Component(After(address, dot), {":"})

IpV6(address) ==
    LET compression == FindPair(address)
        all == CountGroups(address, TRUE)
        left == CountGroups(Before(address, compression), FALSE)
        right == CountGroups(After(address, compression + 1), TRUE)
    IN  IF compression = 0 THEN all.ok /\ all.groups = Groups
        ELSE /\ FindPair(After(address, compression + 1)) = 0
             /\ left.ok /\ right.ok /\ left.groups + right.groups < Groups

Bracketed(authority) ==
    LET end == Find(authority, "]")
        address == SubSeq(authority, 2, end - 1)
        suffix == After(authority, end)
    IN  /\ end # 0
        /\ IF address # <<>> /\ address[1] = "v" THEN IpFuture(address) ELSE IpV6(address)
        /\ suffix # <<>> => suffix[1] = ":" /\ AllIn(Tail(suffix), Digit)

HostPort(authority) ==
    IF authority # <<>> /\ authority[1] = "[" THEN Bracketed(authority)
    ELSE Component(Head1(authority, ":"), {}) /\ AllIn(Tail1(authority, ":"), Digit)

Authority(authority) ==
    LET at == Find(authority, "@") IN
    IF at = 0 THEN HostPort(authority)
    ELSE Component(Before(authority, at), {":"}) /\ HostPort(After(authority, at))

Hierarchy(rest) ==
    IF Len(rest) < 2 \/ rest[1] # "/" \/ rest[2] # "/" THEN Component(rest, PathExtra)
    ELSE LET text == After(rest, 2)
             slash == Find(text, "/")
             path == IF slash = 0 THEN <<>> ELSE SubSeq(text, slash, Len(text))
         IN  Authority(Head1(text, "/")) /\ Component(path, PathExtra)

Scheme(scheme) ==
    /\ scheme # <<>>
    /\ scheme[1] \in Alpha
    /\ AllIn(scheme, Alpha \cup Digit \cup {"."})

\* Variant: the query is cut off before the fragment.
ValidQueryFirst(uri) ==
    LET rest == Tail1(uri, ":")
        hier == Head1(rest, "?")
        query == Tail1(rest, "?")
    IN  /\ Find(uri, ":") # 0
        /\ Scheme(Head1(uri, ":"))
        /\ Component(query, QueryExtra)
        /\ Component(Tail1(hier, "#"), QueryExtra)
        /\ Hierarchy(Head1(hier, "#"))

Valid(uri) ==
    LET rest == Tail1(uri, ":")
        unfragmented == Head1(rest, "#")
    IN  /\ Find(uri, ":") # 0
        /\ Scheme(Head1(uri, ":"))
        /\ Component(Tail1(rest, "#"), QueryExtra)
        /\ Component(Tail1(unfragmented, "?"), QueryExtra)
        /\ Hierarchy(Head1(unfragmented, "?"))

-----------------------------------------------------------------------------
(* RFC 3986, appendix A: a text is a URI when some reading of it is. Parsed *)
(* by the grammar's alternatives, with no rule on where to cut.             *)

\* Two parts around one delimiter.
Parts(text, delimiter) ==
    {<<Before(text, i), After(text, i)>> : i \in {j \in 1 .. Len(text) : text[j] = delimiter}}

\* *( pchar-like / pct-encoded ): each % opens an escape no % is part of.
Chars(text, set) ==
    \A i \in 1 .. Len(text) :
        \/ text[i] \in set
        \/ text[i] = "%" /\ i + 2 <= Len(text) /\ {text[i + 1], text[i + 2]} \subseteq Hex

RegChars == Unreserved \cup SubDelims
PChars == RegChars \cup {":", "@"}

\* The places behind n groups with their colons.
Behind(text) ==
    Iterate({1}, [n \in Nat |-> [starts \in SUBSET (1 .. Len(text) + 1) |->
        {c + 1 : c \in {i \in 1 .. Len(text) : /\ text[i] = ":"
                                               /\ \E a \in starts : IsGroup(text, a, i - 1)}}]])

\* n groups of 16 bits; the last two may be an IPv4 address where allowed.
Pieces(text, n, tail) ==
    \/ n = 0 /\ text = <<>>
    \/ n > 0 /\ \E a \in Behind(text)[n - 1] : IsGroup(text, a, Len(text))
    \/ tail /\ n > 1 /\ \E a \in Behind(text)[n - 2] : a = Len(text) /\ text[a] = "4"

RfcIpV6(text) ==
    \/ Pieces(text, Groups, TRUE)
    \/ \E i \in 1 .. Len(text) - 1, m, n \in 0 .. Groups - 1 :
          /\ text[i] = ":" /\ text[i + 1] = ":"
          /\ m + n < Groups
          /\ Pieces(Before(text, i), m, FALSE)
          /\ Pieces(After(text, i + 1), n, TRUE)

RfcIpFuture(text) ==
    \E p \in Parts(text, ".") :
        /\ Len(p[1]) > 1 /\ p[1][1] = "v" /\ AllIn(Tail(p[1]), Hex)
        /\ p[2] # <<>> /\ AllIn(p[2], RegChars \cup {":"})

RfcHost(text) ==
    \/ Chars(text, RegChars)
    \/ /\ Len(text) >= 2 /\ text[1] = "[" /\ text[Len(text)] = "]"
       /\ LET address == SubSeq(text, 2, Len(text) - 1)
          IN  RfcIpV6(address) \/ RfcIpFuture(address)

RfcHostPort(text) ==
    \/ RfcHost(text)
    \/ \E p \in Parts(text, ":") : RfcHost(p[1]) /\ AllIn(p[2], Digit)

RfcAuthority(text) ==
    \/ RfcHostPort(text)
    \/ \E p \in Parts(text, "@") : Chars(p[1], RegChars \cup {":"}) /\ RfcHostPort(p[2])

RfcPathAbempty(text) ==
    (text = <<>> \/ text[1] = "/") /\ Chars(text, PChars \cup {"/"})

\* Without an authority the path does not begin with two slashes.
RfcHier(text) ==
    \/ /\ Len(text) >= 2 /\ text[1] = "/" /\ text[2] = "/"
       /\ \E i \in 3 .. Len(text) + 1 :
             RfcAuthority(SubSeq(text, 3, i - 1)) /\ RfcPathAbempty(SubSeq(text, i, Len(text)))
    \/ /\ ~(Len(text) >= 2 /\ text[1] = "/" /\ text[2] = "/")
       /\ Chars(text, PChars \cup {"/"})

RfcQueried(text) ==
    \/ RfcHier(text)
    \/ \E p \in Parts(text, "?") : RfcHier(p[1]) /\ Chars(p[2], PChars \cup {"/", "?"})

RfcRest(text) ==
    \/ RfcQueried(text)
    \/ \E p \in Parts(text, "#") : RfcQueried(p[1]) /\ Chars(p[2], PChars \cup {"/", "?"})

Rfc3986(text) == \E p \in Parts(text, ":") : Scheme(p[1]) /\ RfcRest(p[2])
=============================================================================
