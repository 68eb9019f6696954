------------------------------ MODULE FrameScan ------------------------------
(***************************************************************************)
(* What stdio_transport's read_loop and frame make of the bytes of a whole   *)
(* input: lines within max_frame_bytes, nested at most max_json_depth deep   *)
(* by a scan that does not parse, and only then given to the parser.         *)
(*                                                                          *)
(* Bytes: "1", the six of JSON's arrays and strings [ ] , " \ and "n" for    *)
(* the newline. Objects nest as arrays do. A diagnostic can always be sent.  *)
(***************************************************************************)
EXTENDS Naturals, Sequences, Iteration

CONSTANTS MaxFrame,  \* options_.max_frame_bytes
          MaxDepth   \* options_.max_json_depth

ASSUME MaxFrameAssumption == MaxFrame \in Nat \ {0}
ASSUME MaxDepthAssumption == MaxDepth \in Nat \ {0}

-----------------------------------------------------------------------------
(* The parser, and the grammar it stands for: which places of a text hold a value *)
(* that is nested at most d deep.                                                   *)

Bytes == {"1", "[", "]", ",", "\"", "\\", "n"}

IsNumber(text, a, b) == a <= b /\ \A i \in a .. b : text[i] = "1"

\* Escapes pair up with what they escape; no quote stands in between.
IsString(text, a, b) ==
    /\ a < b /\ text[a] = "\"" /\ text[b] = "\""
    /\ \E escapes \in SUBSET {i \in a + 1 .. b - 2 : text[i] = "\\"} :
          \A i \in a + 1 .. b - 1 :
              IF i - 1 \in escapes THEN i \notin escapes /\ text[i] \in {"\\", "\""}
              ELSE text[i] # "\"" /\ (text[i] = "\\" => i \in escapes)

\* Values with a comma between each two of them.
IsList(text, a, b, values) ==
    \E commas \in SUBSET {i \in a .. b : text[i] = ","} :
        \A i \in commas \cup {a - 1}, j \in commas \cup {b + 1} :
            i < j /\ (\A k \in commas : k <= i \/ j <= k) => <<i + 1, j - 1>> \in values

Spans(text) == (1 .. Len(text)) \X (1 .. Len(text))

Atoms(text) == {s \in Spans(text) : IsNumber(text, s[1], s[2]) \/ IsString(text, s[1], s[2])}

Arrays(text, values) ==
    {s \in Spans(text) : /\ s[1] < s[2] /\ text[s[1]] = "[" /\ text[s[2]] = "]"
                         /\ s[2] = s[1] + 1 \/ IsList(text, s[1] + 1, s[2] - 1, values)}

Values(text) ==
    Iterate(Atoms(text),
            [d \in Nat |-> [values \in SUBSET Spans(text) |-> Atoms(text) \cup Arrays(text, values)]])

IsValue(line, d) == <<1, Len(line)>> \in Values(line)[d]

Parses(line) == IsValue(line, Len(line))

-----------------------------------------------------------------------------
(* The scan and the loop. *)

\* Variant: a backslash does not protect a quote.
ScanUnescaped(s, ch) ==
    IF s.quoted THEN [s EXCEPT !.quoted = (ch # "\"")]
    ELSE CASE ch = "\"" -> [s EXCEPT !.quoted = TRUE]
           [] ch = "[" /\ s.depth = MaxDepth -> [s EXCEPT !.excess = TRUE]
           [] ch = "[" /\ s.depth < MaxDepth -> [s EXCEPT !.depth = @ + 1]
           [] ch = "]" /\ s.depth > 0 -> [s EXCEPT !.depth = @ - 1]
           [] OTHER -> s

Scan(s, ch) ==
    IF s.quoted
    THEN IF s.escaped THEN [s EXCEPT !.escaped = FALSE]
         ELSE [s EXCEPT !.escaped = (ch = "\\"), !.quoted = (ch # "\"")]
    ELSE CASE ch = "\"" -> [s EXCEPT !.quoted = TRUE]
           [] ch = "[" /\ s.depth = MaxDepth -> [s EXCEPT !.excess = TRUE]
           [] ch = "[" /\ s.depth < MaxDepth -> [s EXCEPT !.depth = @ + 1]
           [] ch = "]" /\ s.depth > 0 -> [s EXCEPT !.depth = @ - 1]
           [] OTHER -> s

Scans == [depth : 0 .. MaxDepth, quoted : BOOLEAN, escaped : BOOLEAN, excess : BOOLEAN]

Scanned(line) ==
    Iterate([depth |-> 0, quoted |-> FALSE, escaped |-> FALSE, excess |-> FALSE],
            [i \in 1 .. Len(line) |-> [s \in Scans |-> Scan(s, line[i])]])

ExcessiveDepth(line) == Scanned(line)[Len(line)].excess

\* What becomes of a line: a message, a diagnostic, or the end of the connection.
Frame(line) ==
    IF line = <<>> THEN <<>>
    ELSE IF ExcessiveDepth(line) THEN <<"limit">>
    ELSE IF Parses(line) THEN <<"message">> ELSE <<"error">>

Limited(st) == st.events # <<>> /\ st.events[Len(st.events)] = "limit"

ReadByte(st, byte) ==
    IF Limited(st) THEN st
    ELSE IF byte = "n" THEN [line |-> <<>>, events |-> st.events \o Frame(st.line)]
    ELSE IF Len(st.line) = MaxFrame THEN [st EXCEPT !.events = Append(@, "limit")]
    ELSE [st EXCEPT !.line = Append(@, byte)]

Reads == [line : Seq(Bytes), events : Seq({"limit", "message", "error"})]

HasRead(bytes) ==
    Iterate([line |-> <<>>, events |-> <<>>],
            [i \in 1 .. Len(bytes) |-> [st \in Reads |-> ReadByte(st, bytes[i])]])

\* The input ends: a line without its newline is one all the same.
ReadAll(bytes) ==
    LET st == HasRead(bytes)[Len(bytes)]
    IN  IF Limited(st) THEN st.events ELSE st.events \o Frame(st.line)

-----------------------------------------------------------------------------
(* What is to become of the lines of an input. *)

\* Where a line ends that is not empty: at its newline, or with the input.
Ends(bytes) ==
    {e \in 2 .. Len(bytes) + 1 : bytes[e - 1] # "n" /\ (e <= Len(bytes) => bytes[e] = "n")}

\* Where it begins.
Begins(bytes, e) ==
    CHOOSE b \in 1 .. e - 1 : /\ \A i \in b .. e - 1 : bytes[i] # "n"
                              /\ b > 1 => bytes[b - 1] = "n"

LineAt(bytes, e) == SubSeq(bytes, Begins(bytes, e), e - 1)

\* Of a line that is no JSON the scan may, but need not, think that it is too deep.
Due(line) ==
    IF Len(line) > MaxFrame THEN {"limit"}
    ELSE IF IsValue(line, MaxDepth) THEN {"message"}
    ELSE IF Parses(line) THEN {"limit"}
    ELSE {"error", "limit"}

\* The events are those of the lines, in order, and the lines are all, or all up to a limit.
EventsAreDue(bytes, events) ==
    \E end \in [1 .. Len(events) -> Ends(bytes)] :
        /\ \A i, j \in 1 .. Len(events) : i < j => end[i] < end[j]
        /\ \A i \in 1 .. Len(events) : /\ events[i] \in Due(LineAt(bytes, end[i]))
                                       /\ events[i] = "limit" => i = Len(events)
        /\ \A e \in Ends(bytes) :
              \/ \E i \in 1 .. Len(events) : end[i] = e
              \/ \E i \in 1 .. Len(events) : events[i] = "limit" /\ end[i] < e
=============================================================================
