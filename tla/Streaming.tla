------------------------------ MODULE Streaming ------------------------------
(***************************************************************************)
(* SSEUsageTracker of app/streaming.py: what the gateway reads of a stream *)
(* while it passes it on.  A stream is a sequence of pieces that the       *)
(* network never cuts further; it may be cut into chunks between any two.  *)
(* Several pieces make a token, so a chunk may end inside one.             *)
(***************************************************************************)
EXTENDS Naturals, Sequences, FiniteSets

CONSTANTS
    MaxBytes,  \* max_bytes of the whole stream, in pieces
    MaxLine    \* the longest buffer without a line end, in pieces

ASSUME StreamingAssumption == MaxBytes \in Nat /\ MaxLine \in Nat

NewLine == "\n"
Events == {"{prompt", "{completion", "{usage", "{delta"}
Pieces == {NewLine, "data:", "[DO", "NE]", "}", "junk"} \cup Events

(* What a line means.                                                      *)
Done == <<"data:", "[DO", "NE]">>
IsEvent(line) == \E e \in Events : line = <<"data:", e, "}">>
Ignored(line) == line = <<>> \/ line[1] # "data:" \/ line = <<"data:">>
Malformed(line) == ~Ignored(line) /\ line # Done /\ ~IsEvent(line)

Tracker ==
    [at : {"reading", "parsing", "ended", "failed"},
     fed : Nat,                          \* pieces received, total_bytes
     buffer : Seq(Pieces),               \* the unfinished line
     done : BOOLEAN,
     prompt : BOOLEAN, completion : BOOLEAN,  \* the counts that are known
     output : Nat]                       \* output_characters, in deltas

NewTracker ==
    [at |-> "reading", fed |-> 0, buffer |-> <<>>, done |-> FALSE,
     prompt |-> FALSE, completion |-> FALSE, output |-> 0]

parse_line(t, line) ==
    IF Malformed(line)
    THEN [t EXCEPT !.at = "failed"]
    ELSE [t EXCEPT
            !.done = @ \/ line = Done,
            !.prompt = @ \/ (IsEvent(line) /\ line[2] \in {"{prompt", "{usage"}),
            !.completion = @ \/ (IsEvent(line) /\ line[2] \in {"{completion", "{usage"}),
            !.output = IF IsEvent(line) /\ line[2] = "{delta" THEN @ + 1 ELSE @]

LineEnds(s) == {i \in 1..Len(s) : s[i] = NewLine}
FirstLineEnd(s) == CHOOSE i \in LineEnds(s) : \A j \in LineEnds(s) : i <= j

buffered_anew(buffer, chunk) == chunk
buffered(buffer, chunk) == buffer \o chunk

(* feed: the limits first, then the loop over the complete lines.          *)
feed(t, chunk) ==
    LET whole == buffered(t.buffer, chunk)
    IN  [t EXCEPT
           !.fed = @ + Len(chunk),
           !.buffer = whole,
           !.at = IF \/ t.fed + Len(chunk) > MaxBytes
                     \/ Len(whole) > MaxLine /\ LineEnds(whole) = {}
                  THEN "failed" ELSE "parsing"]

parse_next_once(t) ==
    IF LineEnds(t.buffer) = {}
    THEN [t EXCEPT !.at = "reading"]
    ELSE LET i == FirstLineEnd(t.buffer)
         IN  parse_line([t EXCEPT !.buffer = SubSeq(@, i + 1, Len(@)),
                                  !.at = "reading"],
                        SubSeq(t.buffer, 1, i - 1))

parse_next(t) ==
    IF LineEnds(t.buffer) = {}
    THEN [t EXCEPT !.at = "reading"]
    ELSE LET i == FirstLineEnd(t.buffer)
         IN  parse_line([t EXCEPT !.buffer = SubSeq(@, i + 1, Len(@))],
                        SubSeq(t.buffer, 1, i - 1))

(* The last line needs no line end.                                        *)
finish(t) == [parse_line([t EXCEPT !.at = "ended"], t.buffer) EXCEPT !.buffer = <<>>]

-----------------------------------------------------------------------------
(* What the stream says, read as a whole                                   *)

Lines(text) ==
    {span \in ({0} \cup LineEnds(text)) \X (LineEnds(text) \cup {Len(text) + 1}) :
        /\ span[1] < span[2]
        /\ \A k \in LineEnds(text) : ~(span[1] < k /\ k < span[2])}
Line(text, span) == SubSeq(text, span[1] + 1, span[2] - 1)
Says(text, meant(_)) == \E span \in Lines(text) : meant(Line(text, span))

IsDone(line) == line = Done
GivesPrompt(line) == IsEvent(line) /\ line[2] \in {"{prompt", "{usage"}
GivesCompletion(line) == IsEvent(line) /\ line[2] \in {"{completion", "{usage"}
IsDelta(line) == IsEvent(line) /\ line[2] = "{delta"
TooLong(text) ==
    \/ Len(text) > MaxBytes
    \/ \E span \in Lines(text) : span[2] - span[1] - 1 > MaxLine

(* What a tracker has found at the end of a text is what the text says.    *)
ReadsAs(t, text) ==
    /\ t.at = "ended" =>
          /\ ~Says(text, Malformed)
          /\ t.done = Says(text, IsDone)
          /\ t.prompt = Says(text, GivesPrompt)
          /\ t.completion = Says(text, GivesCompletion)
          /\ t.output = Cardinality({s \in Lines(text) : IsDelta(Line(text, s))})
    /\ t.at = "failed" => Says(text, Malformed) \/ TooLong(text)
=============================================================================
